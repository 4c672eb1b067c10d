SPECIFICATION FairSpec
CONSTANTS
  Subscribers = {s1, s2}
  Paths = {}
  NoPath = noPath
  MaxTs = 1
  MaxFrames = 2
  MaxDepths = 0
  MaxCalls = 2
  MaxServers = 1
PROPERTIES
  FramesReachCalls
  StopReturnsWhenAwake
  CancelledCallEnds
CHECK_DEADLOCK FALSE
