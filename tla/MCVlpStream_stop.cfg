SPECIFICATION FairSpec
CONSTANTS
  Subscribers = {s1}
  Paths = {}
  NoPath = noPath
  MaxTs = 1
  MaxFrames = 1
  MaxDepths = 0
  MaxCalls = 1
  MaxServers = 1
PROPERTIES
  StopReturns
CHECK_DEADLOCK FALSE
