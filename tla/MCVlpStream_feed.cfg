SPECIFICATION Spec
CONSTANTS
  Subscribers = {s1, s2}
  Paths = {}
  NoPath = noPath
  MaxTs = 2
  MaxFrames = 2
  MaxDepths = 2
  MaxCalls = 3
  MaxServers = 2
INVARIANTS
  TypeOK
  DeliversRealFramesInOrder
  NoSleeperMissesAFrame
  DepthAttachedOnce
  DepthNotAhead
  ConsumedDepthIsSent
PROPERTIES
  ImplementsFeed
CHECK_DEADLOCK FALSE
