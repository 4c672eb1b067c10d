SPECIFICATION FairSpec
CONSTANTS
  Conns = {g1, g2}
  NoConn = NoConn
  MaxAttempts = 2
  MaxRetries = 0
  MaxScans = 1
  MaxCmds = 0
  MaxPosted = 1
PROPERTIES
  LoopEnds
CHECK_DEADLOCK FALSE
