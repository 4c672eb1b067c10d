SPECIFICATION Spec
CONSTANTS
  Conns = {g1, g2}
  NoConn = NoConn
  MaxAttempts = 2
  MaxRetries = 1
  MaxScans = 2
  MaxCmds = 1
  MaxPosted = 2
SYMMETRY ConnSymmetry
INVARIANTS
  TypeOK
  OneConnectionOpen
  SomeLoopIsAlive
  ShutdownIsFinal
  SentOnce
  ScanHasTimeout
CHECK_DEADLOCK FALSE
