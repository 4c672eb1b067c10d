\* The program ends, or hangs: Stop may wait in accept for a connection nobody makes.
CHECK_DEADLOCK FALSE
CONSTANTS
  p1 = p1
  s1 = s1
  NoConn = NoConn
  Pages = {p1}
  Strangers = {s1}
  MaxPos = 3
  MaxRange = 1
  VisRadius = 2
  Frames <- MCFrames
  Crashes <- MCCrashes
  EveryN = 2
  MaxPasses = 2
SPECIFICATION FairSpec
INVARIANTS RecordsRecovered PendingSliceIsWhole AllClosedAtExit
PROPERTIES SurfaceIsShown StopReturnsWithPage
