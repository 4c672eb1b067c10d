CONSTANTS
  MaxPose = 3
  Depth = 2
  MaxTraj = 2
SPECIFICATION FairSpec
INVARIANTS DrawnFromOneOrigin
PROPERTIES EsdfGetsShifted
