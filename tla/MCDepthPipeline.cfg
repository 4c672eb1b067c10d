SPECIFICATION FairSpec
CONSTANTS
  MaxTs = 2
INVARIANTS
  EachDepthOfferedOnce
  DepthKeepsItsTime
  NewestImageWins
  NoThreadOutlivesPipeline
PROPERTIES
  ImageIsTaken
  DestructorReturns
  ResultIsOfferedWhenRendering
CHECK_DEADLOCK FALSE
