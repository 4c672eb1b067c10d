SPECIFICATION DisplayFairSpec
CONSTANTS
  MaxTouches = 0
  MaxStreams = 0
  MaxTurns = 2
  MaxAnchors = 1
  MaxCommands = 0
PROPERTIES
  RotationIsApplied
