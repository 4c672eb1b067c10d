SPECIFICATION Spec
CONSTANTS
  Subscribers = {}
  Paths = {p1, p2}
  NoPath = noPath
  MaxTs = 3
  MaxFrames = 4
  MaxDepths = 0
  MaxCalls = 0
  MaxServers = 2
INVARIANTS
  RecordingIsTheStream
  FilesCanBeReplayed
CHECK_DEADLOCK FALSE
