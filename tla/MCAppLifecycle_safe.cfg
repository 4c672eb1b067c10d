SPECIFICATION FairSpec
CONSTANTS
  MaxTouches = 1
  MaxStreams = 1
  MaxTurns = 1
  MaxAnchors = 1
  MaxCommands = 2
INVARIANTS
  NoUseAfterDelete
  SessionNotChangedUnderGl
  IntrinsicsOfSession
  AnchorsAreHeld
  CommandsInOrder
PROPERTIES
  UiThreadGoesOn
