\* VS Code: an answer enables what the user has disabled.
CONSTANTS
  Buffers = {b1, b2}
  NoBuffer = none
  MaxMoves = 3
  MaxToggles = 2
SPECIFICATION Spec
PROPERTY ToggleHolds
CHECK_DEADLOCK FALSE
