\* Two files, three moves of the cursor, two commands, in each of the three editors.
CONSTANTS
  Buffers = {b1, b2}
  NoBuffer = none
  MaxMoves = 3
  MaxToggles = 2
SPECIFICATION FairSpec
INVARIANTS OnlyLateAnswersLeak RightBuffer
PROPERTIES RestIsShown
CHECK_DEADLOCK FALSE
