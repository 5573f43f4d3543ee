\* Neovim draws one file's answer in another.
CONSTANTS
  Buffers = {b1, b2}
  NoBuffer = none
  MaxMoves = 3
  MaxToggles = 2
SPECIFICATION Spec
INVARIANT RightBufferInNeovim
CHECK_DEADLOCK FALSE
