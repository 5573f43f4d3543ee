\* Texts with CRLF line ends.
CONSTANTS
  Chars = {"cr", "lf", "x"}
  MaxLen = 5
SPECIFICATION PosSpec
INVARIANT ShownWhereItIs
CHECK_DEADLOCK FALSE
