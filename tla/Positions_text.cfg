\* Texts of up to five characters, one of them wide.
CONSTANTS
  Chars = {"cr", "lf", "x", "wide"}
  MaxLen = 5
SPECIFICATION PosSpec
INVARIANTS IndexOfByte FoundAgain ShownInCleanText
CHECK_DEADLOCK FALSE
