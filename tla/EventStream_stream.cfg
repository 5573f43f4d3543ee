\* A channel of two events, a child that prints at most four lines or hangs.
CONSTANTS
  Capacity = 2
  MaxLines = 4
SPECIFICATION FairSpec
INVARIANTS NoneSkipped EndsAtClose
PROPERTIES IterEnds ReaderStops
CHECK_DEADLOCK FALSE
