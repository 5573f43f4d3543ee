\* A child that prints a single line.
CONSTANTS
  Capacity = 2
  MaxLines = 1
SPECIFICATION Spec
INVARIANTS AllDelivered
CHECK_DEADLOCK FALSE
