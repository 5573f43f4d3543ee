\* Violated: a call in a closure is passed over for a move of its parent.
CONSTANTS
  Fns = {1, 2}
  Ids = {1, 2}
  Resume <- MCResume
  MaxItems = 2
  MaxUses = 2
  MaxEnd = 3
  MaxLoc = 5
  MaxPushes = 0
  Kinds = {"lifetime", "move", "call"}
SPECIFICATION DecosSpec
INVARIANT CallIsFound
CHECK_DEADLOCK FALSE
