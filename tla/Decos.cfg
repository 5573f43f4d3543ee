\* Two functions visited and two uses, at positions 0 to 2; then three
\* decorations of three kinds, at positions 0 to 5.
CONSTANTS
  Fns = {1, 2}
  Ids = {1, 2}
  Resume <- MCResume
  MaxItems = 2
  MaxUses = 2
  MaxEnd = 2
  MaxLoc = 5
  MaxPushes = 3
  Kinds = {"lifetime", "move", "call"}
SPECIFICATION DecosFairSpec
INVARIANTS RightLocal InnermostCalls OneShown TopmostShown NothingLost
PROPERTY Returns
CHECK_DEADLOCK FALSE
