\* Three ranges in the two lists, positions 0 to 5.
SPECIFICATION FairSpec
CONSTANTS
  MaxLoc = 5
  MaxRanges = 3
INVARIANTS CoversExactly ExcludesExactly FlatResult
PROPERTY Returns
CHECK_DEADLOCK FALSE
