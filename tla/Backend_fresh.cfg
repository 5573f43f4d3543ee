\* One handler at a time, an edit, two versions of the sources on disk.
CONSTANTS
  NumRequests = 3
  Targets = {ws1}
  Fns = {f}
  Kinds <- EditKinds
  MaxInFlight = 1
  MaxVersion = 2
SPECIFICATION Spec
INVARIANTS FreshAfterSave
CHECK_DEADLOCK FALSE
