\* One process, one analysis may panic.
CONSTANTS
  Procs = {p1}
  Fns = {f, g}
  Ids = {1, 2}
  Panics = {g}
  MaxStarts = 1
  MayKill = FALSE
SPECIFICATION Spec
INVARIANTS AllTasksJoined
CHECK_DEADLOCK FALSE
