\* Two processes for one crate name, or one after the other.
CONSTANTS
  Procs = {p1, p2}
  Fns = {f, g}
  Ids = {1, 2}
  Panics = {}
  MaxStarts = 3
  MayKill = TRUE
SPECIFICATION Spec
INVARIANTS NoneMeansDisabled
CHECK_DEADLOCK FALSE
