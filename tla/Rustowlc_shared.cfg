\* Two processes share the cache file; one analysis may panic; kills.
CONSTANTS
  Procs = {p1, p2}
  Fns = {f, g}
  Ids = {1, 2}
  Panics = {g}
  MaxStarts = 3
  MayKill = TRUE
SPECIFICATION Spec
INVARIANTS EveryFunctionPrinted NotAnalyzedTwice
CHECK_DEADLOCK FALSE
