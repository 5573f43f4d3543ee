\* One loop that assigns and moves a local.
CONSTANTS
  Locals = {"x"}
  Cfgs <- Loop
  Meaning <- LeastSolution
  VisitCap = 10
  IterFactor = 10
SPECIFICATION Spec
INVARIANTS CutoffsUnused
CHECK_DEADLOCK FALSE
