\* All graphs of three blocks in a family: joins, loops, empty blocks, early exits.
CONSTANTS
  Locals = {"x"}
  Cfgs <- ThreeBlocks
  Meaning <- LeastSolution
  VisitCap = 10
  IterFactor = 10
SPECIFICATION Spec
INVARIANTS NothingInvented CompleteIfUncut SoundIfUncut
CHECK_DEADLOCK FALSE
