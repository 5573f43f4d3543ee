\* One match of eleven arms: they meet in a block, and what the last one brings is dropped there.
CONSTANTS
  Locals = {"x", "y"}
  Cfgs <- ElevenArms
  Meaning <- LeastSolution
  VisitCap = 10
  IterFactor = 10
SPECIFICATION Spec
INVARIANTS DefinitelyLiveSound
CHECK_DEADLOCK FALSE
