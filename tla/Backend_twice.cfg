\* Two handlers in flight pass their stops before either starts its task.
CONSTANTS
  NumRequests = 3
  Targets = {ws1}
  Fns = {f}
  Kinds <- EditKinds
  MaxInFlight = 2
  MaxVersion = 1
SPECIFICATION Spec
INVARIANTS NeverTwoAnalyses
CHECK_DEADLOCK FALSE
