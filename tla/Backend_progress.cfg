\* One target: a task is aborted while its Begin, or its End, is being sent.
CONSTANTS
  NumRequests = 3
  Targets = {ws1}
  Fns = {f}
  Kinds <- EditKinds
  MaxInFlight = 1
  MaxVersion = 1
SPECIFICATION Spec
INVARIANTS ProgressAlwaysEnds
CHECK_DEADLOCK FALSE
