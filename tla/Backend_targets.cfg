\* Two targets, one handler at a time: a run starts its second task while the
\* waiting task of the run before it may hold the lock of the JoinSet.
CONSTANTS
  NumRequests = 2
  Targets = {ws1, ws2}
  Fns = {}
  Kinds <- StopKinds
  MaxInFlight = 1
  MaxVersion = 1
SPECIFICATION FairSpec
PROPERTIES RequestsComplete StatusSettles RemovesOwnToken
INVARIANTS OneAnalysisPerTarget
CHECK_DEADLOCK FALSE
