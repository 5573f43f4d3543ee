\* Two handlers in flight; cargo and the client may never answer; a run is
\* stopped by the next messages.  No items: only tasks, tokens and locks matter.
CONSTANTS
  NumRequests = 3
  Targets = {ws1}
  Fns = {}
  Kinds <- StopKinds
  MaxInFlight = 2
  MaxVersion = 1
SPECIFICATION FairSpec
PROPERTIES RequestsComplete StatusSettles
CHECK_DEADLOCK FALSE
