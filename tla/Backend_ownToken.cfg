\* Three messages, two in flight, two targets: a key of process_tokens is given to a second task.
CONSTANTS
  NumRequests = 3
  Targets = {ws1, ws2}
  Fns = {f}
  Kinds <- EditKinds
  MaxInFlight = 2
  MaxVersion = 1
SPECIFICATION Spec
PROPERTIES OnlyOwnToken
CHECK_DEADLOCK FALSE
