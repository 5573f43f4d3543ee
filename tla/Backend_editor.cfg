\* Two handlers in flight: initialize, then two messages of an editing session;
\* or one check by the command line.
CONSTANTS
  NumRequests = 3
  Targets = {ws1}
  Fns = {f}
  Kinds <- EditorKinds
  MaxInFlight = 2
  MaxVersion = 2
SPECIFICATION Spec
INVARIANTS AnalysisWatched TasksWatched ShutdownCovers ProgressClosed CheckAnswersAtEnd OneAnalysisPerTarget
PROPERTIES StatusBoardSpec CursorHonest RemovesOwnToken
CHECK_DEADLOCK FALSE
