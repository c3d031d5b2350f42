SPECIFICATION RollSpec
CONSTANTS
  Kinds <- Both
  Troubles <- Usual
  Quiet = {}
  CloseFirst = FALSE
  ClearOthers = FALSE
INVARIANTS AbsentMeansGone WorkerIsNamed
