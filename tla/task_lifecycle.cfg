SPECIFICATION FairSpec
CHECK_DEADLOCK FALSE
CONSTANTS
  Troubles <- Usual
  Quiet <- Attentive
  CloseFirst = TRUE
  ClearOthers = TRUE
INVARIANTS
  PlanAgrees
PROPERTIES
  StoppedIsExplained
  FinalWordStands
  ClosedStaysClosed
  DeadWorkerIsSettled
