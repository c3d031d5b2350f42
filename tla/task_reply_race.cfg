SPECIFICATION FairSpec
CHECK_DEADLOCK FALSE
CONSTANTS
  Troubles <- Usual
  Quiet <- QuickWorker
  CloseFirst = TRUE
  ClearOthers = TRUE
PROPERTIES
  FinalWordStands
