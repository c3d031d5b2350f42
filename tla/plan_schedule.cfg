SPECIFICATION FairSpec
CHECK_DEADLOCK FALSE
CONSTANTS
  Tasks <- MCTasks
  DependsOn <- MCDependsOn
  Cap = 1
  Procs = {p1}
  Overlap = FALSE
  MaxReports <- MCReports
  NoTask = NoTask
INVARIANTS
  PrerequisitesDone
  CapRespected
PROPERTIES
  ImplementsTasks
  EveryStatusIsTold
  ReadyIsDispatched
