SPECIFICATION FairSpec
CONSTANTS
  Kinds <- Both
  MaxAttempts = 3
  MaxPrompts = 2
  MaxFaults = 4
  CrashPoints <- Harmless
  Scrolls = FALSE
INVARIANTS ToldOnce OneWorker RefusalsAreDeaths BoundToItsWorker NoStrayPane
PROPERTIES HeldPaneStands GetsItsWorker
CHECK_DEADLOCK FALSE
