SPECIFICATION Spec
CONSTANTS
  Agents = {a1, a2, a3}
  NoAgent = none
  TTLs = {2}
  MutexStale = 1
  Sweepers = {}
  Forcers = {}
  CrashPoints <- CrashOutsideMutex
  TimelyRelease = TRUE
  Prompt = TRUE
SYMMETRY Symmetry
INVARIANTS
  MutualExclusion
  HolderOnRecord
PROPERTY ImplementsLease
