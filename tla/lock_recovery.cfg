SPECIFICATION FairSpec
CONSTANTS
  Agents = {a1, a2}
  NoAgent = none
  TTLs = {1}
  MutexStale = 1
  Sweepers = {a1}
  Forcers = {a2}
  CrashPoints <- CrashNotInWrite
  TimelyRelease = FALSE
  Prompt = FALSE
PROPERTY AbandonedLockIsRecovered
