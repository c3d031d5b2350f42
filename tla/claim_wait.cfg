SPECIFICATION Spec
CONSTANTS
  Agents = {me, p, q}
  Me = me
  NoAgent = none
  TTLs = {1, 2, 6}
  MyTTL = 1
  NoLimit = unlimited
  MaxWait = unlimited
  ShortestNap = 3
  LongestNap = 5
  OutsideTTL = 4
  Outside = TRUE
  Listens = FALSE
  MaxLost = 2
  MaxLeases = 8
CHECK_DEADLOCK FALSE
INVARIANTS OnTime GivesUpUnderChurn
