SPECIFICATION FairSpec
CONSTANTS
  d1 = d1
  d2 = d2
  c1 = c1
  S = S
  R = R
  T = T
  N = N
  Dispatches <- Two
  Coworkers <- One
  Parent <- Under
  Panes <- FourPanes
  Takers <- Other
  Restless <- Ends
  Source <- S
  Receiver <- R
  Opened <- TwoOpen
  Started = 2
  MaxEvents = 2
  Begun <- Starts
  Overlaps = FALSE
  Kills = FALSE
INVARIANTS AcceptedMeansMoved HandedOverWhole CoworkersFollow
PROPERTIES NothingUndone TakenStaysTaken TakeoverRecovers
CHECK_DEADLOCK FALSE
