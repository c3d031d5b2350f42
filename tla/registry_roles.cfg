SPECIFICATION FairSpec
CONSTANTS
  A = A
  B = B
  p1 = p1
  p2 = p2
  p3 = p3
  k1 = k1
  k2 = k2
  k3 = k3
  Agents <- TwoAgents
  Keys <- ThreeKeys
  First <- AtFirst
  Exposing = {A}
  Stays = {B}
  Procs <- ThreeProcs
  On <- Whose
  Runs <- Does
  RoleNames = {assistant}
  NoRole = none
  CrashPoints <- SafePoints
  Prompt = TRUE
  BreakAlone = TRUE
  RekeyApart = TRUE
INVARIANTS RoleExclusive ClaimLands
PROPERTIES ImplementsRoles DeadMutexIsBroken
