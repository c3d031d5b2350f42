SPECIFICATION Spec
CONSTANTS
  MaxSession = 3
  Paths = {d1, d2}
  Questions = {}
  Peer = peer
  None = none
  Elsewhere = elsewhere
  HookDeaths = {"check"}
  Validations = {TRUE}
  Overlap = FALSE
  Swift = TRUE
  Reliable = TRUE
  Apart = TRUE
  SendsPromptly = TRUE
CHECK_DEADLOCK FALSE
INVARIANT RoutesFollow
