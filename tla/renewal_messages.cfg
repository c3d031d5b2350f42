SPECIFICATION FairSpec
CONSTANTS
  MaxSession = 3
  Paths = {d1}
  Questions = {q}
  Peer = peer
  None = none
  Elsewhere = elsewhere
  HookDeaths = {"drop"}
  Validations = {TRUE}
  Overlap = FALSE
  Swift = TRUE
  Reliable = TRUE
  Apart = TRUE
  SendsPromptly = TRUE
CHECK_DEADLOCK FALSE
INVARIANTS RoutesFollow Answerable
PROPERTIES StaysElsewhere ClearIsClaimed RequestIsDelivered
