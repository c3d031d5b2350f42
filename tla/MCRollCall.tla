----------------------------- MODULE MCRollCall -----------------------------
(* RollCall for TLC, over the troubles of MCTaskLifecycle and a coordinator   *)
(* that may wrap up before it closes the pane.                                *)
EXTENDS RollCall

Both == {"claude", "codex"}
Usual == {"vanish", "torn", "unconfirmed", "strayCancel"} \cup (Points \ {"cancelling"})
=============================================================================
