----------------------------- MODULE MCMessages -----------------------------
(* Renewal and Messages for TLC: one pane, one or two dispatches.  *)
EXTENDS Messages, TLC
=============================================================================
