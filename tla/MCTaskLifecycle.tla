-------------------------- MODULE MCTaskLifecycle --------------------------
(***************************************************************************)
(* Instances of TaskLifecycle for TLC.                                     *)
(***************************************************************************)
EXTENDS TaskLifecycle

\* Panes go away at any time but not inside a report's write, and the
\* coordinator dies anywhere but inside its own report's write.
Usual == {"vanish", "unconfirmed"} \cup (Points \ {"cancelling"})

\* Panes go away, also between a report's truncation and its write.
TornReports == {"vanish", "torn"}

\* The worker reports and stops at any moment but these: while a reply is sent
\* and recorded, a recovery is recorded, or a status is cleared.
Attentive == {"sending", "resolving", "recording", "clearing"}

\* As Attentive, but the worker reacts to a reply while it is being recorded.
QuickWorker == Attentive \ {"sending", "resolving"}
=============================================================================
