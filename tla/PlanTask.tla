------------------------------- MODULE PlanTask -------------------------------
(***************************************************************************)
(* What plan.json promises about one task.  It is marked dispatched before *)
(* its worker is there, and once.  One worker gets it, while it is open.   *)
(* A wrap-up closes it with an outcome, which is what the entry shows from *)
(* the sync on; a wrap-up that dies before its sync leaves the entry as it *)
(* was, for good.  Nothing else touches the entry.                         *)
(***************************************************************************)
EXTENDS Naturals

CONSTANT Outcomes

VARIABLES
  entry,   \* the task's status in plan.json
  runs,    \* how often a worker was given the task
  due      \* the outcome its wrap-up still has to sync

vars == <<entry, runs, due>>

Open == due = "none"

TaskInit == entry = "planned" /\ runs = 0 /\ due = "none"

Mark ==
  /\ Open
  /\ entry = "planned" /\ runs = 0
  /\ entry' = "dispatched"
  /\ UNCHANGED <<runs, due>>

Give ==
  /\ Open
  /\ entry = "dispatched" /\ runs = 0
  /\ runs' = 1
  /\ UNCHANGED <<entry, due>>

WrapUp(v) ==
  /\ Open
  /\ due' = v
  /\ UNCHANGED <<entry, runs>>

Sync ==
  /\ due \in Outcomes
  /\ entry' = due
  /\ due' = "over"
  /\ UNCHANGED runs

LoseSync ==
  /\ due \in Outcomes
  /\ due' = "over"
  /\ UNCHANGED <<entry, runs>>

TaskNext == Mark \/ Give \/ Sync \/ LoseSync \/ \E v \in Outcomes : WrapUp(v)

TaskSpec == TaskInit /\ [][TaskNext]_vars
===============================================================================
