----------------------------- MODULE MCPlanFile -----------------------------
(***************************************************************************)
(* Instances of PlanFile for TLC: task "b" waits for "a", "c" for nobody.  *)
(***************************************************************************)
EXTENDS PlanFile

MCTasks == {"a", "b", "c"}
MCDependsOn == [a |-> {}, b |-> {"a"}, c |-> {}]
\* The worker of the prerequisite asks before it ends, or is continued after it was
\* done.
MCReports == [a |-> 2, b |-> 1, c |-> 1]

\* Two independent tasks.
TwoTasks == {"a", "c"}
NoDeps == [t \in TwoTasks |-> {}]
OneReport == [t \in TwoTasks |-> 1]
=============================================================================
