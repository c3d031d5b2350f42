------------------------------ MODULE PlanFile ------------------------------
(***************************************************************************)
(* A plan of several tasks and the one coordinator that works through it:  *)
(* the shared plan.json, the status files, read-plan-status.py's ready     *)
(* wave and in-flight count, watch-plan-status.py's events.                *)
(*                                                                         *)
(* plan.json is read and rewritten whole, with no lock, by each            *)
(* dispatch-task.py write and each wrap-up-task.py, so a command that is   *)
(* under way holds a copy of it.  Overlap says whether the coordinator     *)
(* runs commands on the plan side by side.  One task's own dispatch is     *)
(* TaskLifecycle's; here its worker only reports.                          *)
(***************************************************************************)
EXTENDS Naturals, FiniteSets

CONSTANTS
  Tasks,
  DependsOn,    \* each task's depends_on
  Cap,          \* how many tasks may be in flight (boss-say's cap)
  Procs,        \* processes the coordinator runs commands in
  Overlap,      \* whether two of them run at once
  MaxReports,   \* bound: the reports each task's worker makes
  NoTask        \* no command's task

\* cancelled acts like failed here, and the three awaiting-* statuses act alike.
Terminal == {"done", "failed"}
Reported == Terminal \cup {"checkpoint"}

ASSUME PlanAssumption ==
  /\ IsFiniteSet(Tasks)
  /\ DependsOn \in [Tasks -> SUBSET Tasks]
  /\ Cap \in Nat \ {0}
  /\ Overlap \in BOOLEAN
  /\ MaxReports \in [Tasks -> Nat \ {0}]
  /\ NoTask \notin Tasks

VARIABLES
  plan,      \* plan.json: each task's tracked status
  file,      \* the status files: what is reported, and which revision it is
  proc,      \* each process's command, its task, and the plan it has loaded
  pend,      \* tasks with a pending instruction whose write has succeeded
  runs,      \* how often a worker was launched for each task
  wrapped,   \* tasks whose instruction is archived
  wave,      \* the ready tasks the scheduler has chosen to dispatch
  news,      \* the scheduler has an event it has not acted on
  seen,      \* the watcher's seen_revisions: what it has emitted
  outcomes   \* history: the terminal statuses each task has had on file

vars == <<plan, file, proc, pend, runs, wrapped, wave, news, seen, outcomes>>

Plans  == [Tasks -> {"planned", "dispatched"} \cup Terminal]
NoFile == [st |-> "none", rev |-> 0]
Files  == [st : Reported \cup {"none", "torn"}, rev : Nat]

Commands == {"marking", "marked", "unlinked", "syncing", "down"}
NoPlan   == [t \in Tasks |-> "planned"]
IdleProc == [op |-> "idle", task |-> NoTask, copy |-> NoPlan, val |-> "none"]

Init ==
  /\ plan = NoPlan
  /\ file = [t \in Tasks |-> NoFile]
  /\ proc = [p \in Procs |-> IdleProc]
  /\ pend = {}
  /\ runs = [t \in Tasks |-> 0]
  /\ wrapped = {}
  /\ wave = {}
  /\ news = TRUE
  /\ seen = [t \in Tasks |-> 0]
  /\ outcomes = [t \in Tasks |-> {}]

(***************************************************************************)
(* read-plan-status.py                                                     *)
(***************************************************************************)
\* The status file, where there is one, is authoritative.
Effective(t) == IF file[t].st = "none" THEN plan[t] ELSE file[t].st

\* Mutant: a prerequisite that has merely ended unblocks its dependants.
ReadyWhenEnded ==
  {t \in Tasks : Effective(t) = "planned" /\ \A d \in DependsOn[t] : Effective(d) \in Terminal}

Ready == {t \in Tasks : Effective(t) = "planned" /\ \A d \in DependsOn[t] : Effective(d) = "done"}

\* Mutant: a task at a checkpoint is taken to have left its slot.
WorkingOnly == {t \in Tasks : plan[t] = "dispatched" /\ Effective(t) = "dispatched"}

\* A task at a checkpoint still holds its slot.
InFlight == {t \in Tasks : plan[t] = "dispatched" /\ Effective(t) \notin Terminal}

(***************************************************************************)
(* The scheduler (boss-say) and the commands it runs                       *)
(***************************************************************************)
Idle(p) == proc[p].op = "idle"

MayStart(p) == Idle(p) /\ (Overlap \/ \A q \in Procs : Idle(q))

\* On an event: read --in-flight and --ready, choose at most cap - in-flight
\* of the ready tasks.  A status file caught half-written fails the read.
Schedule ==
  /\ news
  /\ \A p \in Procs : Idle(p)
  /\ \A t \in Tasks : file[t].st # "torn"
  /\ \E W \in SUBSET Ready :
       /\ Cardinality(W) + Cardinality(InFlight) <= Cap \/ W = {}
       /\ \A t \in Ready \ W : Cardinality(W) + Cardinality(InFlight) >= Cap
       /\ wave' = W
  /\ news' = FALSE
  /\ UNCHANGED <<plan, file, proc, pend, runs, wrapped, seen, outcomes>>

\* Mutant: a task that is dispatched already may be dispatched again.
AnyDispatchable(t) == TRUE

\* check_dispatchable.
Dispatchable(t) == plan[t] = "planned"

\* dispatch-task.py write: check, then the instruction file, then
\* mark_plan_task, which loads plan.json again and writes it back.  Where an
\* earlier attempt left its instruction, this one takes another slug.
WriteInstruction(p, t) ==
  /\ MayStart(p)
  /\ \A q \in Procs : proc[q].task # t
  /\ t \in wave
  /\ Dispatchable(t)
  /\ proc' = [proc EXCEPT ![p] = [IdleProc EXCEPT !.op = "marking", !.task = t]]
  /\ UNCHANGED <<plan, file, pend, runs, wrapped, wave, news, seen, outcomes>>

MarkLoad(p) ==
  /\ proc[p].op = "marking"
  /\ proc' = [proc EXCEPT ![p].op = "marked", ![p].copy = plan]
  /\ UNCHANGED <<plan, file, pend, runs, wrapped, wave, news, seen, outcomes>>

MarkDump(p) ==
  /\ proc[p].op = "marked"
  /\ plan' = [proc[p].copy EXCEPT ![proc[p].task] = "dispatched"]
  /\ pend' = pend \cup {proc[p].task}
  /\ proc' = [proc EXCEPT ![p] = IdleProc]
  /\ UNCHANGED <<file, runs, wrapped, wave, news, seen, outcomes>>

\* launch-dispatched-agent.py, for an instruction whose write reported success.
Launch(t) ==
  /\ t \in pend
  /\ pend' = pend \ {t}
  /\ runs' = [runs EXCEPT ![t] = @ + 1]
  /\ UNCHANGED <<plan, file, proc, wrapped, wave, news, seen, outcomes>>

\* wrap-up-task.py: status read, instruction archived and removed, then
\* plan.json loaded and written back with that status.
WrapUp(p, t) ==
  /\ MayStart(p)
  /\ runs[t] > 0
  /\ t \notin wrapped
  /\ file[t].st \in Terminal
  /\ wrapped' = wrapped \cup {t}
  /\ proc' = [proc EXCEPT ![p] = [IdleProc EXCEPT !.op = "unlinked", !.task = t,
                                                  !.val = file[t].st]]
  /\ UNCHANGED <<plan, file, pend, runs, wave, news, seen, outcomes>>

SyncLoad(p) ==
  /\ proc[p].op = "unlinked"
  /\ proc' = [proc EXCEPT ![p].op = "syncing", ![p].copy = plan]
  /\ UNCHANGED <<plan, file, pend, runs, wrapped, wave, news, seen, outcomes>>

SyncDump(p) ==
  /\ proc[p].op = "syncing"
  /\ plan' = [proc[p].copy EXCEPT ![proc[p].task] = proc[p].val]
  /\ proc' = [proc EXCEPT ![p] = IdleProc]
  /\ UNCHANGED <<file, pend, runs, wrapped, wave, news, seen, outcomes>>

\* A command dies half-way, and the session that ran it.
Crash(p) ==
  /\ proc[p].op \notin {"idle", "down"}
  /\ proc' = [proc EXCEPT ![p] = [IdleProc EXCEPT !.op = "down"]]
  /\ UNCHANGED <<plan, file, pend, runs, wrapped, wave, news, seen, outcomes>>

\* Mutant: the plan is read again only when a status is emitted.
ResumeOnEvent(p) ==
  /\ proc[p].op = "down"
  /\ proc' = [proc EXCEPT ![p] = IdleProc]
  /\ wave' = {}
  /\ seen' = [t \in Tasks |-> 0]
  /\ UNCHANGED <<plan, file, pend, runs, wrapped, news, outcomes>>

\* The coordinator that resumes reads the plan and starts a fresh watcher,
\* which emits every current status once.
Resume(p) ==
  /\ proc[p].op = "down"
  /\ proc' = [proc EXCEPT ![p] = IdleProc]
  /\ wave' = {}
  /\ news' = TRUE
  /\ seen' = [t \in Tasks |-> 0]
  /\ UNCHANGED <<plan, file, pend, runs, wrapped, outcomes>>

(***************************************************************************)
(* Workers and the watcher                                                 *)
(***************************************************************************)
\* report-task-status.py truncates the file and then writes it.  It does not
\* look at what is there: a task that has ended may be continued and report a
\* checkpoint or another outcome, before its wrap-up or after it.
ReportOpen(t) ==
  /\ runs[t] > 0
  /\ file[t].st # "torn"
  /\ file[t].rev < MaxReports[t]
  /\ file' = [file EXCEPT ![t].st = "torn"]
  /\ UNCHANGED <<plan, proc, pend, runs, wrapped, wave, news, seen, outcomes>>

ReportWrite(t, s) ==
  /\ file[t].st = "torn"
  /\ s = "checkpoint" => file[t].rev + 1 < MaxReports[t]
  /\ file' = [file EXCEPT ![t] = [st |-> s, rev |-> @.rev + 1]]
  /\ outcomes' = [outcomes EXCEPT ![t] = @ \cup ({s} \cap Terminal)]
  /\ UNCHANGED <<plan, proc, pend, runs, wrapped, wave, news, seen>>

\* Mutant: a file that has been emitted once is not emitted again.
SeenByName(t) == seen[t] > 0

\* The watcher goes by the whole content of a file, timestamp included.
Seen(t) == seen[t] = file[t].rev

\* watch-plan-status.py scans one file; what does not parse it tries again.
Scan(t) ==
  /\ file[t].st \in Reported
  /\ ~Seen(t)
  /\ seen' = [seen EXCEPT ![t] = file[t].rev]
  /\ news' = TRUE
  /\ UNCHANGED <<plan, file, proc, pend, runs, wrapped, wave, outcomes>>

Proceed(p) == MarkLoad(p) \/ MarkDump(p) \/ SyncLoad(p) \/ SyncDump(p) \/ Resume(p)

Dispatch == \E p \in Procs, t \in Tasks : WriteInstruction(p, t)

Next ==
  \/ Schedule \/ Dispatch
  \/ \E p \in Procs, t \in Tasks : WrapUp(p, t)
  \/ \E p \in Procs : Proceed(p) \/ Crash(p)
  \/ \E t \in Tasks : Launch(t) \/ ReportOpen(t) \/ Scan(t)
  \/ \E t \in Tasks, s \in Reported : ReportWrite(t, s)

Spec == Init /\ [][Next]_vars

\* Commands run to their end, the scheduler acts on its events and dispatches
\* what it chose, the watcher keeps scanning, workers go on to an outcome; nobody
\* has to continue a task that has one.
Fairness ==
  /\ SF_vars(Schedule) /\ SF_vars(Dispatch)
  /\ \A p \in Procs : WF_vars(Proceed(p))
  /\ \A t \in Tasks :
       /\ WF_vars(Launch(t)) /\ WF_vars(Scan(t))
       /\ WF_vars(file[t].st \notin Terminal /\ ReportOpen(t))
       /\ WF_vars(\E s \in Reported : ReportWrite(t, s))

FairSpec == Spec /\ Fairness

(***************************************************************************)
(* Properties                                                              *)
(***************************************************************************)
ProcState ==
  [op : Commands \cup {"idle"}, task : Tasks \cup {NoTask}, copy : Plans,
   val : Terminal \cup {"none"}]

\* Every variable keeps its type.
TypeOK ==
  /\ plan \in Plans
  /\ file \in [Tasks -> Files]
  /\ proc \in [Procs -> ProcState]
  /\ pend \subseteq Tasks
  /\ runs \in [Tasks -> Nat]
  /\ wrapped \subseteq Tasks
  /\ wave \subseteq Tasks
  /\ news \in BOOLEAN
  /\ seen \in [Tasks -> Nat]
  /\ outcomes \in [Tasks -> SUBSET Terminal]

\* A task that plan.json has once called dispatched never reads planned again:
\* no command's write undoes another's.
MarkStands == [][\A t \in Tasks : plan[t] # "planned" => plan'[t] # "planned"]_vars

\* No task is given to two workers (check_dispatchable's "refusing to
\* dispatch it again"), however commands are retried and die half-way.
OneRunPerTask == \A t \in Tasks : runs[t] <= 1

\* No task starts before every task it depends on has been reported done.  (A
\* prerequisite that is continued later takes its outcome back, not its dependants.)
PrerequisitesDone ==
  \A t \in Tasks : runs[t] > 0 => \A d \in DependsOn[t] : "done" \in outcomes[d]

\* The tasks launched and still at their first outcome never exceed the cap: only by
\* continuing tasks that have ended can the coordinator have more than that at work.
Unfinished == {t \in Tasks : runs[t] > 0 /\ outcomes[t] = {}}
CapRespected == Cardinality(Unfinished) <= Cap

\* A task holds a slot from its choice until its outcome is on file, and again when
\* it is continued.
Chosen == {t \in wave : plan[t] = "planned"}
AtWork == {t \in Tasks : plan[t] = "dispatched" /\ file[t].st \notin Terminal}
Slots  == Chosen \cup AtWork

\* Nothing is left that would wake the scheduler: no event, no status unseen or being
\* written, no session that is about to resume.
Settled ==
  /\ ~news
  /\ \A t \in Tasks : file[t].st # "torn" /\ (file[t].st \in Reported => Seen(t))
  /\ \A p \in Procs : proc[p].op # "down"

\* No wake-up is lost: a scheduler that nothing will wake has chosen every ready task, or
\* has no slot to give it.
NothingForgotten == Settled => \A t \in Ready \ wave : Cardinality(Slots) >= Cap

\* Every revision of a status that stays on file reaches the coordinator,
\* although the watcher may be restarted and may see files half-written.
EveryStatusIsTold ==
  \A t \in Tasks : \A r \in 1..MaxReports[t] :
    (file[t].rev = r /\ file[t].st \in Reported) ~> (seen[t] = r \/ file[t].st = "torn")

\* No task stays ready for good, unless commands keep dying: no event, slot or choice
\* is lost on the way to its dispatch.
CrashesStop == <>[](\A p \in Procs : proc[p].op # "down")
ReadyIsDispatched ==
  CrashesStop => \A t \in Tasks : []<>(t \notin Ready)

\* What plan.json shows of one task: the outcome its wrap-up has read is due until a
\* process that has it in hand has synced it.
HasInHand(p, t) == proc[p].op \in {"unlinked", "syncing"} /\ proc[p].task = t
Due(t) ==
  IF t \notin wrapped THEN "none"
  ELSE IF \E p \in Procs : HasInHand(p, t)
       THEN proc[CHOOSE p \in Procs : HasInHand(p, t)].val ELSE "over"

Kept(t) == INSTANCE PlanTask
             WITH Outcomes <- Terminal, entry <- plan[t], runs <- runs[t], due <- Due(t)

\* The commands on the shared plan.json keep for each task what it promises about one:
\* marked once, before its one launch, and settled once with the wrap-up's outcome,
\* whatever they do to the others.
ImplementsTasks ==
  /\ \A t \in Tasks : Kept(t)!TaskInit
  /\ [][\A t \in Tasks : Kept(t)!TaskNext \/ UNCHANGED <<plan[t], runs[t], Due(t)>>]_vars
=============================================================================
