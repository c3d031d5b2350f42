---------------------------- MODULE TaskLifecycle ----------------------------
(***************************************************************************)
(* One dispatched plan task, from dispatch-task.py write to                *)
(* wrap-up-task.py: its instruction file, its status file, its entry in    *)
(* plan.json and its worker's Herdr pane.                                  *)
(*                                                                         *)
(* Two parties act on them.  The coordinator (the main agent) runs one     *)
(* command at a time; a command is a sequence of reads and writes of the   *)
(* files with other things happening in between, and `at` says how far the *)
(* running one has come.  The worker reports through report-task-status.py *)
(* on its own clock, notes progress, and ends its turn when the stop guard *)
(* lets it.  Panes close under both, and Herdr hands closed pane ids out   *)
(* again.                                                                  *)
(***************************************************************************)
EXTENDS Naturals

CONSTANTS
  Troubles,    \* what may go wrong in this environment
  Quiet,       \* points of a coordinator command the worker does not run into
  CloseFirst,  \* the coordinator closes the pane before it wraps up (SKILL.md)
  ClearOthers  \* it clears no status of the worker's own (clear-task-status.py:12-18)

Terminal == {"done", "failed", "cancelled"}
MainCheckpoint == "awaiting-main-agent"
UserCheckpoint == "awaiting-user-input"   \* awaiting-authorization behaves the same
Statuses == Terminal \cup {MainCheckpoint, UserCheckpoint}
WorkerStatuses == Statuses \ {"cancelled"}

Points == {"marking", "launched", "confirming", "sending", "resolving",
           "cancelling", "probed", "judging", "recording", "clearing",
           "closing", "closed", "archiving", "unlinking", "syncing"}

ASSUME LifecycleAssumption ==
  /\ Troubles \subseteq {"vanish", "torn", "unconfirmed", "earlyStop", "renewing",
                     "strayCancel"} \cup Points
  /\ Quiet \subseteq Points
  /\ CloseFirst \in BOOLEAN
  /\ ClearOthers \in BOOLEAN

VARIABLES
  inst,      \* the live instruction file: its status and herdr_pane_closed_at
  receipt,   \* the launch receipt beside it exists
  archive,   \* the archived copy: none, or whether it names a pane left to close
  stat,      \* the task's status file
  plan,      \* the task's status in plan.json
  pane,      \* who is in the pane recorded for the worker
  worker,    \* the worker's session: none, in a turn, or stopped
  rpt,       \* the report the worker is in the middle of writing
  wait,      \* the last --waiting-on note: none, newer than the status, or used
  at,        \* how far the coordinator's running command has come
  copy       \* the status payload that command holds in memory

vars == <<inst, receipt, archive, stat, plan, pane, worker, rpt, wait, at, copy>>

Blank         == [on |-> "none", val |-> "none", by |-> "none", resolved |-> FALSE]
Torn          == [Blank EXCEPT !.on = "torn"]
Report(v, by) == [on |-> "report", val |-> v, by |-> by, resolved |-> FALSE]
Payload       == [on : {"none", "torn", "report"}, val : Statuses \cup {"none"},
                  by : {"none", "worker", "main"}, resolved : BOOLEAN]

NoRpt  == [at |-> "none", val |-> "none"]
Rpt    == [at : {"none", "checked", "opened"}, val : Statuses \cup {"none"}]

IsTerminal(s) == s.on = "report" /\ s.val \in Terminal

Init ==
  /\ inst = [st |-> "none", closed |-> FALSE]
  /\ receipt = FALSE
  /\ archive = "none"
  /\ stat = Blank
  /\ plan = "planned"
  /\ pane = "none"
  /\ worker = "none"
  /\ rpt = NoRpt
  /\ wait = "none"
  /\ at = "idle"
  /\ copy = Blank

(***************************************************************************)
(* The coordinator's commands                                              *)
(***************************************************************************)
\* The command ends; what it held in memory is gone with it.
Done == at' = "idle" /\ copy' = Blank

\* Any write of the status file is newer than a wait noted before it.
Outdated == wait' = IF wait = "fresh" THEN "none" ELSE wait

\* Replacing or removing the status file takes with it a report that is being
\* written to the old one.
Unseat == rpt' = IF rpt.at = "opened" THEN NoRpt ELSE rpt

\* dispatch-task.py write: checks, then the instruction, then plan.json.
WriteInstruction ==
  /\ at = "idle"
  /\ inst.st = "none"
  /\ plan = "planned"
  /\ inst' = [inst EXCEPT !.st = "pending"]
  /\ at' = "marking"
  /\ UNCHANGED <<receipt, archive, stat, plan, pane, worker, rpt, wait, copy>>

MarkPlanTask ==
  /\ at = "marking"
  /\ plan' = "dispatched"
  /\ Done
  /\ UNCHANGED <<inst, receipt, archive, stat, pane, worker, rpt, wait>>

\* launch-dispatched-agent.py, successful up to the delivered task.  How it
\* gets there, and a second launch, are the launcher's own story.
Launch ==
  /\ at = "idle"
  /\ inst.st = "pending"
  /\ pane = "none"
  /\ pane' = "own"
  /\ worker' = "working"
  /\ at' = "launched"
  /\ UNCHANGED <<inst, receipt, archive, stat, plan, rpt, wait, copy>>

WriteReceipt ==
  /\ at = "launched"
  /\ \/ receipt' = TRUE /\ at' = "confirming" /\ UNCHANGED copy
     \/ "unconfirmed" \in Troubles /\ Done /\ UNCHANGED receipt
  /\ UNCHANGED <<inst, archive, stat, plan, pane, worker, rpt, wait>>

\* confirm_dispatch, run by the launcher or later by dispatch-task.py confirm.
ConfirmDispatch ==
  /\ at \in {"confirming", "idle"}
  /\ receipt
  /\ inst.st = "pending"
  /\ inst' = [inst EXCEPT !.st = "in-progress"]
  /\ Done
  /\ UNCHANGED <<receipt, archive, stat, plan, pane, worker, rpt, wait>>

\* The launcher only warns when the confirmation fails.
LeaveUnconfirmed ==
  /\ at = "confirming"
  /\ "unconfirmed" \in Troubles
  /\ Done
  /\ UNCHANGED <<inst, receipt, archive, stat, plan, pane, worker, rpt, wait>>

\* Mutant: the checkpoint is not required to be open.
ReplyToAny ==
  /\ at = "idle"
  /\ inst.st = "in-progress"
  /\ stat.on = "report"
  /\ copy' = stat
  /\ at' = "sending"
  /\ UNCHANGED <<inst, receipt, archive, stat, plan, pane, worker, rpt, wait>>

\* reply-to-worker.py: read the status, prompt the worker, write back the
\* status that was read with the resolution added to it.
ReplyLoad ==
  /\ at = "idle"
  /\ inst.st = "in-progress"
  /\ stat.on = "report"
  /\ stat.val = MainCheckpoint
  /\ copy' = stat
  /\ at' = "sending"
  /\ UNCHANGED <<inst, receipt, archive, stat, plan, pane, worker, rpt, wait>>

\* The prompt starts a turn whether or not its delivery gets confirmed.
ReplySend ==
  /\ at = "sending"
  /\ IF pane = "own" /\ stat.on # "torn"
     THEN /\ worker' = "working"
          /\ \/ at' = "resolving" /\ UNCHANGED copy
             \/ Done
     ELSE Done /\ UNCHANGED worker
  /\ UNCHANGED <<inst, receipt, archive, stat, plan, pane, rpt, wait>>

ReplyResolve ==
  /\ at = "resolving"
  /\ stat' = [copy EXCEPT !.resolved = TRUE]
  /\ Outdated
  /\ Unseat
  /\ Done
  /\ UNCHANGED <<inst, receipt, archive, plan, pane, worker>>

\* send-dispatch-message.py --intent redirect: the worker goes on, with the
\* same task or with its next phase; the status file keeps what it says.
Redirect ==
  /\ at = "idle"
  /\ inst.st = "in-progress"
  /\ pane = "own"
  /\ stat.on # "torn"
  /\ stat.val # UserCheckpoint
  /\ worker' = "working"
  /\ UNCHANGED <<inst, receipt, archive, stat, plan, pane, rpt, wait, at, copy>>

\* report-task-status.py --status cancelled, the coordinator's own report.  With
\* --plan and --task it needs no live instruction.
CancelOpen ==
  /\ at = "idle"
  /\ inst.st \in {"pending", "in-progress"} \/ "strayCancel" \in Troubles
  /\ stat' = Torn
  /\ Outdated
  /\ at' = "cancelling"
  /\ UNCHANGED <<inst, receipt, archive, plan, pane, worker, rpt, copy>>

CancelWrite ==
  /\ at = "cancelling"
  /\ stat' = Report("cancelled", "main")
  /\ Outdated
  /\ Done
  /\ UNCHANGED <<inst, receipt, archive, plan, pane, worker, rpt>>

\* worker_endpoint_confirmed_closed: the recorded pane is gone, or hosts somebody else.
ConfirmedClosed == pane # "own"

\* recover-task-status.py: the pane is closed, or --worker-cannot-report was
\* given and Herdr does not show the worker working.
RecoverProbe(v) ==
  /\ at = "idle"
  /\ inst.st = "in-progress"
  /\ \/ ConfirmedClosed /\ at' = IF inst.closed THEN "judging" ELSE "probed"
     \/ ~ConfirmedClosed /\ worker # "working" /\ at' = "judging"
  /\ copy' = Report(v, "main")
  /\ UNCHANGED <<inst, receipt, archive, stat, plan, pane, worker, rpt, wait>>

RecoverMark ==
  /\ at = "probed"
  /\ inst' = [inst EXCEPT !.closed = TRUE]
  /\ at' = "judging"
  /\ UNCHANGED <<receipt, archive, stat, plan, pane, worker, rpt, wait, copy>>

\* Mutant: any status on file, a checkpoint included, forbids recovery.
RecoverJudgeStrict ==
  /\ at = "judging"
  /\ IF stat.on # "none" THEN Done ELSE at' = "recording" /\ UNCHANGED copy
  /\ UNCHANGED <<inst, receipt, archive, stat, plan, pane, worker, rpt, wait>>

\* A terminal status on file is refused, and one that does not parse raises.
RecoverJudge ==
  /\ at = "judging"
  /\ IF stat.on = "torn" \/ IsTerminal(stat)
     THEN Done
     ELSE at' = "recording" /\ UNCHANGED copy
  /\ UNCHANGED <<inst, receipt, archive, stat, plan, pane, worker, rpt, wait>>

RecoverRecord ==
  /\ at = "recording"
  /\ stat' = copy
  /\ Outdated
  /\ Unseat
  /\ Done
  /\ UNCHANGED <<inst, receipt, archive, plan, pane, worker>>

\* Mutant: the plan task is not required to be dispatched.
ClearLoadSettled ==
  /\ at = "idle"
  /\ IsTerminal(stat)
  /\ ClearOthers => stat.by # "worker"
  /\ at' = "clearing"
  /\ UNCHANGED <<inst, receipt, archive, stat, plan, pane, worker, rpt, wait, copy>>

\* clear-task-status.py.  Whose the status is, it does not see; nor does it look at
\* the worker, which may have stopped on that status.
ClearLoad ==
  /\ at = "idle"
  /\ plan = "dispatched"
  /\ IsTerminal(stat)
  /\ ClearOthers => stat.by # "worker"
  /\ at' = "clearing"
  /\ UNCHANGED <<inst, receipt, archive, stat, plan, pane, worker, rpt, wait, copy>>

ClearUnlink ==
  /\ at = "clearing"
  /\ stat' = Blank
  /\ Unseat
  /\ Done
  /\ UNCHANGED <<inst, receipt, archive, plan, pane, worker, wait>>

\* Mutant: herdr_pane_closed_at is not looked at.
CloseLoadAgain ==
  /\ at = "idle"
  /\ inst.st = "in-progress" \/ (inst.st = "gone" /\ archive = "open")
  /\ IsTerminal(stat)
  /\ at' = "closing"
  /\ UNCHANGED <<inst, receipt, archive, stat, plan, pane, worker, rpt, wait, copy>>

\* close-worker-pane.py, on the live instruction or on the archived one.
CloseLoad ==
  /\ at = "idle"
  /\ inst.st = "in-progress" \/ (inst.st = "gone" /\ archive = "open")
  /\ ~inst.closed
  /\ IsTerminal(stat)
  /\ at' = "closing"
  /\ UNCHANGED <<inst, receipt, archive, stat, plan, pane, worker, rpt, wait, copy>>

\* herdr closes whatever the pane id names by now; it fails on a free id.
ClosePane ==
  /\ at = "closing"
  /\ rpt.at = "opened" => "torn" \in Troubles
  /\ IF pane \in {"own", "other"}
     THEN /\ pane' = "free"
          /\ worker' = "none"
          /\ rpt' = NoRpt
          /\ at' = "closed"
     ELSE /\ at' = "idle"
          /\ UNCHANGED <<pane, worker, rpt>>
  /\ UNCHANGED <<inst, receipt, archive, stat, plan, wait, copy>>

CloseMark ==
  /\ at = "closed"
  /\ inst' = [inst EXCEPT !.closed = TRUE]
  /\ archive' = IF inst.st = "gone" THEN "settled" ELSE archive
  /\ Done
  /\ UNCHANGED <<receipt, stat, plan, pane, worker, rpt, wait>>

\* wrap-up-task.py: a terminal status, then the archived copy, then the
\* unlink, then plan.json.
WrapLoad ==
  /\ at = "idle"
  /\ inst.st \in {"pending", "in-progress"}
  /\ IsTerminal(stat)
  /\ CloseFirst => pane # "own"
  /\ copy' = stat
  /\ at' = "archiving"
  /\ UNCHANGED <<inst, receipt, archive, stat, plan, pane, worker, rpt, wait>>

WrapArchive ==
  /\ at = "archiving"
  /\ archive' = IF inst.st = "pending" \/ inst.closed THEN "settled" ELSE "open"
  /\ at' = "unlinking"
  /\ UNCHANGED <<inst, receipt, stat, plan, pane, worker, rpt, wait, copy>>

WrapUnlink ==
  /\ at = "unlinking"
  /\ inst' = [inst EXCEPT !.st = "gone"]
  /\ receipt' = FALSE
  /\ at' = "syncing"
  /\ UNCHANGED <<archive, stat, plan, pane, worker, rpt, wait, copy>>

WrapSync ==
  /\ at = "syncing"
  /\ plan' = copy.val
  /\ Done
  /\ UNCHANGED <<inst, receipt, archive, stat, pane, worker, rpt, wait>>

\* The coordinator's process dies between two of its steps, and another takes
\* its place.
Crash ==
  /\ at \in Troubles \cap Points
  /\ at' = "down"
  /\ copy' = Blank
  /\ UNCHANGED <<inst, receipt, archive, stat, plan, pane, worker, rpt, wait>>

Restart ==
  /\ at = "down"
  /\ Done
  /\ UNCHANGED <<inst, receipt, archive, stat, plan, pane, worker, rpt, wait>>

(***************************************************************************)
(* The worker                                                              *)
(***************************************************************************)
InTurn == worker = "working" /\ at \notin Quiet

\* report-task-status.py: sender and instruction checked, then open("w")
\* truncates the status file, then the payload is written.  While the
\* instruction is pending the check waits and at last refuses; once it is archived
\* the --plan and --task form checks nobody.
ReportCheck(v) ==
  /\ InTurn
  /\ rpt = NoRpt
  /\ inst.st \in {"in-progress", "gone"}
  /\ rpt' = [at |-> "checked", val |-> v]
  /\ UNCHANGED <<inst, receipt, archive, stat, plan, pane, worker, wait, at, copy>>

ReportOpen ==
  /\ InTurn
  /\ rpt.at = "checked"
  /\ stat' = Torn
  /\ Outdated
  /\ rpt' = [rpt EXCEPT !.at = "opened"]
  /\ UNCHANGED <<inst, receipt, archive, plan, pane, worker, at, copy>>

ReportWrite ==
  /\ InTurn
  /\ rpt.at = "opened"
  /\ stat' = Report(rpt.val, "worker")
  /\ Outdated
  /\ rpt' = NoRpt
  /\ UNCHANGED <<inst, receipt, archive, plan, pane, worker, at, copy>>

\* report-progress.py, with or without --waiting-on.
NoteWait ==
  /\ InTurn
  /\ rpt = NoRpt
  /\ inst.st \in {"pending", "in-progress"}
  /\ wait' \in {"fresh", "none"}
  /\ UNCHANGED <<inst, receipt, archive, stat, plan, pane, worker, rpt, at, copy>>

\* Mutant: the resolution marker is not looked at.
ReportedAtAll == stat.on = "report"

\* has_valid_report: a terminal status, or a checkpoint nobody has answered.
HasValidReport == stat.on = "report" /\ (stat.val \in Terminal \/ ~stat.resolved)

\* The stop hook finds no active instruction, a session that is being renewed,
\* a valid report, or a fresh wait note, which it uses up; otherwise it blocks
\* the stop.
Stop ==
  /\ InTurn
  /\ rpt = NoRpt
  /\ \/ /\ \/ inst.st = "gone"
           \/ inst.st = "pending" /\ "earlyStop" \in Troubles
           \/ "renewing" \in Troubles
        /\ UNCHANGED wait
     \/ /\ inst.st = "in-progress"
        /\ HasValidReport
        /\ UNCHANGED wait
     \/ /\ inst.st = "in-progress"
        /\ ~HasValidReport
        /\ wait = "fresh"
        /\ wait' = "used"
  /\ worker' = "stopped"
  /\ UNCHANGED <<inst, receipt, archive, stat, plan, pane, rpt, at, copy>>

\* Its own wait comes through, or the user types into the pane.
Resume ==
  /\ worker = "stopped"
  /\ at \notin Quiet
  /\ worker' = "working"
  /\ wait' = "none"
  /\ UNCHANGED <<inst, receipt, archive, stat, plan, pane, rpt, at, copy>>

(***************************************************************************)
(* Herdr                                                                   *)
(***************************************************************************)
\* The pane goes away on its own, and the worker's processes with it.
Vanish ==
  /\ "vanish" \in Troubles
  /\ pane = "own"
  /\ rpt.at = "opened" => "torn" \in Troubles
  /\ pane' = "free"
  /\ worker' = "none"
  /\ rpt' = NoRpt
  /\ UNCHANGED <<inst, receipt, archive, stat, plan, wait, at, copy>>

\* herdr gives the free pane id to another agent.
Reuse ==
  /\ pane = "free"
  /\ pane' = "other"
  /\ UNCHANGED <<inst, receipt, archive, stat, plan, worker, rpt, wait, at, copy>>

Recover == \E v \in {"done", "failed"} : RecoverProbe(v)

Proceed ==
  \/ MarkPlanTask \/ WriteReceipt \/ (at = "confirming" /\ ConfirmDispatch)
  \/ ReplySend \/ ReplyResolve \/ CancelWrite
  \/ RecoverMark \/ RecoverJudge \/ RecoverRecord \/ ClearUnlink
  \/ ClosePane \/ CloseMark \/ WrapArchive \/ WrapUnlink \/ WrapSync \/ Restart

WorkerStep ==
  \/ \E v \in WorkerStatuses : ReportCheck(v)
  \/ ReportOpen \/ ReportWrite \/ NoteWait \/ Stop \/ Resume

Next ==
  \/ WriteInstruction \/ Launch \/ (at = "idle" /\ ConfirmDispatch)
  \/ ReplyLoad \/ Redirect \/ CancelOpen \/ Recover \/ ClearLoad \/ CloseLoad \/ WrapLoad
  \/ Proceed \/ LeaveUnconfirmed \/ Crash
  \/ WorkerStep \/ Vanish \/ Reuse

Spec == Init /\ [][Next]_vars

\* A started command runs to its end, and the coordinator keeps trying the two
\* commands that settle a dead worker's task, in whatever order it runs others.
Fairness == WF_vars(Proceed) /\ SF_vars(Recover) /\ SF_vars(WrapLoad)

FairSpec == Spec /\ Fairness

(***************************************************************************)
(* Properties                                                              *)
(***************************************************************************)

\* Every variable keeps its type; plan.json only ever gets a terminal value.
TypeOK ==
  /\ inst \in [st : {"none", "pending", "in-progress", "gone"}, closed : BOOLEAN]
  /\ receipt \in BOOLEAN
  /\ archive \in {"none", "open", "settled"}
  /\ stat \in Payload
  /\ plan \in {"planned", "dispatched"} \cup Terminal
  /\ pane \in {"none", "own", "free", "other"}
  /\ worker \in {"none", "working", "stopped"}
  /\ rpt \in Rpt
  /\ wait \in {"none", "fresh", "used"}
  /\ at \in Points \cup {"idle", "down"}
  /\ copy \in Payload

\* A worker that has ended its turn left word of why: a terminal status, a
\* checkpoint still open, or a wait it will resume from by itself.
Unexplained ==
  /\ worker = "stopped" /\ inst.st = "in-progress" /\ at # "cancelling"
  /\ ~(stat.on = "report" /\ (stat.resolved => stat.val \in Terminal))
  /\ wait # "used"

\* Nobody waits for a worker that waits for nobody (the stop guard's purpose): whatever
\* the worker and the coordinator do, only a clear leaves a stopped worker unexplained.
StoppedIsExplained == ~Unexplained /\ [][~Unexplained /\ Unexplained' => ClearUnlink]_vars

\* A worker's terminal report is final: it is overwritten only by a later
\* report of the worker's own, or by the coordinator's cancel, the one status
\* the main agent writes over a task that is still its own.
FinalWordStands ==
  [][(IsTerminal(stat) /\ stat.by = "worker" /\ stat' # stat) =>
       ReportOpen \/ CancelOpen \/ CancelWrite]_vars

\* What plan.json says of a settled task is what its status file says: the
\* two agree for every reader of either (watch, read-plan-status, the user).
PlanAgrees == plan \in Terminal => stat.on = "report" /\ stat.val = plan

\* A task whose worker's pane is gone does not stay in progress for ever:
\* recovery and wrap-up settle it, whatever was on file when the worker died.
CrashesStop == <>[](at # "down")
DeadWorkerIsSettled ==
  CrashesStop =>
    ((inst.st = "in-progress" /\ pane \in {"free", "other"}) ~> inst.st = "gone")

\* Once the pane is on record as closed, by close-worker-pane.py or by a
\* recovery that found it gone, no command closes what its id names next:
\* Herdr may have handed it to another agent.
ClosedStaysClosed == [][(inst.closed /\ pane = "other") => pane' = "other"]_vars

\* What plan.json shows of the task: a worker is in or has left the pane, and the outcome
\* of a wrap-up is due from the unlink to the sync.
Given == IF pane = "none" THEN 0 ELSE 1
Due   == IF inst.st # "gone" THEN "none" ELSE IF at = "syncing" THEN copy.val ELSE "over"

Kept == INSTANCE PlanTask WITH Outcomes <- Terminal, entry <- plan, runs <- Given, due <- Due

\* Instruction, pane and wrap-up keep what plan.json promises about a task: marked before
\* it is launched, launched once and while open, settled with the wrap-up's outcome.
ImplementsTask == Kept!TaskSpec
=============================================================================
