------------------------------- MODULE Launch -------------------------------
(***************************************************************************)
(* launch-dispatched-agent.py: the launcher's attempts to start one        *)
(* worker in a herdr pane and to prove that it took the task, the record   *)
(* of the failed ones, the receipt, and the coordinator who reruns it.     *)
(*                                                                         *)
(* Two things decide what a failure costs: a provider refuses a session    *)
(* id it has seen, and a pane may hold a worker that has the task whether  *)
(* or not the launcher could tell.  Everything herdr, the provider and the *)
(* machine may do wrong is an outcome that spends one of MaxFaults; a      *)
(* launch that meets no fault goes through.                                *)
(***************************************************************************)
EXTENDS Naturals, Sequences

CONSTANTS
  Kinds,         \* provider kinds under study, of {"claude", "codex"}
  MaxAttempts,   \* len(LAUNCH_RETRY_BACKOFF_SECONDS)
  MaxPrompts,    \* len(PROMPT_RETRY_BACKOFF_SECONDS)
  MaxFaults,     \* bound: faults of the environment
  CrashPoints,   \* the steps before which the launcher may be killed
  Scrolls        \* whether a task delivered to Codex may be off its screen when read

Points == {"attempt", "split", "start", "gate", "prompt", "read", "bind",
           "close", "record", "receipt", "unlink", "confirm"}

ASSUME LaunchAssumption ==
  /\ Kinds \subseteq {"claude", "codex"}
  /\ MaxAttempts \in Nat \ {0}
  /\ MaxPrompts \in Nat \ {0}
  /\ MaxFaults \in Nat
  /\ CrashPoints \subseteq Points
  /\ Scrolls \in BOOLEAN

VARIABLES
  kind,      \* the dispatch's agent_kind
  inst,      \* the instruction: status, session_id, the pane it is bound to
  failure,   \* .launch-failure.json: spent ids, the pane left open
  receipt,   \* .launch.json: the pane and session that landed
  run,       \* the launcher under way
  pane,      \* the panes it split, in order
  used,      \* session ids the provider has seen
  minted,    \* session ids generated so far (uuid4 never repeats)
  faults,    \* faults so far
  died,      \* launchers killed so far
  refused    \* agents the provider refused for their session id so far

vars == <<kind, inst, failure, receipt, run, pane, used, minted, faults, died, refused>>

NoPane    == 0
NoReceipt == [pane |-> NoPane, sid |-> 0]
NoFailure == [spent |-> {}, left |-> {}]
NoRun == [pc |-> "idle", n |-> 0, sid |-> 0, spent |-> {}, pane |-> NoPane, prompts |-> 0,
          delivered |-> FALSE, retry |-> FALSE, keep |-> FALSE]

Init ==
  /\ kind \in Kinds
  /\ inst = [status |-> "pending", sid |-> 1, pane |-> NoPane]
  /\ failure = NoFailure
  /\ receipt = NoReceipt
  /\ run = NoRun
  /\ pane = <<>>
  /\ used = {}
  /\ minted = 1
  /\ faults = 0
  /\ died = 0
  /\ refused = 0

Open(p)    == pane[p].st # "closed"
HasTask(p) == pane[p].st = "agent" /\ pane[p].told > 0

Fault == faults < MaxFaults /\ faults' = faults + 1
Fine  == faults' = faults

At(pc) == run.pc = pc
Goto(pc) == run' = [run EXCEPT !.pc = pc]

\* The attempt ends: is it worth another attempt, does the pane stay?
Fail(retry, keep) ==
  run' = [run EXCEPT !.pc = IF keep THEN "record" ELSE "close", !.retry = retry, !.keep = keep]

\* Mutant: the pane is cleared away whatever its worker was given.
FailAlike(retry) == Fail(retry, FALSE)

\* An error on the way: once the task is confirmed delivered the pane stays.
Error(retry) == IF run.delivered THEN Fail(FALSE, TRUE) ELSE Fail(retry, FALSE)

(***************************************************************************)
(* The coordinator runs the launcher; run_attempts                         *)
(***************************************************************************)
\* rotate_session_id: the instruction is rewritten with an id nobody has seen.
Rotate == inst' = [inst EXCEPT !.sid = minted + 1] /\ minted' = minted + 1

\* spent_session_ids.
Spent == failure.spent

\* A coordinator runs the launcher again only when no pane it was told of is
\* left open and no receipt says that the worker is running.
Launch ==
  /\ At("idle")
  /\ inst.status = "pending"
  /\ receipt = NoReceipt
  /\ \A p \in failure.left : ~Open(p)
  /\ IF kind = "claude" /\ inst.sid \in Spent THEN Rotate ELSE UNCHANGED <<inst, minted>>
  /\ run' = [NoRun EXCEPT !.pc = "attempt", !.n = 1, !.spent = Spent]
  /\ UNCHANGED <<kind, failure, receipt, pane, used, faults, died, refused>>

\* Mutant: the retry starts its agent on the id of the attempt before.
SameSession == FALSE

\* Only an attempt that got as far as a pane can have used its id up.
NeedsFreshSession == run.n > 1 /\ kind = "claude" /\ run.pane # NoPane

BeginAttempt ==
  /\ At("attempt")
  /\ IF NeedsFreshSession THEN Rotate ELSE UNCHANGED <<inst, minted>>
  /\ run' = [run EXCEPT !.pc = "split", !.sid = inst'.sid, !.spent = @ \cup {inst'.sid},
                        !.pane = NoPane, !.prompts = MaxPrompts, !.delivered = FALSE]
  /\ UNCHANGED <<kind, failure, receipt, pane, used, faults, died, refused>>

(***************************************************************************)
(* One attempt: split a pane, start the agent, clear its gates             *)
(***************************************************************************)
PaneRecs == [st : {"shell", "agent", "closed"}, sid : Nat,
             gate : {"none", "blocked", "hooks"}, told : Nat,
             stuck : BOOLEAN]   \* the launcher did not manage to close it

NewPane == [st |-> "shell", sid |-> 0, gate |-> "none", told |-> 0, stuck |-> FALSE]

SplitPane ==
  /\ At("split")
  /\ pane' = Append(pane, NewPane)
  /\ run' = [run EXCEPT !.pc = "start", !.pane = Len(pane')]
  /\ Fine
  /\ UNCHANGED <<kind, inst, failure, receipt, used, minted, died, refused>>

\* create_worker_pane raises: no pane came to be, or it landed in another tab and
\* was closed, or it is there and herdr's answer was lost or its clean-up failed.
\* Whichever it was, the attempt has no pane.
SplitFails ==
  /\ At("split")
  /\ Fault
  /\ \E retry \in BOOLEAN : Error(retry)
  /\ \/ UNCHANGED pane
     \/ pane' = Append(pane, [NewPane EXCEPT !.st = "closed"])
     \/ pane' = Append(pane, [NewPane EXCEPT !.stuck = TRUE])
  /\ UNCHANGED <<kind, inst, failure, receipt, used, minted, died, refused>>

\* Claude is given its session id; Codex makes a session of its own (0).
Given == IF kind = "claude" THEN run.sid ELSE 0

\* The agent is up, and the provider has seen its id.
Boot(gate) ==
  /\ pane' = [pane EXCEPT ![run.pane] =
                 [@ EXCEPT !.st = "agent", !.sid = Given, !.gate = gate]]
  /\ used' = used \cup {Given}

Refusable == kind = "claude" /\ Given \in used

StartAgent ==
  /\ At("start")
  /\ ~Refusable
  /\ Boot("none")
  /\ Goto("gate")
  /\ Fine
  /\ UNCHANGED <<kind, inst, failure, receipt, minted, died, refused>>

\* The agent comes up behind a startup gate (Codex also has the hook review).
StartGated ==
  /\ At("start")
  /\ ~Refusable
  /\ Fault
  /\ \E gate \in IF kind = "codex" THEN {"blocked", "hooks"} ELSE {"blocked"} :
       Boot(gate)
  /\ Goto("gate")
  /\ UNCHANGED <<kind, inst, failure, receipt, minted, died, refused>>

\* The start, or reading the settled agent, fails: with the agent up or not.
StartFails ==
  /\ At("start")
  /\ ~Refusable
  /\ Fault
  /\ \E retry \in BOOLEAN : Error(retry)
  /\ \/ UNCHANGED <<pane, used>>
     \/ Boot("none")
  /\ UNCHANGED <<kind, inst, failure, receipt, minted, died, refused>>

\* "Session ID ... is already in use": the agent exits and says so on the pane.
StartRefused ==
  /\ At("start")
  /\ Refusable
  /\ refused' = refused + 1
  /\ Error(TRUE)
  /\ UNCHANGED <<kind, inst, failure, receipt, pane, used, minted, faults, died>>

\* A gate only a person may answer keeps the pane; Codex's others take an enter.
ClearGate ==
  /\ At("gate")
  /\ IF pane[run.pane].gate = "hooks" \/ (kind = "claude" /\ pane[run.pane].gate # "none")
       THEN Fail(FALSE, TRUE) /\ UNCHANGED pane
       ELSE Goto("prompt") /\ pane' = [pane EXCEPT ![run.pane].gate = "none"]
  /\ UNCHANGED <<kind, inst, failure, receipt, used, minted, faults, died, refused>>

GateFails ==
  /\ At("gate")
  /\ Fault
  /\ Error(FALSE)
  /\ UNCHANGED <<kind, inst, failure, receipt, pane, used, minted, died, refused>>

(***************************************************************************)
(* prompt_task_with_confirmation                                           *)
(***************************************************************************)
There == pane[run.pane].st = "agent"

Tell == pane' = [pane EXCEPT ![run.pane].told = @ + 1]

\* herdr answers agent_not_found, agent_not_running.
AgentIsGone ==
  /\ At("prompt") \/ At("read")
  /\ ~There
  /\ Error(TRUE)
  /\ UNCHANGED <<kind, inst, failure, receipt, pane, used, minted, faults, died, refused>>

PromptAccepted ==
  /\ At("prompt")
  /\ There
  /\ run' = [run EXCEPT !.pc = "read", !.prompts = @ - 1]
  /\ Tell /\ Fine
  /\ UNCHANGED <<kind, inst, failure, receipt, used, minted, died, refused>>

\* A booting pane takes the prompt and drops it.
PromptDropped ==
  /\ At("prompt")
  /\ There
  /\ Fault
  /\ run' = [run EXCEPT !.pc = "read", !.prompts = @ - 1]
  /\ UNCHANGED <<kind, inst, failure, receipt, pane, used, minted, died, refused>>

LastPrompt(left) == left = 0

\* Another prompt, or PromptDeliveryError: the pane keeps its agent.
PromptAgain(left) ==
  IF LastPrompt(left)
    THEN run' = [run EXCEPT !.pc = "record", !.prompts = left, !.retry = FALSE, !.keep = TRUE]
    ELSE run' = [run EXCEPT !.pc = "prompt", !.prompts = left]

\* agent_prompt_stalled: the text is in the composer, no turn began.
PromptStalled ==
  /\ At("prompt")
  /\ There
  /\ Fault
  /\ PromptAgain(run.prompts - 1)
  /\ UNCHANGED <<kind, inst, failure, receipt, pane, used, minted, died, refused>>

\* Mutant: an ambiguous failure is taken for a stall and sent again.
ResendOnDoubt == PromptAgain(run.prompts - 1)

AbandonOnDoubt == Error(FALSE)

\* A timeout of the wait: the turn may have begun.  It is not sent again.
PromptAmbiguous ==
  /\ At("prompt")
  /\ There
  /\ Fault
  /\ AbandonOnDoubt
  /\ Tell \/ UNCHANGED pane
  /\ UNCHANGED <<kind, inst, failure, receipt, used, minted, died, refused>>

\* herdr refuses the prompt; Codex's unresolved model is worth another attempt.
PromptRefused ==
  /\ At("prompt")
  /\ There
  /\ Fault
  /\ \E loading \in IF kind = "codex" THEN BOOLEAN ELSE {FALSE} : Error(loading)
  /\ UNCHANGED <<kind, inst, failure, receipt, pane, used, minted, died, refused>>

\* Mutant: an accepted prompt is a delivered one.
TakenForDelivered == {TRUE}

\* confirm_transcript_contains: Claude's scrollback, but Codex's screen alone.
Transcript == IF pane[run.pane].told = 0 THEN {FALSE}
              ELSE IF Scrolls /\ kind = "codex" THEN BOOLEAN ELSE {TRUE}

ReadTranscript ==
  /\ At("read")
  /\ There
  /\ \E shown \in Transcript : IF shown
       THEN run' = [run EXCEPT !.pc = "bind", !.delivered = TRUE]
       ELSE PromptAgain(run.prompts)
  /\ UNCHANGED <<kind, inst, failure, receipt, pane, used, minted, faults, died, refused>>

ReadFails ==
  /\ At("read")
  /\ There
  /\ Fault
  /\ Error(FALSE)
  /\ UNCHANGED <<kind, inst, failure, receipt, pane, used, minted, died, refused>>

(***************************************************************************)
(* _bind_session; the attempt's error handling                             *)
(***************************************************************************)
BindSession ==
  /\ At("bind")
  /\ There
  /\ Goto("receipt")
  /\ Fine
  /\ UNCHANGED <<kind, inst, failure, receipt, pane, used, minted, died, refused>>

BindFails ==
  /\ At("bind")
  /\ IF There THEN Fault ELSE Fine
  /\ Error(FALSE)
  /\ UNCHANGED <<kind, inst, failure, receipt, pane, used, minted, died, refused>>

\* Mutant: the pane of an attempt nobody retries is left as it is.
ClosesOnRetry == run.pane # NoPane /\ run.retry

ClosesPane == run.pane # NoPane

CloseFailed ==
  /\ At("close")
  /\ pane' = IF ClosesPane THEN [pane EXCEPT ![run.pane].st = "closed"] ELSE pane
  /\ Goto("record")
  /\ UNCHANGED <<kind, inst, failure, receipt, used, minted, faults, died, refused>>

\* herdr refuses to close the pane: that is noted in the attempt's record, whose
\* pane_left_open stays false, and the launcher goes on.
CloseRefused ==
  /\ At("close")
  /\ ClosesPane
  /\ Fault
  /\ pane' = [pane EXCEPT ![run.pane].stuck = TRUE]
  /\ Goto("record")
  /\ UNCHANGED <<kind, inst, failure, receipt, used, minted, died, refused>>

\* Mutant: every error is worth another attempt.
AlwaysRetry == run.n < MaxAttempts

MayRetry == run.retry /\ run.n < MaxAttempts

\* record_launch_failure, after every failed attempt.
RecordFailure ==
  /\ At("record")
  /\ failure' = [spent |-> run.spent, left |-> IF run.keep THEN {run.pane} ELSE {}]
  /\ run' = IF MayRetry
              THEN [run EXCEPT !.pc = "attempt", !.n = @ + 1, !.retry = FALSE, !.keep = FALSE]
              ELSE NoRun
  /\ UNCHANGED <<kind, inst, receipt, pane, used, minted, faults, died, refused>>

(***************************************************************************)
(* The launch landed                                                       *)
(***************************************************************************)
\* Mutant: the receipt names the id the dispatch was written with.
FirstSession == 1

LandedSession == pane[run.pane].sid

WriteReceipt ==
  /\ At("receipt")
  /\ receipt' = [pane |-> run.pane, sid |-> LandedSession]
  /\ Goto("unlink")
  /\ UNCHANGED <<kind, inst, failure, pane, used, minted, faults, died, refused>>

UnlinkFailure ==
  /\ At("unlink")
  /\ failure' = NoFailure
  /\ Goto("confirm")
  /\ UNCHANGED <<kind, inst, receipt, pane, used, minted, faults, died, refused>>

\* confirm_dispatch: a Claude receipt has to name the instruction's session.
Confirmable ==
  /\ inst.status = "pending"
  /\ receipt # NoReceipt
  /\ kind = "claude" => receipt.sid = inst.sid

Confirm ==
  /\ Confirmable
  /\ inst' = [status |-> "in-progress", sid |-> receipt.sid, pane |-> receipt.pane]

ConfirmOwn ==
  /\ At("confirm")
  /\ Confirm
  /\ run' = NoRun
  /\ UNCHANGED <<kind, failure, receipt, pane, used, minted, faults, died, refused>>

\* The launcher ends with confirmed: false.
ConfirmFails ==
  /\ At("confirm")
  /\ IF Confirmable THEN Fault ELSE Fine
  /\ run' = NoRun
  /\ UNCHANGED <<kind, inst, failure, receipt, pane, used, minted, died, refused>>

Launcher ==
  \/ BeginAttempt \/ SplitPane \/ SplitFails
  \/ StartAgent \/ StartGated \/ StartFails \/ StartRefused \/ ClearGate \/ GateFails
  \/ AgentIsGone \/ PromptAccepted \/ PromptDropped \/ PromptStalled
  \/ PromptAmbiguous \/ PromptRefused \/ ReadTranscript \/ ReadFails
  \/ BindSession \/ BindFails \/ CloseFailed \/ CloseRefused \/ RecordFailure
  \/ WriteReceipt \/ UnlinkFailure \/ ConfirmOwn \/ ConfirmFails

(***************************************************************************)
(* The coordinator's other commands, and what goes wrong                   *)
(***************************************************************************)
\* dispatch-task.py confirm, the repair a confirmed: false names.
RepairConfirm ==
  /\ At("idle")
  /\ Confirm
  /\ UNCHANGED <<kind, failure, receipt, run, pane, used, minted, faults, died, refused>>

\* A person deals with the pane a launch left open, and closes it.
DisposePane ==
  /\ At("idle")
  /\ \E p \in failure.left : Open(p) /\ pane' = [pane EXCEPT ![p].st = "closed"]
  /\ UNCHANGED <<kind, inst, failure, receipt, run, used, minted, faults, died, refused>>

\* The agent exits while it is being launched.
Vanish ==
  /\ run.pc \in {"gate", "prompt", "read", "bind"}
  /\ There
  /\ Fault
  /\ pane' = [pane EXCEPT ![run.pane].st = "shell"]
  /\ UNCHANGED <<kind, inst, failure, receipt, run, used, minted, died, refused>>

Crash ==
  /\ run.pc \in CrashPoints
  /\ Fault
  /\ run' = NoRun
  /\ died' = died + 1
  /\ UNCHANGED <<kind, inst, failure, receipt, pane, used, minted, refused>>

Next == Launch \/ Launcher \/ RepairConfirm \/ DisposePane \/ Vanish \/ Crash

Spec == Init /\ [][Next]_vars

\* The launcher runs on, and the coordinator does what its messages ask for.
FairSpec ==
  /\ Spec
  /\ WF_vars(Launcher)
  /\ WF_vars(Launch)
  /\ WF_vars(RepairConfirm)
  /\ WF_vars(DisposePane)

(***************************************************************************)
(* Properties                                                              *)
(***************************************************************************)
\* Types: of the records the launcher writes and of its own bookkeeping.
Panes == 1..Len(pane)

InstRecs == [status : {"pending", "in-progress"}, sid : Nat, pane : Nat]

RunRecs == [pc : Points \cup {"idle"}, n : 0..MaxAttempts, sid : Nat, spent : SUBSET Nat,
            pane : Nat, prompts : 0..MaxPrompts,
            delivered : BOOLEAN, retry : BOOLEAN, keep : BOOLEAN]

TypeOK ==
  /\ kind \in Kinds
  /\ inst \in InstRecs
  /\ failure \in [spent : SUBSET Nat, left : SUBSET Panes]
  /\ receipt \in [pane : Nat, sid : Nat]
  /\ run \in RunRecs /\ run.pane \in {NoPane} \cup Panes
  /\ pane \in Seq(PaneRecs)
  /\ used \subseteq Nat
  /\ minted \in Nat
  /\ faults \in 0..MaxFaults
  /\ died \in Nat
  /\ refused \in Nat

\* A worker gets its opening task once: a stall or a dropped prompt is sent
\* again, a failure that may have delivered it is not (prompt.py:63-76).
ToldOnce == \A p \in Panes : pane[p].told <= 1

\* However often attempts fail and the launcher is run again, no two live agents
\* hold the same task (retry.py:67-76, __init__.py:258-261), besides those in panes
\* that herdr refused to close for the launcher (__init__.py:397-405).
OneWorker ==
  \A p, q \in Panes :
    HasTask(p) /\ HasTask(q) => p = q \/ pane[p].stuck \/ pane[q].stuck

\* An agent is started on an id the provider has seen only where a killed
\* launcher could not record it, and each death costs one start (retry.py:121-161).
RefusalsAreDeaths == refused <= died

\* A dispatch in progress is bound to a pane whose agent was given the task
\* under the session the instruction names (__init__.py:312-315, state.py:404-498).
BoundToItsWorker ==
  inst.status = "in-progress" =>
    /\ inst.pane \in Panes
    /\ pane[inst.pane].told > 0
    /\ pane[inst.pane].sid = inst.sid

\* A launch that landed can be confirmed, by its launcher or by the repair it names:
\* no rotation of the session comes between the agent and its receipt.
ReceiptConfirms == receipt # NoReceipt /\ inst.status = "pending" => Confirmable

\* The panes whose worker is confirmed to have the task, and those a person
\* was told are left open.
Held == {p \in Panes :
           \/ run.delivered /\ p = run.pane
           \/ p \in failure.left
           \/ p = receipt.pane}

\* The launcher closes none of them, in this run or a later one.
HeldPaneStands == [][\A p \in Held : Open(p) /\ pane'[p].st = "closed" => UNCHANGED run]_vars

\* A launcher that was not killed leaves no pane behind that neither the receipt nor
\* the failure record names, but where herdr would not close it or lost its name.
NoStrayPane ==
  At("idle") /\ died = 0 =>
    \A p \in Panes : Open(p) => p \in failure.left \/ p = receipt.pane \/ pane[p].stuck

\* Once the faults end, a pending dispatch gets a worker and is confirmed.
GetsItsWorker == <>(inst.status = "in-progress")
=============================================================================
