------------------------------ MODULE RollCall ------------------------------
(***************************************************************************)
(* roll-call.py beside one dispatched task: which workers are alive, and    *)
(* which dispatches have nobody behind them.  It writes nothing and holds   *)
(* nothing still.  Herdr is read first, once; then the dispatch directory,  *)
(* each instruction with the files beside it, and the archive, while the    *)
(* task goes its way between any two of these reads.                        *)
(***************************************************************************)
EXTENDS TaskLifecycle

CONSTANT Kinds     \* provider kinds under study, of {"claude", "codex"}

ASSUME RollCallAssumption == Kinds \subseteq {"claude", "codex"}

VARIABLES
  kind,     \* the dispatch's agent_kind
  roll      \* the roll call under way: what it has read, what it says

rollVars == <<vars, kind, roll>>

NoRoll == [pc |-> "idle", agent |-> "none", shown |-> FALSE, idle |-> FALSE, open |-> FALSE, known |-> FALSE,
           st |-> "none", receipt |-> FALSE, verdict |-> "none",
           named |-> FALSE, flagged |-> FALSE]

RollInit == Init /\ kind \in Kinds /\ roll = NoRoll

Reading(pc) == roll.pc = pc

(***************************************************************************)
(* LiveAgents.read                                                         *)
(***************************************************************************)
\* The agents herdr lists: the worker, or somebody else under its pane's id.  A session
\* that herdr does not show and whose look-up fails (live_agents) is not there to match.
Look ==
  /\ Reading("idle")
  /\ \E shown \in BOOLEAN : roll' = [NoRoll EXCEPT
       !.pc = "panes",
       !.agent = IF pane \in {"own", "other"} THEN pane ELSE "none",
       !.shown = shown,
       !.idle = (worker = "stopped"),
       !.known = (inst.st = "in-progress" \/ archive = "open")]

ListPanes ==
  /\ Reading("panes")
  /\ roll' = [roll EXCEPT !.pc = "list", !.open = pane \in {"own", "other"}]

(***************************************************************************)
(* dispatch_row                                                            *)
(***************************************************************************)
ListInstructions ==
  /\ Reading("list")
  /\ roll' = [roll EXCEPT !.pc = IF inst.st \in {"pending", "in-progress"} THEN "load" ELSE "archive"]

\* Archived since it was listed: "unreadable", and nobody's to hide.
LoadInstruction ==
  /\ Reading("load")
  /\ roll' = IF inst.st = "gone" THEN [roll EXCEPT !.pc = "archive", !.verdict = "unreadable"]
             ELSE [roll EXCEPT !.pc = "receipt", !.st = inst.st]

ReadReceipt ==
  /\ Reading("receipt")
  /\ roll' = [roll EXCEPT !.pc = "status", !.receipt = receipt]

\* The agent in the pane is the worker, and shows the session it is known by.
Recognised == roll.agent = "own" /\ roll.shown

\* [mutant] an idle agent's title reads like a shell prompt, and is taken for one.
CarriedByTitle == Recognised /\ ~roll.idle

\* worker_agent: the worker was listed, and with the fingerprint on file.  Claude's is
\* chosen before the launch, Codex's is known from the receipt on.
Carried == Recognised /\ (kind = "claude" \/ roll.st = "in-progress" \/ roll.receipt)

\* classify; a report that does not parse is none.
Verdict ==
  CASE roll.st = "pending" -> IF Carried THEN "launched-unconfirmed" ELSE "never-launched"
    [] roll.st # "pending" /\ IsTerminal(stat) -> "awaiting-collection"
    [] roll.st # "pending" /\ ~IsTerminal(stat) ->
         IF ~Carried THEN "orphaned" ELSE IF stat.on = "report" THEN "checkpoint" ELSE "running"

\* Neither the instruction nor a receipt gives the row a pane.
NoPaneOnFile == roll.st = "pending" /\ ~roll.receipt

Judge ==
  /\ Reading("status")
  /\ roll' = [roll EXCEPT !.pc = "archive", !.verdict = Verdict, !.named = Carried,
                          !.flagged = NoPaneOnFile /\ ~Carried /\ roll.agent = "own"]

(***************************************************************************)
(* wrapped_up_open_panes, and the agents that are left                     *)
(***************************************************************************)
\* [mutant] a pane that has an agent in it is never the archived dispatch's.
LeftoverShell == roll.agent = "none"

\* The pane's occupant, if it has one, is the archived dispatch's own worker and shows it.
Leftover == roll.agent = "none" \/ Recognised

\* Who is named nowhere is listed among the agents without instruction.
ReadArchive ==
  /\ Reading("archive")
  /\ LET stale == archive = "open" /\ roll.open /\ Leftover
     IN  roll' = [roll EXCEPT !.pc = "reported",
                              !.named = @ \/ (stale /\ roll.agent = "own"),
                              !.flagged = @ /\ ~stale]

CallAgain == Reading("reported") /\ roll' = NoRoll

RollStep ==
  \/ Look \/ ListPanes \/ ListInstructions \/ LoadInstruction \/ ReadReceipt
  \/ Judge \/ ReadArchive \/ CallAgain

RollNext ==
  \/ Next /\ UNCHANGED <<kind, roll>>
  \/ RollStep /\ UNCHANGED <<vars, kind>>

RollSpec == RollInit /\ [][RollNext]_rollVars

(***************************************************************************)
(* Properties                                                              *)
(***************************************************************************)
\* The shape of what a roll call has read.
RollTypeOK ==
  /\ TypeOK /\ kind \in Kinds
  /\ roll \in [pc : {"idle", "panes", "list", "load", "receipt", "status", "archive", "reported"},
               agent : {"none", "own", "other"}, shown : BOOLEAN, idle : BOOLEAN, open : BOOLEAN, known : BOOLEAN,
               st : {"none", "pending", "in-progress"}, receipt : BOOLEAN,
               verdict : {"none", "unreadable", "never-launched", "launched-unconfirmed",
                          "awaiting-collection", "orphaned", "checkpoint", "running"},
               named : BOOLEAN, flagged : BOOLEAN]

\* "Calling it absent invites a second dispatch on top of it": a dispatch is called
\* orphaned or never launched only when its worker is gone, was not there yet when herdr
\* was read, or showed no session then; or else the report names the pane it sits in,
\* beside the row.
AbsentMeansGone ==
  roll.verdict \in {"orphaned", "never-launched"} /\ Recognised /\ pane = "own"
    => roll.flagged \/ roll.named

\* "Never reported as unattributed": whatever the coordinator does while the report is
\* made, its wrap-up between two reads included, a confirmed dispatch's worker that
\* showed its session and is still in its pane has a row, or a place among the panes
\* left open.
WorkerIsNamed ==
  Reading("reported") /\ roll.known /\ Recognised /\ pane = "own" => roll.named
=============================================================================
