------------------------------- MODULE Renewal -------------------------------
(***************************************************************************)
(* Context renewal of the session in one Herdr pane (renewal.py and the     *)
(* scripts around it): the Stop guard asks a session that has grown too     *)
(* large to renew, renew-context.py writes the pane's record and starts a   *)
(* detached deliverer, the deliverer clears the pane, and the SessionStart  *)
(* hook of whatever session starts there claims the record and moves the    *)
(* dispatch routes, the lineage and the message ledger to it.               *)
(*                                                                         *)
(* The record is the only thing the four share, and none of them locks it.  *)
(* What a re-key may meet in the directory is in Registry.                  *)
(***************************************************************************)
EXTENDS Naturals, FiniteSets

CONSTANTS
  MaxSession,      \* bound: sessions 0..MaxSession run in the pane, one after the other
  Paths,           \* dispatch instructions
  Questions,       \* message ids, what a ledger holds
  None, Elsewhere, \* no session; a session of another pane
  HookDeaths,      \* where a hook may be killed with the session it starts
  Validations,     \* outcomes of the hook's check that it runs in the pane
  Overlap,         \* whether a session may start while the hook of an earlier one runs
  Swift,           \* whether the deliverer acts before the pane takes another turn
  Reliable,        \* whether a deliverer gives up a record nobody has claimed
  Apart            \* whether a takeover keeps out of the hook's read and write

Sessions == 0..MaxSession
HookPoints == {"begin", "consume", "check", "read", "move", "lineage", "carry", "drop", "rekey"}

ASSUME RenewalAssumption ==
  /\ MaxSession \in Nat
  /\ None \notin Sessions /\ Elsewhere \notin Sessions /\ None # Elsewhere
  /\ HookDeaths \subseteq HookPoints
  /\ Validations \subseteq BOOLEAN /\ Validations # {}
  /\ Overlap \in BOOLEAN /\ Swift \in BOOLEAN /\ Reliable \in BOOLEAN /\ Apart \in BOOLEAN

VARIABLES
  record,   \* the pane's record file
  last,     \* the session in the pane: the one started last
  turn,     \* whether it is starting, idle or at work
  over,     \* whether its context is above the threshold
  blocked,  \* what the guard blocked this turn's end for
  dl,       \* the deliverer that holds the pane's lock
  hook,     \* the SessionStart hook of each session
  route,    \* the session each instruction's route names
  pred,     \* the lineage file: which session each one continues
  ledger,   \* the messages recorded for each session
  entry,    \* the sessions that have a record in the orchestrator directory
  line      \* history: the sessions that the record's holder in fact continues, itself included

pvars == <<record, last, turn, over, blocked, dl, hook, route, pred, entry, line>>

NoRecord == [st |-> "none", by |-> None, claimant |-> None, from |-> None,
             confirmed |-> FALSE, settled |-> FALSE, reported |-> FALSE]
NoHook == [pc |-> "none", rec |-> NoRecord, from |-> None, snap |-> {}]
Running(s) == hook[s].pc \in HookPoints

Init ==
  /\ record = NoRecord
  /\ last = 0 /\ turn = "idle" /\ over = FALSE /\ blocked = "no"
  /\ dl = "none"
  /\ hook = [s \in Sessions |-> NoHook]
  /\ route = [i \in Paths |-> None]
  /\ pred = [s \in Sessions |-> None]
  /\ ledger = [s \in Sessions |-> {}]
  /\ entry = {}
  /\ line = {0}

(***************************************************************************)
(* The session in the pane                                                  *)
(***************************************************************************)
\* A deliverer about to clear, or about to prompt, is ahead of the next turn; while it
\* waits to clear, the session that wrote the record may still be prompted.
Ahead == dl = "settle" \/ (dl = "wait" /\ record.st = "consumed")

TurnStarts ==
  /\ turn = "idle" /\ (Swift => ~Ahead)
  /\ turn' = "busy"
  /\ UNCHANGED <<record, last, over, blocked, dl, hook, route, pred, entry, line>>

Grows ==
  /\ turn = "busy" /\ ~over
  /\ over' = TRUE
  /\ UNCHANGED <<record, last, turn, blocked, dl, hook, route, pred, entry, line>>

\* The session writes a dispatch that names it, which registers it; or another pane takes
\* a dispatch over.
Dispatch(i) ==
  /\ turn = "busy" /\ route[i] = None
  /\ route' = [route EXCEPT ![i] = last]
  /\ entry' = entry \cup {last}
  /\ UNCHANGED <<record, last, turn, over, blocked, dl, hook, pred, line>>

TakenOver(i) ==
  /\ route[i] \in Sessions
  /\ Apart => \A s \in Sessions : Running(s) => i \notin hook[s].snap
  /\ route' = [route EXCEPT ![i] = Elsewhere]
  /\ UNCHANGED <<record, last, turn, over, blocked, dl, hook, pred, entry, line>>

\* context-renewal-guard.py, at each Stop.
Mine == record.claimant = last
Confirmed == IF Mine THEN [record EXCEPT !.confirmed = TRUE] ELSE record
Exempt == Mine /\ ~record.settled
Allow == turn' = "idle" /\ blocked' = "no"
Block(why) == blocked' = why /\ UNCHANGED turn

Stop ==
  /\ turn = "busy"
  /\ \/ record.st = "pending" /\ record.by = last /\ Allow /\ UNCHANGED record
     \/ ~(record.st = "pending" /\ record.by = last) /\ Allow /\ record' = Confirmed  \* no token count
     \/ /\ ~(record.st = "pending" /\ record.by = last)
        /\ IF ~over THEN Allow /\ record' = [Confirmed EXCEPT !.settled = @ \/ Exempt]
           ELSE IF Exempt
           THEN /\ record' = [Confirmed EXCEPT !.reported = TRUE]
                /\ IF record.reported THEN Allow ELSE Block("report")
           ELSE /\ record' = Confirmed
                /\ IF blocked # "no" THEN Allow ELSE Block("renew")
  /\ UNCHANGED <<last, over, dl, hook, route, pred, entry, line>>

\* A second deliverer that finds the pane's lock taken leaves.
Deliverer == IF dl = "none" THEN "wait" ELSE dl

\* write_record.
Written == [NoRecord EXCEPT !.st = "pending", !.by = last]

\* renew-context.py: the record is written over whatever was there.
Renew ==
  /\ turn = "busy" /\ blocked = "renew" /\ last < MaxSession
  /\ record' = Written
  /\ dl' = Deliverer
  /\ line' = IF last \in line THEN line ELSE {last}
  /\ UNCHANGED <<last, turn, over, blocked, hook, route, pred, entry>>

(***************************************************************************)
(* deliver-renewal.py, and the sessions a clear starts                      *)
(***************************************************************************)
StartsNext ==
  /\ last < MaxSession
  /\ turn = "idle" \/ (turn = "starting" /\ (Overlap \/ ~Running(last)))
  /\ last' = last + 1
  /\ turn' = "starting" /\ over' = FALSE /\ blocked' = "no"
  /\ hook' = [hook EXCEPT ![last + 1].pc = "begin"]
  /\ UNCHANGED <<record, route, pred, entry, line>>

\* A clear of the user's, the start that follows a session which died, or a duplicate of
\* the deliverer's.
Clear == StartsNext /\ UNCHANGED dl

\* The pane is idle: it is cleared, whatever has become of the record.
Deliver == dl = "wait" /\ turn = "idle" /\ StartsNext /\ dl' = "settle"

GiveUp ==
  /\ dl = "wait" /\ (Reliable => record.st # "pending")
  /\ dl' = "none"
  /\ UNCHANGED <<record, last, turn, over, blocked, hook, route, pred, entry, line>>

\* The wait for the cleared pane to settle may time out; then the prompt is queued.
Continue ==
  /\ dl = "settle" /\ (Swift => turn = "idle")
  /\ turn' = IF turn = "idle" THEN "busy" ELSE turn
  /\ dl' = "none"
  /\ UNCHANGED <<record, last, over, blocked, hook, route, pred, entry, line>>

(***************************************************************************)
(* orchestrator-priming.py: the SessionStart hook                           *)
(***************************************************************************)
\* [mutant] only the session that wrote the record may claim it
ClaimableByWriter(r, s) == r.st = "pending" /\ r.by = s

Claimable(r, s) ==
  \/ r.st = "pending" /\ r.by # s
  \/ r.st = "consumed" /\ ~r.confirmed /\ r.claimant # s

\* [mutant] the throwaway claimant that is reclaimed from is forgotten
ConsumedForgets(r, s) == [r EXCEPT !.st = "consumed", !.claimant = s, !.confirmed = FALSE]

\* [mutant] the claim counts as confirmed from the start
ConsumedForGood(r, s) ==
  [r EXCEPT !.st = "consumed", !.claimant = s, !.confirmed = TRUE,
            !.from = IF r.st = "consumed" THEN r.claimant ELSE r.from]

Consumed(r, s) ==
  [r EXCEPT !.st = "consumed", !.claimant = s, !.confirmed = FALSE,
            !.from = IF r.st = "consumed" THEN r.claimant ELSE r.from]

\* The session whose routes adoption looks for.
Continued(r) == IF r.from # None THEN r.from ELSE r.by

Advance(s, pc) == hook' = [hook EXCEPT ![s].pc = pc]

\* The session may take turns once its hook is over.
EndHook(s) ==
  /\ hook' = [hook EXCEPT ![s] = NoHook]
  /\ turn' = IF s = last THEN "idle" ELSE turn

Rest == UNCHANGED <<last, over, blocked, dl>>

HookLooks(s) ==
  /\ hook[s].pc = "begin"
  /\ IF Claimable(record, s)
     THEN hook' = [hook EXCEPT ![s].pc = "consume", ![s].rec = record] /\ UNCHANGED turn
     ELSE EndHook(s)
  /\ Rest /\ UNCHANGED <<record, route, pred, entry, line, ledger>>

HookConsumes(s) ==
  /\ hook[s].pc = "consume"
  /\ record' = Consumed(hook[s].rec, s)
  /\ hook' = [hook EXCEPT ![s] = [NoHook EXCEPT !.pc = "check",
       !.from = Continued(record')]]
  /\ line' = line \cup {s}
  /\ Rest /\ UNCHANGED <<turn, route, pred, entry, ledger>>

\* A role that moves no routes (standalone-worker) returns here and is not modelled.
HookChecks(s) ==
  /\ hook[s].pc = "check"
  /\ \E ok \in Validations : IF ok THEN Advance(s, "read") /\ UNCHANGED turn ELSE EndHook(s)
  /\ Rest /\ UNCHANGED <<record, route, pred, entry, line, ledger>>

\* [mutant] every route is moved, not only those that name the session continued
ReadsAll(s) ==
  /\ hook[s].pc = "read"
  /\ LET found == {i \in Paths : route[i] # None} IN
     hook' = [hook EXCEPT ![s].snap = found, ![s].pc = IF found = {} THEN "lineage" ELSE "move"]
  /\ Rest /\ UNCHANGED <<record, turn, route, pred, entry, line, ledger>>

\* Every instruction is read before the first one is written.
HookReads(s) ==
  /\ hook[s].pc = "read"
  /\ LET found == {i \in Paths : route[i] = hook[s].from} IN
     hook' = [hook EXCEPT ![s].snap = found, ![s].pc = IF found = {} THEN "lineage" ELSE "move"]
  /\ Rest /\ UNCHANGED <<record, turn, route, pred, entry, line, ledger>>

HookMoves(s, i) ==
  /\ hook[s].pc = "move" /\ i \in hook[s].snap
  /\ route' = [route EXCEPT ![i] = s]
  /\ hook' = [hook EXCEPT ![s].snap = @ \ {i},
                          ![s].pc = IF hook[s].snap = {i} THEN "lineage" ELSE "move"]
  /\ Rest /\ UNCHANGED <<record, turn, pred, entry, line, ledger>>

\* [mutant] the lineage names the session that wrote the record, not the one reclaimed from
LineageOfWriter(s) ==
  /\ hook[s].pc = "lineage"
  /\ pred' = [pred EXCEPT ![s] = record.by]
  /\ Advance(s, IF ledger[hook[s].from] = {} THEN "rekey" ELSE "carry")
  /\ Rest /\ UNCHANGED <<record, turn, route, entry, line, ledger>>

HookAppendsLineage(s) ==
  /\ hook[s].pc = "lineage"
  /\ pred' = [pred EXCEPT ![s] = hook[s].from]
  /\ Advance(s, IF ledger[hook[s].from] = {} THEN "rekey" ELSE "carry")
  /\ Rest /\ UNCHANGED <<record, turn, route, entry, line, ledger>>

\* The old ledger is appended to the new one, then removed.
HookCarries(s) ==
  /\ hook[s].pc = "carry"
  /\ ledger' = [ledger EXCEPT ![s] = @ \cup ledger[hook[s].from]]
  /\ Advance(s, "drop")
  /\ Rest /\ UNCHANGED <<record, turn, route, pred, entry, line>>

HookDrops(s) ==
  /\ hook[s].pc = "drop"
  /\ ledger' = [ledger EXCEPT ![hook[s].from] = {}]
  /\ Advance(s, "rekey")
  /\ Rest /\ UNCHANGED <<record, turn, route, pred, entry, line>>

\* The directory record is written under the new session, then the old one is removed.
HookRekeys(s) ==
  /\ hook[s].pc = "rekey"
  /\ entry' = IF hook[s].from \in entry THEN (entry \ {hook[s].from}) \cup {s} ELSE entry
  /\ EndHook(s)
  /\ Rest /\ UNCHANGED <<record, route, pred, line, ledger>>

\* Killed with its session, which takes no turn any more.
HookDies(s) ==
  /\ hook[s].pc \in HookDeaths
  /\ hook' = [hook EXCEPT ![s] = NoHook]
  /\ Rest /\ UNCHANGED <<record, turn, route, pred, entry, line, ledger>>

HookStep(s) ==
  \/ HookLooks(s) \/ HookConsumes(s) \/ HookChecks(s) \/ HookReads(s)
  \/ HookAppendsLineage(s) \/ HookCarries(s) \/ HookDrops(s) \/ HookRekeys(s)
  \/ \E i \in Paths : HookMoves(s, i)

PaneStep ==
  \/ TurnStarts \/ Grows \/ Stop \/ Renew
  \/ Clear \/ Deliver \/ GiveUp \/ Continue
  \/ \E i \in Paths : Dispatch(i) \/ TakenOver(i)

(***************************************************************************)
(* Properties                                                               *)
(***************************************************************************)
\* session_lineage: this session and every session the lineage file says it continues, the
\* least set that has it and loses no predecessor.
KeepsPredecessors(S) == \A t \in S : pred[t] # None => pred[t] \in S
Lineage(s) ==
  {t \in Sessions : \A S \in SUBSET Sessions : s \in S /\ KeepsPredecessors(S) => t \in S}

\* The shapes of the files and of the processes.
Records == [st : {"none", "pending", "consumed"}, by : Sessions \cup {None}, claimant : Sessions \cup {None},
            from : Sessions \cup {None}, confirmed : BOOLEAN, settled : BOOLEAN, reported : BOOLEAN]
TypeOK ==
  /\ record \in Records
  /\ last \in Sessions /\ turn \in {"starting", "idle", "busy"}
  /\ over \in BOOLEAN /\ blocked \in {"no", "renew", "report"}
  /\ dl \in {"none", "wait", "settle"}
  /\ hook \in [Sessions -> [pc : HookPoints \cup {"none"}, rec : Records, from : Sessions \cup {None},
                            snap : SUBSET Paths]]
  /\ route \in [Paths -> Sessions \cup {None, Elsewhere}]
  /\ pred \in [Sessions -> Sessions \cup {None}]
  /\ ledger \in [Sessions -> SUBSET Questions]
  /\ entry \subseteq Sessions
  /\ line \subseteq Sessions

\* Once a renewed session has reached its own Stop, no route is left with a session it
\* continues: adoption moves them, "so routes an abandoned throwaway claim already moved
\* are still found".
RoutesFollow ==
  record.confirmed => \A i \in Paths : route[i] \in line => route[i] = record.claimant

\* adopt_renewed_session: "a record can never hand another pane's or another session's
\* work over".  A route that another pane has taken over stays there.
StaysElsewhere == [][\A i \in Paths : route[i] = Elsewhere => route'[i] = Elsewhere]_route

\* The deliverer never clears a session that nobody will continue: it does not look at
\* the record again, so the record must still be there for the next session to claim.
ClearIsClaimed == [][dl = "wait" /\ dl' = "settle" => Claimable(record, last')]_<<dl, last>>

\* A session that has written its record is cleared and continued.
RequestIsDelivered == record.st = "pending" ~> record.st = "consumed"
=============================================================================
