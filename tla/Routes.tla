------------------------------- MODULE Routes -------------------------------
(***************************************************************************)
(* Who coordinates a dispatch.  Every instruction file carries the route   *)
(* of its main agent (a pane and the conversation in it), every coworker's *)
(* file the root route of its parent's.  A route moves by a handoff        *)
(* (handoff-orchestrator.py asks, accept-orchestrator-handoff.py takes), a *)
(* takeover (take-over-dispatch.py) or an adoption (adopt-dispatch.py).    *)
(*                                                                         *)
(* No file is locked.  A move loads and checks each dispatch, asks herdr   *)
(* whether the new route is live, and only then compares and writes; the   *)
(* commands of other agents run in between.                                *)
(***************************************************************************)
EXTENDS Naturals, Sequences, FiniteSets

CONSTANTS
  Dispatches, Coworkers,
  Parent,          \* the dispatch each coworker works under
  Panes, Source, Receiver,
  Opened,          \* the conversation each pane hosts at the start, Closed for none
  Started,         \* conversations started before the start
  Restless,        \* the panes whose conversation may end
  Takers,          \* the panes whose user asks for takeovers
  Begun,           \* the starts: each dispatch's status and coordinator, the coworkers at work
  MaxEvents,       \* bound: restarts, adoptions, changes of files beside the moves, takeovers of no orphan
  Overlaps,        \* whether other commands write while a move compares and writes
  Kills            \* whether a move may be killed between a dispatch and its coworkers

Closed == 0

ASSUME RoutesAssumption ==
  /\ IsFiniteSet(Dispatches)
  /\ Parent \in [Coworkers -> Dispatches]
  /\ Source \in Panes /\ Receiver \in Panes /\ Source # Receiver /\ Takers \cup Restless \subseteq Panes
  /\ Started \in Nat /\ Opened \in [Panes -> 0..Started]
  /\ Opened[Source] # Closed /\ Opened[Receiver] = Closed
  /\ Begun \subseteq [runs : [Dispatches -> [st : {"pending", "open"}, pane : {p \in Panes : Opened[p] # Closed}]],
                     helped : SUBSET Coworkers]
  /\ MaxEvents \in Nat
  /\ Overlaps \in BOOLEAN /\ Kills \in BOOLEAN

VARIABLES
  inst,     \* the dispatches' instruction files
  cow,      \* the coworkers' instruction files
  at,       \* the conversation each pane hosts
  convs,    \* conversations started so far
  cmd,      \* the accept or takeover each pane is running
  src,      \* the source's handoff-orchestrator.py
  offer,    \* the handoff file: its status and the routes it offers
  spent     \* events so far, of MaxEvents

vars == <<inst, cow, at, convs, cmd, src, offer, spent>>

None   == [st |-> "none"]
NoCmd  == [pc |-> "idle", op |-> "none", todo |-> <<>>, queue |-> <<>>,
           cows |-> [c \in Coworkers |-> None], left |-> {}]
NoSrc  == [pc |-> "none", tries |-> 0, told |-> FALSE, retains |-> FALSE, conv |-> Closed, knew |-> {}]

\* What a command line may list: dispatches in some order, each once.
Lists == {s \in UNION {[1..n -> Dispatches] : n \in 0..Cardinality(Dispatches)} :
            \A i, j \in DOMAIN s : s[i] = s[j] => i = j}
Listed(s) == {s[i] : i \in DOMAIN s}

\* s names its dispatches in the order t does.
InOrderOf(t, s) == \A i, j \in DOMAIN s : i < j =>
  \E k, l \in DOMAIN t : k < l /\ s[i] = t[k] /\ s[j] = t[l]

Route(p)    == [pane |-> p, conv |-> at[p]]
IsOpen(p)   == at[p] # Closed
Live(r)     == at[r.pane] = r.conv
Orphaned(d) == inst[d].st = "open" /\ ~Live(inst[d].route)

Moving(p)   == cmd[p].pc \in {"move", "write", "cascade"}
Halfway(p)  == cmd[p].pc \in {"write", "cascade"}
InHand(p)   == Head(cmd[p].queue)
Asking(c)   == cow[c].st = "asked"
Quiet       == \A p \in Panes : ~Moving(p)

\* A file is written now: beside a move only if that may happen.
MayWrite == Overlaps \/ Quiet

Handing == src.pc \in {"opening", "starting", "look", "window", "won", "leave", "lost"}

\* A coordinator runs one command at a time, its own handoff included.
Free(p) == IsOpen(p) /\ cmd[p] = NoCmd /\ (p = Source => ~Handing)

\* What dies with the conversation in pane p: its command, its handoff.
Mortal(p)  == Kills \/ ~Halfway(p)
Killed(p)  == cmd' = [cmd EXCEPT ![p] = NoCmd]
SourceDies(p) ==
  src' = IF p = Source /\ Handing THEN [src EXCEPT !.pc = "dead"] ELSE src

Init ==
  /\ at = Opened
  /\ convs = Started
  /\ \E b \in Begun :
       /\ inst = [d \in Dispatches |->
            [st |-> b.runs[d].st, route |-> Route(b.runs[d].pane), trail |-> <<>>, repairs |-> 0]]
       /\ cow = [c \in Coworkers |-> IF c \in b.helped
                    THEN [st |-> "open", root |-> inst[Parent[c]].route, late |-> FALSE, repairs |-> 0] ELSE None]
  /\ cmd = [p \in Panes |-> NoCmd]
  /\ src = NoSrc
  /\ offer = [file |-> "none", list |-> <<>>, routes |-> <<>>]
  /\ spent = 0

(***************************************************************************)
(* The life of the files beside the moves                                  *)
(***************************************************************************)
Unmoved == UNCHANGED <<at, convs, cmd, src, offer>>
Event   == spent < MaxEvents /\ spent' = spent + 1
Change  == MayWrite /\ Event /\ Unmoved

\* dispatch-task.py confirm.
Confirm(d) ==
  /\ Change /\ inst[d].st = "pending"
  /\ inst' = [inst EXCEPT ![d].st = "open"]
  /\ UNCHANGED cow

\* wrap-up-task.py archives the instruction.
WrapUp(d) ==
  /\ Change /\ inst[d].st # "gone"
  /\ inst' = [inst EXCEPT ![d].st = "gone"]
  /\ UNCHANGED cow

\* adopt-worker-endpoint.py, rebind-dispatch.py: the live coordinator changes other
\* fields of the file, and compares the whole file before it does.
Repair(d) ==
  /\ Change /\ inst[d].st = "open" /\ Live(inst[d].route)
  /\ inst' = [inst EXCEPT ![d].repairs = @ + 1]
  /\ UNCHANGED cow

\* A coworker's root route is read from its parent and written a few herdr calls later,
\* moved or not by then; `late` keeps that it was.  History, not in the file.
AskCoworker(c) ==
  /\ Change /\ cow[c] = None
  /\ inst[Parent[c]].st = "open"
  /\ \A b \in Coworkers : Parent[b] = Parent[c] => cow[b].st # "open"
  /\ cow' = [cow EXCEPT ![c] = [st |-> "asked", root |-> inst[Parent[c]].route,
                                   late |-> FALSE, repairs |-> 0]]
  /\ UNCHANGED inst

WriteCoworker(c) ==
  /\ MayWrite /\ Asking(c)
  /\ cow' = [cow EXCEPT ![c].st = "open", ![c].late = (cow[c].root # inst[Parent[c]].route)]
  /\ UNCHANGED <<inst, spent>> /\ Unmoved

RepairCoworker(c) ==
  /\ Change /\ cow[c].st = "open"
  /\ cow' = [cow EXCEPT ![c].repairs = @ + 1]
  /\ UNCHANGED inst

WrapUpCoworker(c) ==
  /\ Change /\ cow[c].st = "open"
  /\ cow' = [cow EXCEPT ![c].st = "gone"]
  /\ UNCHANGED inst

Moved(file, how, r) ==
  [file EXCEPT !.route = r, !.trail = Append(@, [how |-> how, before |-> file.route, after |-> r])]

(***************************************************************************)
(* Conversations come and go; adopt-dispatch.py                            *)
(***************************************************************************)
\* A coordinator restarts in its pane: a new conversation, its commands gone.
Restart(p) ==
  /\ p \in Restless /\ IsOpen(p) /\ Mortal(p) /\ Event
  /\ at' = [at EXCEPT ![p] = convs + 1]
  /\ convs' = convs + 1
  /\ Killed(p) /\ SourceDies(p)
  /\ UNCHANGED <<inst, cow, offer>>

\* Its conversation is resumed in a pane opened for it.
Resume(p, q) ==
  /\ p \in Restless /\ IsOpen(p) /\ Mortal(p) /\ Event /\ ~IsOpen(q) /\ Opened[q] = Closed /\ q # Receiver
  /\ at' = [at EXCEPT ![p] = Closed, ![q] = at[p]]
  /\ Killed(p) /\ SourceDies(p)
  /\ UNCHANGED <<inst, cow, convs, offer>>

\* adopt_dispatch, from the recorded pane or by the recorded conversation.  The
\* coworkers' root routes are not part of it.
Adopts(p, r) ==
  \/ r.pane = p /\ r.conv # at[p]
  \/ r.pane # p /\ r.conv = at[p] /\ ~Live(r)

Adopt(p, d) ==
  /\ Change /\ Free(p) /\ inst[d].st = "open"
  /\ Adopts(p, inst[d].route)
  /\ inst' = [inst EXCEPT ![d] = Moved(@, "adopt", Route(p))]
  /\ UNCHANGED cow

(***************************************************************************)
(* handoff-orchestrator.py, in the source pane                             *)
(***************************************************************************)
Untouched == UNCHANGED <<inst, cow, convs, spent>>
SourceGoes(pc) == src' = [src EXCEPT !.pc = pc]

\* Mutant: what the source leaves behind is not looked at.
ListsAny(list) == TRUE

\* offer_dispatches: without --retains every dispatch it coordinates is listed.
ListsAll(list) == \A d \in Dispatches \ Listed(list) :
  ~(inst[d].st = "open" /\ inst[d].route = Route(Source))

Offer(list, retains) ==
  /\ Free(Source) /\ src.pc = "none"
  /\ \A d \in Listed(list) : inst[d].st = "open" /\ inst[d].route = Route(Source)
  /\ retains \/ ListsAll(list)
  /\ src' = [NoSrc EXCEPT !.pc = "opening", !.retains = retains, !.conv = at[Source],
                          !.knew = {d \in Dispatches : inst[d].st = "open"}]
  /\ offer' = [offer EXCEPT !.list = list, !.routes = [d \in Listed(list) |-> inst[d].route]]
  /\ UNCHANGED <<at, cmd>> /\ Untouched

\* create_tab: a new tab with an empty pane.
CreateTab ==
  /\ src.pc = "opening"
  /\ SourceGoes("starting")
  /\ UNCHANGED <<at, cmd, offer>> /\ Untouched

\* start_receiver: an agent in it, whatever name is free; then the file is written.
StartReceiver ==
  /\ src.pc = "starting"
  /\ at' = [at EXCEPT ![Receiver] = convs + 1]
  /\ convs' = convs + 1
  /\ offer' = [offer EXCEPT !.file = "offered"]
  /\ SourceGoes("look")
  /\ UNCHANGED <<inst, cow, cmd, spent>>

\* The tab or its agent fails to start, and is cleared away or left with a record.
OpenFails ==
  /\ src.pc \in {"opening", "starting"}
  /\ \E file \in {"none", "cleanup-failed"} : offer' = [offer EXCEPT !.file = file]
  /\ SourceGoes("done")
  /\ UNCHANGED <<at, cmd>> /\ Untouched

\* wait_for_acceptance: one look at the file.
Accepted == offer.file = "accepted"

Look ==
  /\ src.pc = "look" /\ Accepted
  /\ SourceGoes("won")
  /\ UNCHANGED <<at, cmd, offer>> /\ Untouched

\* Told now, or still at work on the offer it was told of before.
Prompt ==
  /\ src.pc = "look" /\ ~Accepted
  /\ src' = [src EXCEPT !.pc = "window", !.told = TRUE]
  /\ UNCHANGED <<at, cmd, offer>> /\ Untouched

\* Two attempts.
NextTry(told) ==
  src' = [src EXCEPT !.tries = @ + 1, !.told = told, !.pc = IF src.tries = 1 THEN "lost" ELSE "look"]

\* herdr's answer does not say whether the receiver was told.
PromptFails ==
  /\ src.pc = "look" /\ ~Accepted
  /\ \E told \in {src.told, TRUE} : NextTry(told)
  /\ UNCHANGED <<at, cmd, offer>> /\ Untouched

WindowSees ==
  /\ src.pc = "window" /\ Accepted
  /\ SourceGoes("won")
  /\ UNCHANGED <<at, cmd, offer>> /\ Untouched

WindowEnds ==
  /\ src.pc = "window" /\ ~Accepted
  /\ NextTry(src.told)
  /\ UNCHANGED <<at, cmd, offer>> /\ Untouched

Win ==
  /\ src.pc = "won"
  /\ offer' = [offer EXCEPT !.file = "none"]
  /\ SourceGoes(IF src.retains THEN "done" ELSE "leave")
  /\ UNCHANGED <<at, cmd>> /\ Untouched

\* It closes its own pane; or the close fails and it stays.
Leave ==
  /\ src.pc = "leave"
  /\ \/ at' = [at EXCEPT ![Source] = Closed] /\ SourceGoes("left")
     \/ at' = at /\ SourceGoes("done")
  /\ UNCHANGED <<cmd, offer>> /\ Untouched

ReceiverCloses ==
  /\ Mortal(Receiver)
  /\ at' = [at EXCEPT ![Receiver] = Closed]
  /\ Killed(Receiver)

\* close_failed_receiver: the tab goes and the file with it, or the tab stays (its
\* pane perhaps not, its command perhaps interrupted) and the file says so.
Lose ==
  /\ src.pc = "lost"
  /\ SourceGoes("done")
  /\ \/ ReceiverCloses /\ offer' = [offer EXCEPT !.file = "none"]
     \/ ReceiverCloses /\ offer' = [offer EXCEPT !.file = "cleanup-failed"]
     \/ /\ at' = at /\ (cmd' = cmd \/ (Mortal(Receiver) /\ Killed(Receiver)))
        /\ offer' = [offer EXCEPT !.file = "cleanup-failed"]
  /\ Untouched

(***************************************************************************)
(* Moving routes: accept-orchestrator-handoff.py, take-over-dispatch.py    *)
(***************************************************************************)
Beside == UNCHANGED <<at, convs, src>>

\* Mutant: an acceptance refused is recorded all the same.
RecordAnyway(p) ==
  cmd' = [cmd EXCEPT ![p] = IF @.op = "accept" THEN [NoCmd EXCEPT !.op = "accept", !.pc = "record"] ELSE NoCmd]

\* Any error ends the command.
Refuse(p) == cmd' = [cmd EXCEPT ![p] = NoCmd]

\* accept: nothing listed, or all of it wrapped up, needs no move.
StartAccept ==
  /\ Free(Receiver) /\ src.told /\ offer.file = "offered"
  /\ \E there \in Lists :
       /\ Listed(there) = {d \in Listed(offer.list) : inst[d].st # "gone"}
       /\ InOrderOf(offer.list, there)
       /\ cmd' = [cmd EXCEPT ![Receiver] = [NoCmd EXCEPT !.op = "accept", !.todo = there,
                                              !.pc = IF there = <<>> THEN "record" ELSE "load"]]
  /\ UNCHANGED <<inst, cow, offer, spent>> /\ Beside

\* take_over: the user names the dispatches; orphans are not counted.
StartTakeover(p, list) ==
  /\ p \in Takers /\ Free(p) /\ list # <<>> /\ \A d \in Listed(list) : inst[d].st # "gone"
  /\ IF Len(list) = 1 /\ Orphaned(list[1]) THEN UNCHANGED spent ELSE Event
  /\ cmd' = [cmd EXCEPT ![p] = [NoCmd EXCEPT !.op = "takeover", !.todo = list, !.pc = "load"]]
  /\ UNCHANGED <<inst, cow, offer>> /\ Beside

\* Mutant: the offer's snapshot is not compared.
AnyRoute(p, d) == TRUE

\* Mutant: a takeover wants the previous coordinator live.
OfTheLiving(p, d) ==
  IF cmd[p].op = "accept" THEN inst[d].route = offer.routes[d]
  ELSE Live(inst[d].route) /\ inst[d].route # Route(p)

\* An acceptance takes a dispatch only from the route it was offered with, and
\* leaves one alone that is its own already; a takeover takes any but its own.
MayTake(p, d) ==
  IF cmd[p].op = "accept" THEN inst[d].route = offer.routes[d] ELSE inst[d].route # Route(p)

\* A retried acceptance finds dispatches that it has moved before.
Own(p, d) == cmd[p].op = "accept" /\ inst[d].route = Route(p)

Load(p) ==
  /\ cmd[p].pc = "load" /\ cmd[p].todo # <<>>
  /\ LET d == Head(cmd[p].todo)
         next == [cmd EXCEPT ![p].todo = Tail(@)]
     IN  \/ inst[d].st = "open" /\ Own(p, d) /\ cmd' = next
         \/ /\ inst[d].st = "open" /\ ~Own(p, d) /\ MayTake(p, d)
            /\ cmd' = [next EXCEPT ![p].queue = Append(@, [on |-> d, was |-> inst[d]])]
         \/ ~(inst[d].st = "open" /\ (Own(p, d) \/ MayTake(p, d))) /\ Refuse(p)
  /\ UNCHANGED <<inst, cow, offer, spent>> /\ Beside

\* All checked: the new route is proven live, and the coworkers are read, once; or
\* herdr does not answer, or not with this conversation.
Prove(p) ==
  /\ cmd[p].pc = "load" /\ cmd[p].todo = <<>>
  /\ \/ cmd[p].queue = <<>> /\ cmd' = [cmd EXCEPT ![p].pc = "record"]
     \/ cmd[p].queue # <<>> /\ MayWrite /\ cmd' = [cmd EXCEPT ![p].pc = "move", ![p].cows = cow]
     \/ cmd[p].queue # <<>> /\ Refuse(p)
  /\ UNCHANGED <<inst, cow, offer, spent>> /\ Beside

\* Mutant: the file is not compared again before it is written.
AsItIs(p) == TRUE

AsLoaded(p) == inst[InHand(p).on] = InHand(p).was

Compare(p) ==
  /\ cmd[p].pc = "move"
  /\ IF AsLoaded(p) THEN cmd' = [cmd EXCEPT ![p].pc = "write"] ELSE Refuse(p)
  /\ UNCHANGED <<inst, cow, offer, spent>> /\ Beside

\* The dispatch in hand is done: the next one, the record, or the end.
Done(c) ==
  IF Len(c.queue) > 1 THEN [c EXCEPT !.pc = "move", !.queue = Tail(@), !.left = {}]
  ELSE IF c.op = "accept" THEN [NoCmd EXCEPT !.pc = "record", !.op = "accept"] ELSE NoCmd

\* Mutant: coworkers do not follow.
NoCoworkers(p) == {}

\* The coworkers, as they were read, whose root route is the one that moves.
Followers(p) == {c \in Coworkers : LET b == cmd[p].cows[c] IN
  Parent[c] = InHand(p).on /\ b.st = "open" /\ b.root = InHand(p).was.route}

Write(p) ==
  /\ cmd[p].pc = "write"
  /\ inst' = [inst EXCEPT ![InHand(p).on] = Moved(InHand(p).was, cmd[p].op, Route(p))]
  /\ cmd' = [cmd EXCEPT ![p] = IF Followers(p) = {} THEN Done(@)
                               ELSE [@ EXCEPT !.pc = "cascade", !.left = Followers(p)]]
  /\ UNCHANGED <<cow, offer, spent>> /\ Beside

\* Written from the copy, not compared.
Cascade(p, c) ==
  /\ cmd[p].pc = "cascade" /\ c \in cmd[p].left
  /\ cow' = [cow EXCEPT ![c] = [cmd[p].cows[c] EXCEPT !.root = Route(p)]]
  /\ LET left == cmd[p].left \ {c}
     IN  cmd' = [cmd EXCEPT ![p] = IF left = {} THEN Done(@) ELSE [@ EXCEPT !.left = left]]
  /\ UNCHANGED <<inst, offer, spent>> /\ Beside

\* The acceptance is written over whatever the file says by now.
Record(p) ==
  /\ cmd[p].pc = "record"
  /\ offer' = [offer EXCEPT !.file = "accepted"]
  /\ cmd' = [cmd EXCEPT ![p] = NoCmd]
  /\ UNCHANGED <<inst, cow, spent>> /\ Beside

CommandStep(p) ==
  \/ Load(p) \/ Prove(p) \/ Compare(p) \/ Write(p) \/ Record(p)
  \/ \E c \in Coworkers : Cascade(p, c)

SourceStep ==
  \/ CreateTab \/ StartReceiver \/ OpenFails \/ Look \/ Prompt \/ PromptFails
  \/ WindowSees \/ WindowEnds \/ Win \/ Leave \/ Lose

Next ==
  \/ \E d \in Dispatches : Confirm(d) \/ WrapUp(d) \/ Repair(d)
  \/ \E c \in Coworkers : AskCoworker(c) \/ WriteCoworker(c) \/ RepairCoworker(c) \/ WrapUpCoworker(c)
  \/ \E p \in Panes : Restart(p) \/ (\E q \in Panes : Resume(p, q)) \/ (\E d \in Dispatches : Adopt(p, d))
  \/ \E list \in Lists, retains \in BOOLEAN : Offer(list, retains)
  \/ SourceStep
  \/ StartAccept
  \/ \E p \in Panes, list \in Lists : StartTakeover(p, list)
  \/ \E p \in Panes : CommandStep(p)

Spec == Init /\ [][Next]_vars

\* herdr proves the new route live.
Proved(p) == Prove(p) /\ cmd'[p] # NoCmd

\* Commands run to their end, herdr answers a takeover that is tried again and again, a
\* coworker that was asked for is written, and the user has a dispatch without a live
\* coordinator taken over by one that is free.
Rescue(d) == Orphaned(d) /\ \E p \in Panes : StartTakeover(p, <<d>>)

Fairness ==
  /\ \A p \in Panes : WF_vars(CommandStep(p))
  /\ \A p \in Takers : SF_vars(Proved(p))
  /\ \A c \in Coworkers : WF_vars(WriteCoworker(c))
  /\ \A d \in Dispatches : WF_vars(Rescue(d))

FairSpec == Spec /\ Fairness

(***************************************************************************)
(* Properties                                                              *)
(***************************************************************************)
RouteRecs == [pane : Panes, conv : Nat \ {Closed}]
Files == [st : {"pending", "open", "gone"}, route : RouteRecs, repairs : 0..MaxEvents,
          trail : Seq([how : {"accept", "takeover", "adopt"}, before : RouteRecs, after : RouteRecs])]
CoworkerFiles == {None} \cup [st : {"asked", "open", "gone"}, root : RouteRecs, late : BOOLEAN,
                             repairs : 0..MaxEvents]
Commands == [pc : {"idle", "load", "move", "write", "cascade", "record"},
             op : {"none", "accept", "takeover"},
             todo : Seq(Dispatches), queue : Seq([on : Dispatches, was : Files]),
             cows : [Coworkers -> CoworkerFiles], left : SUBSET Coworkers]

\* The shapes of the files and commands; a move in hand has a dispatch that it read
\* while it was open.
TypeOK ==
  /\ inst \in [Dispatches -> Files]
  /\ cow \in [Coworkers -> CoworkerFiles]
  /\ at \in [Panes -> 0..convs] /\ convs \in Nat
  /\ cmd \in [Panes -> Commands]
  /\ src \in [pc : {"none", "opening", "starting", "look", "window", "won", "leave", "left", "lost", "done", "dead"},
              tries : 0..2, told : BOOLEAN, retains : BOOLEAN, conv : Nat, knew : SUBSET Dispatches]
  /\ offer.file \in {"none", "offered", "accepted", "cleanup-failed"}
  /\ spent \in 0..MaxEvents
  /\ \A p \in Panes : Moving(p) => cmd[p].queue # <<>> /\ InHand(p).was.st = "open"

Prefix(s, t) == Len(s) <= Len(t) /\ SubSeq(t, 1, Len(s)) = s
Kept(f, g)   == g.repairs >= f.repairs /\ (f.st = "gone" => g.st = "gone")

\* move_main_routes, "re-read before write": no command writes a file back to what it
\* was.  Every transfer, adoption and repair stays on record, and what was wrapped up
\* is not there again.
NothingUndone == [][
  /\ \A d \in Dispatches : Kept(inst[d], inst'[d]) /\ Prefix(inst[d].trail, inst'[d].trail)
  /\ \A c \in Coworkers : cow[c].st \in {"open", "gone"} => Kept(cow[c], cow'[c])]_vars

\* The offer's snapshot: an acceptance moves a dispatch from the route its source
\* offered and from no other; what somebody else took over since stays there.
TakenStaysTaken == [][\A d \in Dispatches :
  inst'[d].trail # inst[d].trail /\ inst'[d].trail[Len(inst'[d].trail)].how = "accept"
    => inst[d].route = offer.routes[d]]_vars

Steps(d) == {inst[d].trail[i] : i \in 1..Len(inst[d].trail)}

\* accept: the file says accepted only when every dispatch it offers was moved to the
\* receiver at some time, or is wrapped up.
AcceptedMeansMoved == Accepted =>
  \A d \in DOMAIN offer.routes : inst[d].st = "gone" \/ \E s \in Steps(d) : s.after.pane = Receiver

\* offer_dispatches: a source that closes its pane after the handoff leaves no dispatch
\* behind that was under way when it offered and still answers to that conversation.
HandedOverWhole == src.pc = "left" =>
  \A d \in src.knew : inst[d].st = "open" => inst[d].route # [pane |-> Source, conv |-> src.conv]

\* "Carries a coworker's root route along with its parent": outside a move's own
\* dispatch, a coworker's root route is its parent's main route, if it was when the
\* coworker's file was written.  adopt-dispatch.py does not carry it, so a parent that
\* was adopted is left out.
CoworkersFollow == \A c \in Coworkers : LET d == Parent[c] IN
  cow[c].st = "open" /\ ~cow[c].late /\ inst[d].st = "open" /\ (\A s \in Steps(d) : s.how # "adopt")
    /\ (\A p \in Panes : Halfway(p) => InHand(p).on # d)
    => cow[c].root = inst[d].route

\* A source that times out while its receiver is accepting, a killed command, a restart:
\* whatever happened, a dispatch without a live coordinator gets one by a takeover.
TakeoverRecovers == \A d \in Dispatches : Orphaned(d) ~> ~Orphaned(d)
=============================================================================
