---------------------------- MODULE RoutesProofs ----------------------------
(***************************************************************************)
(* Theorems about Routes, for every set of dispatches, coworkers and panes *)
(* and every number of events.                                             *)
(***************************************************************************)
EXTENDS Routes, SequenceTheorems, FiniteSetTheorems, TLAPS

NoRepeats(s) == \A i, j \in DOMAIN s : s[i] = s[j] => i = j

\* What a file is worth writing back: open, and of no more repairs than there were.
Copies(p) == \A i \in DOMAIN cmd[p].queue :
  cmd[p].queue[i].was.st = "open" /\ cmd[p].queue[i].was.repairs <= spent

\* A command dies with its conversation, and between commands nothing is kept.
AtHome ==
  /\ \A p \in Panes : cmd[p] # NoCmd => IsOpen(p)
  /\ \A p \in Panes : cmd[p].pc = "idle" => cmd[p] = NoCmd
  /\ \A p \in Panes : Moving(p) => cmd[p].queue # <<>>
  /\ \A p \in Panes : Copies(p)
  /\ \A p \in Panes : cmd[p] # NoCmd => cmd[p].op # "none"
  /\ \A p \in Panes : cmd[p].left # {} => cmd[p].pc = "cascade"
  /\ \A p \in Panes : \A c \in cmd[p].left : cmd[p].cows[c].st = "open"

\* A file is repaired once an event.
Counted ==
  /\ \A d \in Dispatches : inst[d].repairs <= spent
  /\ \A c \in Coworkers : cow[c] # None => cow[c].repairs <= spent
  /\ \A p \in Panes, c \in Coworkers : cmd[p].cows[c] # None => cmd[p].cows[c].repairs <= spent

OfferOK ==
  /\ offer = [file |-> offer.file, list |-> offer.list, routes |-> offer.routes]
  /\ offer.list \in Seq(Dispatches) /\ NoRepeats(offer.list)
  /\ DOMAIN offer.routes = Listed(offer.list)
  /\ src.pc \in {"opening", "starting", "look", "window"} => src.tries <= 1

\* The source runs nothing beside its own handoff, and once gone it is gone for good.
Bound == Handing \/ src.pc = "left"
SourceBusy ==
  /\ Handing => IsOpen(Source) /\ at[Source] = src.conv
  /\ Bound => cmd[Source] = NoCmd
  /\ src.pc = "left" => ~IsOpen(Source)

TypeInv == TypeOK /\ OfferOK /\ Counted /\ AtHome /\ SourceBusy

\* Nothing is accepted before the receiver's tab is there.
Early ==
  src.pc \in {"none", "opening", "starting"} =>
    /\ at[Receiver] = Closed
    /\ offer.file = "none"
Accepting == \A p \in Panes :
  /\ cmd[p].op = "accept" => p = Receiver /\ src.pc \notin {"none", "opening", "starting"}
  /\ cmd[p].pc = "record" => cmd[p].op = "accept" /\ cmd[p].todo = <<>> /\ cmd[p].queue = <<>>
  /\ Moving(p) => cmd[p].todo = <<>>
  /\ cmd[p].op = "takeover" /\ cmd[p].pc = "load" => cmd[p].todo # <<>> \/ cmd[p].queue # <<>>

\* The dispatch is one that a command has still to move.
Due(n, d) ==
  \/ \E i \in DOMAIN n.todo : n.todo[i] = d
  \/ \E i \in DOMAIN n.queue : n.queue[i].on = d /\ (n.pc = "cascade" => i # 1)
Ahead(p, d) == Due(cmd[p], d)

\* A dispatch the source would leave behind.
Behind(d) == inst[d].st # "gone" /\ inst[d].route = [pane |-> Source, conv |-> src.conv]

WholeInv ==
  /\ src.pc \in {"leave", "left"} => ~src.retains
  /\ Bound /\ ~src.retains => \A d \in src.knew : Behind(d) => d \in DOMAIN offer.routes
  /\ Bound /\ cmd[Receiver].op = "accept" =>
       \A d \in DOMAIN offer.routes : Behind(d) => Ahead(Receiver, d)
  /\ Bound /\ (Accepted \/ src.pc \in {"won", "leave", "left"}) =>
       \A d \in DOMAIN offer.routes : ~Behind(d)

\* One move at a time, and what it holds is what the files say.
SerialInv ==
  /\ \A p, q \in Panes : Moving(p) /\ Moving(q) => p = q
  /\ \A p \in Panes : cmd[p].pc = "write" => AsLoaded(p)
  /\ \A p \in Panes, c \in Coworkers : Moving(p) /\ cmd[p].cows[c].st = "open" =>
       cow[c].st = "open" /\ cow[c].repairs = cmd[p].cows[c].repairs /\ cow[c].late = cmd[p].cows[c].late

OfferedInv == \A p \in Panes : cmd[p].op = "accept" =>
  \A i \in DOMAIN cmd[p].queue : cmd[p].queue[i].was.route = offer.routes[cmd[p].queue[i].on]

Reached(d) == inst[d].st = "gone" \/ \E s \in Steps(d) : s.after.pane = Receiver

AcceptInv ==
  /\ \A d \in Dispatches : inst[d].route.pane = Receiver => Reached(d)
  /\ cmd[Receiver].op = "accept" => \A d \in DOMAIN offer.routes : Reached(d) \/ Ahead(Receiver, d)
  /\ Accepted => \A d \in DOMAIN offer.routes : Reached(d)

Adopted(d) == \E s \in Steps(d) : s.how = "adopt"
\* A coworker whose file was written while its parent's route was still the one it has.
Alive(c) == cow[c].st = "open" /\ ~cow[c].late

\* The dispatches of a move, each once.
Single(n) ==
  /\ NoRepeats(n.todo)
  /\ \A i, j \in DOMAIN n.queue : n.queue[i].on = n.queue[j].on => i = j
  /\ \A i \in DOMAIN n.queue, j \in DOMAIN n.todo : n.queue[i].on # n.todo[j]
OnceInv == \A p \in Panes : Single(cmd[p])

\* Those that follow the dispatch in hand are its own, and the coworkers of the
\* dispatches to come are as they were read.
ReadInv == \A p \in Panes : Moving(p) =>
  /\ \A c \in cmd[p].left : Parent[c] = InHand(p).on
  /\ \A c \in Coworkers : Ahead(p, Parent[c]) => cmd[p].cows[c] = cow[c]

Carrying(p) == cmd[p].pc = "cascade" =>
  LET d == InHand(p).on IN
  /\ inst[d].route = Route(p)
  /\ \A c \in Coworkers : Parent[c] = d /\ Alive(c) /\ c \notin cmd[p].left /\ ~Adopted(d)
       => cow[c].root = Route(p)

FollowInv ==
  /\ \A p \in Panes : Carrying(p)
  /\ \A c \in Coworkers : Alive(c) /\ ~Adopted(Parent[c])
       /\ (\A p \in Panes : cmd[p].pc = "cascade" => InHand(p).on # Parent[c])
       => cow[c].root = inst[Parent[c]].route

(***************************************************************************)
(* Types                                                                   *)
(***************************************************************************)
USE RoutesAssumption

Jobs == [on : Dispatches, was : Files]

LEMMA Queues ==
  /\ \A c \in Commands : c.queue \in Seq(Jobs) /\ c.todo \in Seq(Dispatches)
  /\ \A j \in Jobs : j.on \in Dispatches /\ j.was \in Files
  BY DEF Commands, Jobs

LEMMA IdleCommand == NoCmd \in Commands /\ NoCmd.pc = "idle" /\ NoCmd.queue = <<>>
  BY EmptySeq DEF NoCmd, Commands, CoworkerFiles

LEMMA OpenRoute ==
  ASSUME TypeOK, NEW p \in Panes, IsOpen(p)
  PROVE  Route(p) \in RouteRecs
  BY DEF TypeOK, Route, IsOpen, RouteRecs

LEMMA First ==
  ASSUME NEW S, NEW s \in Seq(S), s # <<>>
  PROVE  /\ Len(s) >= 1 /\ 1 \in DOMAIN s /\ Head(s) = s[1] /\ s[1] \in S
         /\ Tail(s) \in Seq(S) /\ Len(Tail(s)) = Len(s) - 1
         /\ \A i \in DOMAIN Tail(s) : i + 1 \in DOMAIN s /\ i \in DOMAIN s /\ Tail(s)[i] = s[i + 1]
         /\ \A i \in DOMAIN s : s[i] \in S /\ (i # 1 => i - 1 \in DOMAIN Tail(s) /\ s[i] = Tail(s)[i - 1])
         /\ Len(s) > 1 <=> Tail(s) # <<>>
  <1>1. /\ Len(s) \in Nat /\ Len(s) >= 1 /\ DOMAIN s = 1..Len(s) /\ \A i \in 1..Len(s) : s[i] \in S
    BY EmptySeq, LenProperties, ElementOfSeq
  <1>2. /\ Head(s) = s[1] /\ Tail(s) \in Seq(S) /\ Len(Tail(s)) = Len(s) - 1
        /\ \A i \in 1..Len(Tail(s)) : Tail(s)[i] = s[i + 1]
    BY HeadTailProperties
  <1>3. DOMAIN Tail(s) = 1..Len(Tail(s)) /\ (Tail(s) = <<>> <=> Len(Tail(s)) = 0)
    BY <1>2, EmptySeq, LenProperties
  <1> QED
    BY <1>1, <1>2, <1>3

LEMMA Longer ==
  ASSUME NEW S, NEW s \in Seq(S), NEW e \in S
  PROVE  /\ Append(s, e) \in Seq(S) /\ Append(s, e) # <<>>
         /\ Len(Append(s, e)) = Len(s) + 1
         /\ DOMAIN Append(s, e) = DOMAIN s \cup {Len(s) + 1}
         /\ \A i \in DOMAIN s : Append(s, e)[i] = s[i]
         /\ Len(s) + 1 \notin DOMAIN s
         /\ Append(s, e)[Len(s) + 1] = e
  BY AppendProperties

LEMMA MovedFile ==
  ASSUME NEW f \in Files, NEW r \in RouteRecs, NEW how \in {"accept", "takeover", "adopt"}
  PROVE  /\ Moved(f, how, r) \in Files
         /\ Moved(f, how, r).st = f.st /\ Moved(f, how, r).repairs = f.repairs
         /\ Moved(f, how, r).route = r
         /\ Moved(f, how, r).trail = Append(f.trail, [how |-> how, before |-> f.route, after |-> r])
  <1> DEFINE step == [how |-> how, before |-> f.route, after |-> r]
             Step == [how : {"accept", "takeover", "adopt"}, before : RouteRecs, after : RouteRecs]
  <1>1. f.trail \in Seq(Step) /\ step \in Step
    BY DEF Files
  <1> HIDE DEF Step, step
  <1>2. Append(f.trail, step) \in Seq(Step)
    BY <1>1
  <1>3. Moved(f, how, r) = [f EXCEPT !.route = r, !.trail = Append(f.trail, step)]
    BY DEF Moved, step
  <1> QED
    BY <1>2, <1>3 DEF Files, Step, step

LEMMA InHandOpen ==
  ASSUME TypeInv, NEW p \in Panes, Moving(p)
  PROVE  /\ cmd[p].queue # <<>> /\ 1 \in DOMAIN cmd[p].queue
         /\ InHand(p) = cmd[p].queue[1]
         /\ InHand(p) \in Jobs
         /\ InHand(p).was.st = "open" /\ InHand(p).was.repairs <= spent
  <1>1. cmd[p].queue \in Seq(Jobs) /\ cmd[p].queue # <<>>
    BY Queues DEF TypeInv, TypeOK, AtHome
  <1>2. 1 \in DOMAIN cmd[p].queue /\ InHand(p) = cmd[p].queue[1]
        /\ InHand(p) \in Jobs
    BY <1>1, First DEF InHand
  <1> QED
    BY <1>1, <1>2 DEF TypeInv, AtHome, Copies

LEMMA DoneCommand ==
  ASSUME NEW c \in Commands, c.queue # <<>>
  PROVE  /\ Done(c) \in Commands
         /\ Done(c).pc = "idle" => Done(c) = NoCmd
         /\ Done(c).pc \in {"move", "record", "idle"}
         /\ Done(c).left = {}
         /\ Done(c).pc = "move" => /\ Len(c.queue) > 1 /\ Done(c).queue = Tail(c.queue) /\ Tail(c.queue) # <<>>
                                   /\ Done(c).op = c.op /\ Done(c).todo = c.todo /\ Done(c).cows = c.cows
         /\ Done(c).pc # "move" => Done(c).queue = <<>> /\ Done(c).todo = <<>>
                                   /\ Done(c).cows = NoCmd.cows /\ Len(c.queue) = 1
         /\ Done(c).pc = "record" => c.op = "accept" /\ Done(c).op = "accept"
         /\ Done(c).op \in {c.op, "none"}
  <1>1. /\ c.queue \in Seq(Jobs) /\ Tail(c.queue) \in Seq(Jobs)
        /\ Len(c.queue) \in Nat /\ Len(c.queue) >= 1
        /\ Len(c.queue) > 1 <=> Tail(c.queue) # <<>>
    BY First, Queues
  <1>5. Len(c.queue) > 1 \/ Len(c.queue) = 1
    <2> DEFINE n == Len(c.queue)
    <2>1. n \in Nat /\ n >= 1
      BY <1>1
    <2> HIDE DEF n
    <2>2. n > 1 \/ n = 1
      BY <2>1
    <2> QED
      BY <2>2 DEF n
  <1>2. CASE Len(c.queue) > 1
    <2>1. Done(c) = [c EXCEPT !.pc = "move", !.queue = Tail(@), !.left = {}]
      BY <1>2 DEF Done
    <2> QED
      BY <1>1, <1>2, <2>1 DEF Commands, Jobs
  <1>3. CASE ~(Len(c.queue) > 1) /\ c.op = "accept"
    <2>1. Done(c) = [NoCmd EXCEPT !.pc = "record", !.op = "accept"]
      BY <1>3 DEF Done
    <2>2. Done(c) \in Commands
      BY <2>1, IdleCommand DEF Commands
    <2> QED
      <3>1. Len(c.queue) = 1
        BY <1>5, <1>3
      <3> QED
        BY <1>3, <2>1, <2>2, <3>1 DEF NoCmd
  <1>4. CASE ~(Len(c.queue) > 1) /\ c.op # "accept"
    <2>1. Done(c) = NoCmd
      BY <1>4 DEF Done
    <2> QED
      <3>1. Len(c.queue) = 1
        BY <1>5, <1>4
      <3> QED
        BY <2>1, <3>1, IdleCommand DEF NoCmd
  <1> QED
    BY <1>2, <1>3, <1>4

\* The files change and nothing else.
LEMMA FilesType ==
  ASSUME TypeInv, Unmoved,
         inst' \in [Dispatches -> Files], cow' \in [Coworkers -> CoworkerFiles],
         spent' \in spent..MaxEvents,
         \A d \in Dispatches : inst'[d].repairs <= spent',
         \A c \in Coworkers : cow'[c] # None => cow'[c].repairs <= spent'
  PROVE  TypeInv'
  <1> USE DEF TypeInv, Unmoved
  <1>1. spent \in Nat /\ spent' \in Nat /\ spent <= spent'
    BY DEF TypeOK
  <1>2. \A p \in Panes : Copies(p)'
    <2> SUFFICES ASSUME NEW p \in Panes, NEW i \in DOMAIN cmd[p].queue
                 PROVE  cmd[p].queue[i].was.st = "open" /\ cmd[p].queue[i].was.repairs <= spent'
      BY DEF Copies
    <2>1. cmd[p].queue \in Seq(Jobs)
      BY Queues DEF TypeOK
    <2>5. cmd[p].queue[i] \in Jobs
      BY <2>1, ElementOfSeq, LenProperties
    <2>2. cmd[p].queue[i].was.st = "open" /\ cmd[p].queue[i].was.repairs <= spent
      BY DEF AtHome, Copies
    <2>3. cmd[p].queue[i].was.repairs \in Int
      BY <2>5 DEF Files, Jobs
    <2> QED
      BY <1>1, <2>2, <2>3
  <1>3. Counted'
    <2> SUFFICES ASSUME NEW p \in Panes, NEW c \in Coworkers, cmd[p].cows[c] # None
                 PROVE  cmd[p].cows[c].repairs <= spent'
      BY DEF Counted
    <2>1. cmd[p].cows[c] \in CoworkerFiles
      BY DEF TypeOK, Commands
    <2> QED
      BY <1>1, <2>1 DEF Counted, CoworkerFiles
  <1>4. AtHome'
    BY <1>2 DEF AtHome, IsOpen, Moving
  <1>5. OfferOK'
    BY DEF OfferOK, Listed
  <1>6. TypeOK'
    <2>1. \A p \in Panes : Moving(p)' => cmd'[p].queue # <<>> /\ (InHand(p).was.st = "open")'
      BY InHandOpen DEF Moving, InHand
    <2> QED
      BY <2>1, <1>1 DEF TypeOK
  <1>7. SourceBusy'
    BY DEF SourceBusy, Bound, Handing, IsOpen
  <1> QED
    BY <1>3, <1>4, <1>5, <1>6, <1>7

LEMMA InitType == Init => TypeInv
  <1> SUFFICES ASSUME Init PROVE TypeInv
    OBVIOUS
  <1>1. PICK b \in Begun :
          /\ inst = [d \in Dispatches |->
               [st |-> b.runs[d].st, route |-> Route(b.runs[d].pane), trail |-> <<>>, repairs |-> 0]]
          /\ cow = [c \in Coworkers |-> IF c \in b.helped
                       THEN [st |-> "open", root |-> inst[Parent[c]].route, late |-> FALSE, repairs |-> 0] ELSE None]
    BY DEF Init
  <1>2. b.runs \in [Dispatches -> [st : {"pending", "open"}, pane : {p \in Panes : Opened[p] # Closed}]]
    OBVIOUS
  <1>3. at = Opened /\ convs = Started /\ spent = 0 /\ src = NoSrc /\ cmd = [p \in Panes |-> NoCmd]
        /\ offer = [file |-> "none", list |-> <<>>, routes |-> <<>>]
    BY DEF Init
  <1>4. \A d \in Dispatches : Route(b.runs[d].pane) \in RouteRecs
    BY <1>2, <1>3 DEF Route, RouteRecs
  <1>5. inst \in [Dispatches -> Files]
    <2> DEFINE Step == [how : {"accept", "takeover", "adopt"}, before : RouteRecs, after : RouteRecs]
    <2>1. <<>> \in Seq(Step)
      BY EmptySeq
    <2> QED
      BY <1>1, <1>2, <1>4, <2>1 DEF Files
  <1>6. cow \in [Coworkers -> CoworkerFiles]
    <2>1. \A c \in Coworkers : inst[Parent[c]].route \in RouteRecs
      BY <1>5 DEF Files
    <2>2. \A c \in Coworkers : cow[c] \in CoworkerFiles
      <3> SUFFICES ASSUME NEW c \in Coworkers PROVE cow[c] \in CoworkerFiles
        OBVIOUS
      <3>1. \A r \in RouteRecs : [st |-> "open", root |-> r, late |-> FALSE, repairs |-> 0] \in CoworkerFiles
        BY DEF CoworkerFiles
      <3>2. None \in CoworkerFiles
        BY DEF CoworkerFiles
      <3>3. cow[c] \in {[st |-> "open", root |-> inst[Parent[c]].route, late |-> FALSE, repairs |-> 0], None}
        BY <1>1
      <3> QED
        BY <2>1, <3>1, <3>2, <3>3
    <2> QED
      BY <1>1, <2>2
  <1>7. TypeOK
    BY <1>3, <1>5, <1>6, IdleCommand DEF TypeOK, NoSrc, Moving
  <1>8. OfferOK
    <2>1. <<>> \in Seq(Dispatches) /\ DOMAIN <<>> = {}
      BY EmptySeq
    <2>2. DOMAIN offer.routes = {} /\ Listed(offer.list) = {} /\ NoRepeats(offer.list)
      BY <1>3, <2>1 DEF Listed, NoRepeats
    <2> QED
      BY <1>3, <2>1, <2>2 DEF OfferOK, NoSrc
  <1>9. Counted
    BY <1>1, <1>3 DEF Counted, NoCmd, None
  <1>10. AtHome
    <2>1. \A p \in Panes : cmd[p] = NoCmd
      BY <1>3
    <2>2. \A p \in Panes : cmd[p].pc = "idle" /\ DOMAIN cmd[p].queue = {} /\ cmd[p].left = {}
      BY <2>1, IdleCommand, EmptySeq DEF NoCmd
    <2> QED
      BY <2>1, <2>2 DEF AtHome, Moving, Copies
  <1>11. SourceBusy
    BY <1>3 DEF SourceBusy, Bound, Handing, NoSrc
  <1> QED
    BY <1>7, <1>8, <1>9, <1>10, <1>11 DEF TypeInv

SourceStates == [pc : {"none", "opening", "starting", "look", "window", "won", "leave", "left", "lost", "done", "dead"},
                 tries : 0..2, told : BOOLEAN, retains : BOOLEAN, conv : Nat, knew : SUBSET Dispatches]

\* Conversations, the source and the offer change; commands are at most killed.
LEMMA SourceType ==
  ASSUME TypeInv, UNCHANGED <<inst, cow>>, spent' \in spent..MaxEvents,
         convs' \in Nat, at' \in [Panes -> 0..convs'],
         cmd' \in [Panes -> Commands],
         \A p \in Panes : (cmd'[p] = cmd[p] /\ (cmd[p] # NoCmd => at'[p] # Closed)) \/ cmd'[p] = NoCmd,
         src' \in SourceStates, OfferOK', SourceBusy',
         offer'.file \in {"none", "offered", "accepted", "cleanup-failed"}
  PROVE  TypeInv'
  <1> USE DEF TypeInv
  <1>1. spent \in Nat /\ spent' \in Nat /\ spent <= spent'
    BY DEF TypeOK
  <1>2. \A p \in Panes : Copies(p)'
    <2> SUFFICES ASSUME NEW p \in Panes, NEW i \in DOMAIN cmd'[p].queue
                 PROVE  cmd'[p].queue[i].was.st = "open" /\ cmd'[p].queue[i].was.repairs <= spent'
      BY DEF Copies
    <2>0. cmd'[p] = cmd[p]
      BY IdleCommand, EmptySeq
    <2>1. cmd[p].queue \in Seq(Jobs)
      BY Queues DEF TypeOK
    <2>2. cmd[p].queue[i] \in Jobs
      BY <2>0, <2>1, ElementOfSeq, LenProperties
    <2>3. cmd[p].queue[i].was.st = "open" /\ cmd[p].queue[i].was.repairs <= spent
      BY <2>0 DEF AtHome, Copies
    <2>4. cmd[p].queue[i].was.repairs \in Int
      BY <2>2 DEF Files, Jobs
    <2> QED
      BY <1>1, <2>0, <2>3, <2>4
  <1>3. Counted'
    <2>1. \A d \in Dispatches : inst'[d].repairs <= spent'
      BY <1>1 DEF Counted, TypeOK, Files
    <2>2. \A c \in Coworkers : cow'[c] # None => cow'[c].repairs <= spent'
      BY <1>1 DEF Counted, TypeOK, CoworkerFiles
    <2>3. ASSUME NEW p \in Panes, NEW c \in Coworkers, cmd'[p].cows[c] # None
          PROVE  cmd'[p].cows[c].repairs <= spent'
      <3>1. cmd'[p] = cmd[p]
        BY <2>3 DEF NoCmd
      <3>2. cmd[p].cows[c] \in CoworkerFiles
        BY DEF TypeOK, Commands
      <3> QED
        BY <1>1, <2>3, <3>1, <3>2 DEF Counted, CoworkerFiles
    <2> QED
      BY <2>1, <2>2, <2>3 DEF Counted
  <1>4. AtHome'
    <2>1. \A p \in Panes : cmd'[p].pc = "idle" => cmd'[p] = NoCmd
      BY DEF AtHome
    <2>2. \A p \in Panes : Moving(p)' => cmd'[p].queue # <<>>
      BY IdleCommand DEF AtHome, Moving
    <2>3. \A p \in Panes : cmd'[p] # NoCmd => cmd'[p].op # "none"
      BY DEF AtHome
    <2>4. \A p \in Panes : \A c \in cmd'[p].left : cmd'[p].cows[c].st = "open"
      BY DEF AtHome, NoCmd
    <2>5. \A p \in Panes : cmd'[p].left # {} => cmd'[p].pc = "cascade"
      BY DEF AtHome, NoCmd
    <2> QED
      BY <1>2, <2>1, <2>2, <2>3, <2>4, <2>5 DEF AtHome, IsOpen
  <1>6. TypeOK'
    <2>1. ASSUME NEW p \in Panes, Moving(p)'
          PROVE  cmd'[p].queue # <<>> /\ (InHand(p).was.st = "open")'
      <3>1. cmd'[p] = cmd[p] /\ Moving(p)
        BY <2>1, IdleCommand DEF Moving
      <3> QED
        BY <3>1, InHandOpen DEF InHand
    <2> QED
      BY <2>1, <1>1 DEF TypeOK, SourceStates
  <1> QED
    BY <1>3, <1>4, <1>6

\* What holds of a command in its own right.
Sound(n) ==
  /\ n \in Commands
  /\ n.pc = "idle" => n = NoCmd
  /\ n.pc \in {"move", "write", "cascade"} => n.queue # <<>>
  /\ n # NoCmd => n.op # "none"
  /\ n.left # {} => n.pc = "cascade"
  /\ \A c \in n.left : n.cows[c].st = "open"
  /\ \A i \in DOMAIN n.queue : n.queue[i].was.st = "open" /\ n.queue[i].was.repairs <= spent
  /\ \A c \in Coworkers : n.cows[c] # None => n.cows[c].repairs <= spent

LEMMA SoundNone == Sound(NoCmd)
  <1>1. NoCmd \in Commands /\ DOMAIN NoCmd.queue = {}
    BY IdleCommand, EmptySeq
  <1>2. NoCmd.pc = "idle" /\ NoCmd.left = {} /\ \A c \in Coworkers : NoCmd.cows[c] = None
    BY DEF NoCmd
  <1> QED
    BY <1>1, <1>2 DEF Sound

LEMMA SoundCommands ==
  ASSUME TypeInv, NEW p \in Panes
  PROVE  Sound(cmd[p])
  BY DEF TypeInv, TypeOK, AtHome, Copies, Counted, Moving, Sound

\* One command takes a step in its pane.
LEMMA CommandType ==
  ASSUME TypeInv, NEW p \in Panes, NEW n, Sound(n), cmd' = [cmd EXCEPT ![p] = n],
         IsOpen(p), p = Source => ~Bound,
         UNCHANGED <<at, convs, src>>, spent' \in spent..MaxEvents,
         inst' \in [Dispatches -> Files], cow' \in [Coworkers -> CoworkerFiles],
         \A d \in Dispatches : inst'[d].repairs <= spent',
         \A c \in Coworkers : cow'[c] # None => cow'[c].repairs <= spent',
         \E file \in {offer.file, "accepted"} : offer' = [offer EXCEPT !.file = file]
  PROVE  TypeInv'
  <1> USE DEF TypeInv, Sound
  <1>1. spent \in Nat /\ spent' \in Nat /\ spent <= spent'
    BY DEF TypeOK
  <1>2. cmd' \in [Panes -> Commands] /\ cmd'[p] = n /\ \A q \in Panes \ {p} : cmd'[q] = cmd[q]
    BY DEF TypeOK
  <1>3. \A q \in Panes : Copies(q)'
    <2> SUFFICES ASSUME NEW q \in Panes, NEW i \in DOMAIN cmd'[q].queue
                 PROVE  cmd'[q].queue[i].was.st = "open" /\ cmd'[q].queue[i].was.repairs <= spent'
      BY DEF Copies
    <2>1. cmd'[q].queue[i].was.st = "open" /\ cmd'[q].queue[i].was.repairs <= spent
      BY <1>2 DEF AtHome, Copies
    <2>2. cmd'[q].queue \in Seq(Jobs)
      BY <1>2, Queues
    <2>3. cmd'[q].queue[i] \in Jobs
      BY <2>2, ElementOfSeq, LenProperties
    <2>4. cmd'[q].queue[i].was.repairs \in Int
      BY <2>3 DEF Files, Jobs
    <2> QED
      BY <1>1, <2>1, <2>4
  <1>4. Counted'
    <2>1. ASSUME NEW q \in Panes, NEW c \in Coworkers, cmd'[q].cows[c] # None
          PROVE  cmd'[q].cows[c].repairs <= spent'
      <3>1. cmd'[q].cows[c] \in CoworkerFiles
        BY <1>2 DEF Commands
      <3>2. cmd'[q].cows[c].repairs <= spent
        BY <1>2, <2>1 DEF Counted
      <3> QED
        BY <1>1, <2>1, <3>1, <3>2 DEF CoworkerFiles
    <2> QED
      BY <2>1 DEF Counted
  <1>5. AtHome'
    <2>1. \A q \in Panes : cmd'[q] # NoCmd => at'[q] # Closed
      BY <1>2 DEF AtHome, IsOpen
    <2>2. \A q \in Panes : cmd'[q].pc = "idle" => cmd'[q] = NoCmd
      BY <1>2 DEF AtHome
    <2>3. \A q \in Panes : Moving(q)' => cmd'[q].queue # <<>>
      BY <1>2 DEF AtHome, Moving
    <2>4. \A q \in Panes : cmd'[q] # NoCmd => cmd'[q].op # "none"
      BY <1>2 DEF AtHome
    <2>5. \A q \in Panes : \A c \in cmd'[q].left : cmd'[q].cows[c].st = "open"
      BY <1>2 DEF AtHome
    <2>6. \A q \in Panes : cmd'[q].left # {} => cmd'[q].pc = "cascade"
      BY <1>2 DEF AtHome
    <2> QED
      BY <1>3, <2>1, <2>2, <2>3, <2>4, <2>5, <2>6 DEF AtHome, IsOpen
  <1>6. OfferOK'
    <2>1. offer'.list = offer.list /\ offer'.routes = offer.routes
          /\ offer' = [file |-> offer'.file, list |-> offer'.list, routes |-> offer'.routes]
      BY DEF OfferOK
    <2> QED
      BY <2>1 DEF OfferOK, Listed
  <1>7. SourceBusy'
    BY <1>2 DEF SourceBusy, Bound, Handing, IsOpen
  <1>8. TypeOK'
    <2>1. ASSUME NEW q \in Panes, Moving(q)'
          PROVE  cmd'[q].queue # <<>> /\ (InHand(q).was.st = "open")'
      <3>1. cmd'[q].queue \in Seq(Jobs) /\ cmd'[q].queue # <<>>
        BY <1>2, <1>5, <2>1, Queues DEF AtHome
      <3>2. 1 \in DOMAIN cmd'[q].queue /\ InHand(q)' = cmd'[q].queue[1]
        BY <3>1, First DEF InHand
      <3> QED
        BY <1>3, <3>1, <3>2 DEF Copies
    <2>2. offer'.file \in {"none", "offered", "accepted", "cleanup-failed"}
      BY DEF OfferOK, TypeOK
    <2> QED
      BY <1>1, <1>2, <2>1, <2>2 DEF TypeOK
  <1> QED
    BY <1>4, <1>5, <1>6, <1>7, <1>8

\* The actions that change files only.
FileStep ==
  \/ \E d \in Dispatches : Confirm(d) \/ WrapUp(d) \/ Repair(d)
  \/ \E c \in Coworkers : AskCoworker(c) \/ WriteCoworker(c) \/ RepairCoworker(c) \/ WrapUpCoworker(c)
  \/ \E p \in Panes, d \in Dispatches : Adopt(p, d)

LEMMA SpentGrows == ASSUME TypeInv, Event PROVE spent' \in spent..MaxEvents /\ spent' = spent + 1
  BY DEF TypeInv, TypeOK, Event

LEMMA FileStepType == ASSUME TypeInv, FileStep PROVE TypeInv'
  <1> USE DEF TypeInv
  <1>0. /\ spent \in Nat /\ spent \in spent..MaxEvents
        /\ inst \in [Dispatches -> Files] /\ cow \in [Coworkers -> CoworkerFiles]
    BY DEF TypeOK
  <1>a. ASSUME NEW s \in spent..MaxEvents
        PROVE  /\ \A d \in Dispatches : inst[d].repairs <= s
               /\ \A c \in Coworkers : cow[c] # None => cow[c].repairs <= s
    <2>1. \A d \in Dispatches : inst[d].repairs \in Nat /\ inst[d].repairs <= spent
      BY <1>0 DEF Counted, Files
    <2>2. \A c \in Coworkers : cow[c] # None => cow[c].repairs \in Nat /\ cow[c].repairs <= spent
      BY <1>0 DEF Counted, CoworkerFiles
    <2> QED
      BY <1>0, <2>1, <2>2
  <1>1. ASSUME NEW d \in Dispatches, NEW f \in Files, NEW s \in spent..MaxEvents,
               inst' = [inst EXCEPT ![d] = f], f.repairs <= s, cow' = cow, spent' = s, Unmoved
        PROVE  TypeInv'
    BY <1>0, <1>1, <1>a, FilesType
  <1>2. ASSUME NEW c \in Coworkers, NEW f \in CoworkerFiles, NEW s \in spent..MaxEvents,
               cow' = [cow EXCEPT ![c] = f], f.repairs <= s, inst' = inst, spent' = s, Unmoved
        PROVE  TypeInv'
    BY <1>0, <1>2, <1>a, FilesType
  <1>3. ASSUME NEW d \in Dispatches, Confirm(d) \/ WrapUp(d) PROVE TypeInv'
    <2>1. spent' \in spent..MaxEvents /\ Unmoved /\ cow' = cow
      BY <1>3, SpentGrows DEF Confirm, WrapUp, Change
    <2>2. PICK st \in {"open", "gone"} : inst' = [inst EXCEPT ![d].st = st]
      BY <1>3 DEF Confirm, WrapUp
    <2>3. inst[d] \in Files /\ inst[d].repairs <= spent'
      BY <1>0, <2>1, <1>a
    <2>4. [inst[d] EXCEPT !.st = st] \in Files /\ [inst[d] EXCEPT !.st = st].repairs <= spent'
      BY <2>3 DEF Files
    <2> QED
      BY <2>1, <2>2, <2>4, <1>1
  <1>4. ASSUME NEW d \in Dispatches, Repair(d) PROVE TypeInv'
    <2>1. spent' \in spent..MaxEvents /\ spent' = spent + 1 /\ Unmoved /\ cow' = cow
      BY <1>4, SpentGrows DEF Repair, Change
    <2>2. inst[d] \in Files /\ inst[d].repairs <= spent
      BY <1>0 DEF Counted
    <2>3. inst[d].repairs \in Nat /\ spent' <= MaxEvents
      BY <1>0, <2>1, <2>2 DEF Files
    <2>4. inst[d].repairs + 1 \in 0..MaxEvents /\ inst[d].repairs + 1 <= spent'
      BY <1>0, <2>1, <2>2, <2>3
    <2>5. [inst[d] EXCEPT !.repairs = @ + 1] \in Files /\ [inst[d] EXCEPT !.repairs = @ + 1].repairs <= spent'
      BY <2>2, <2>4 DEF Files
    <2>6. inst' = [inst EXCEPT ![d] = [inst[d] EXCEPT !.repairs = @ + 1]]
      BY <1>4 DEF Repair
    <2> QED
      BY <2>1, <2>5, <2>6, <1>1
  <1>5. ASSUME NEW c \in Coworkers, AskCoworker(c) PROVE TypeInv'
    <2>1. spent' \in spent..MaxEvents /\ Unmoved /\ inst' = inst
      BY <1>5, SpentGrows DEF AskCoworker, Change
    <2> DEFINE f == [st |-> "asked", root |-> inst[Parent[c]].route, late |-> FALSE, repairs |-> 0]
    <2>2. inst[Parent[c]].route \in RouteRecs
      BY <1>0 DEF Files
    <2>3. f \in CoworkerFiles /\ f.repairs <= spent'
      BY <1>0, <2>1, <2>2 DEF CoworkerFiles
    <2>4. cow' = [cow EXCEPT ![c] = f]
      BY <1>5 DEF AskCoworker
    <2> QED
      BY <2>1, <2>3, <2>4, <1>2
  <1>6. ASSUME NEW c \in Coworkers, WriteCoworker(c) \/ WrapUpCoworker(c) PROVE TypeInv'
    <2>1. spent' \in spent..MaxEvents /\ Unmoved /\ inst' = inst
      BY <1>0, <1>6, SpentGrows DEF WriteCoworker, WrapUpCoworker, Change
    <2>3. cow[c] \in CoworkerFiles /\ cow[c] # None
      BY <1>0, <1>6 DEF WriteCoworker, WrapUpCoworker, Asking, None
    <2>2. PICK st \in {"open", "gone"}, late \in BOOLEAN :
            cow' = [cow EXCEPT ![c] = [cow[c] EXCEPT !.st = st, !.late = late]]
      <3>1. CASE WriteCoworker(c)
        BY <1>0, <3>1 DEF WriteCoworker
      <3>2. CASE WrapUpCoworker(c)
        <4>1. cow[c].late \in BOOLEAN /\ [cow[c] EXCEPT !.st = "gone", !.late = cow[c].late] = [cow[c] EXCEPT !.st = "gone"]
          BY <2>3 DEF CoworkerFiles
        <4> QED
          BY <3>2, <4>1 DEF WrapUpCoworker
      <3> QED
        BY <1>6, <3>1, <3>2
    <2>4. cow[c].repairs <= spent'
      BY <1>a, <2>1, <2>3
    <2>5. /\ [cow[c] EXCEPT !.st = st, !.late = late] \in CoworkerFiles
          /\ [cow[c] EXCEPT !.st = st, !.late = late].repairs <= spent'
      BY <2>3, <2>4 DEF CoworkerFiles
    <2> QED
      BY <2>1, <2>2, <2>5, <1>2
  <1>7. ASSUME NEW c \in Coworkers, RepairCoworker(c) PROVE TypeInv'
    <2>1. spent' \in spent..MaxEvents /\ spent' = spent + 1 /\ Unmoved /\ inst' = inst
      BY <1>7, SpentGrows DEF RepairCoworker, Change
    <2>2. cow[c] \in CoworkerFiles /\ cow[c] # None /\ cow[c].repairs <= spent
      BY <1>0, <1>7 DEF RepairCoworker, None, Counted
    <2>3. cow[c].repairs \in Nat /\ spent' <= MaxEvents
      BY <1>0, <2>1, <2>2 DEF CoworkerFiles
    <2>4. cow[c].repairs + 1 \in 0..MaxEvents /\ cow[c].repairs + 1 <= spent'
      BY <1>0, <2>1, <2>2, <2>3
    <2>5. [cow[c] EXCEPT !.repairs = @ + 1] \in CoworkerFiles /\ [cow[c] EXCEPT !.repairs = @ + 1].repairs <= spent'
      BY <2>2, <2>4 DEF CoworkerFiles
    <2>6. cow' = [cow EXCEPT ![c] = [cow[c] EXCEPT !.repairs = @ + 1]]
      BY <1>7 DEF RepairCoworker
    <2> QED
      BY <2>1, <2>5, <2>6, <1>2
  <1>8. ASSUME NEW p \in Panes, NEW d \in Dispatches, Adopt(p, d) PROVE TypeInv'
    <2>1. spent' \in spent..MaxEvents /\ Unmoved /\ cow' = cow /\ IsOpen(p)
      BY <1>8, SpentGrows DEF Adopt, Change, Free
    <2>2. inst[d] \in Files /\ inst[d].repairs <= spent'
      BY <1>0, <2>1, <1>a
    <2>3. Moved(inst[d], "adopt", Route(p)) \in Files /\ Moved(inst[d], "adopt", Route(p)).repairs <= spent'
      BY <2>1, <2>2, OpenRoute, MovedFile
    <2>4. inst' = [inst EXCEPT ![d] = Moved(inst[d], "adopt", Route(p))]
      BY <1>8 DEF Adopt
    <2> QED
      BY <2>1, <2>3, <2>4, <1>1
  <1> QED
    BY <1>3, <1>4, <1>5, <1>6, <1>7, <1>8 DEF FileStep

LEMMA DeadSource ==
  ASSUME TypeInv, NEW p \in Panes, SourceDies(p)
  PROVE  /\ src' \in SourceStates
         /\ src' = src \/ src'.pc = "dead"
         /\ p = Source /\ Handing => src'.pc = "dead"
  BY DEF TypeInv, TypeOK, SourceStates, SourceDies

\* A conversation ends, and what it was running.
EndStep == \E p \in Panes : Restart(p) \/ \E q \in Panes : Resume(p, q)

LEMMA EndStepType == ASSUME TypeInv, EndStep PROVE TypeInv'
  <1> USE DEF TypeInv
  <1>1. PICK p \in Panes : Restart(p) \/ \E q \in Panes : Resume(p, q)
    BY DEF EndStep
  <1>2. /\ IsOpen(p) /\ Killed(p) /\ SourceDies(p) /\ Event
        /\ UNCHANGED <<inst, cow, offer>>
    BY <1>1 DEF Restart, Resume
  <1>3. spent' \in spent..MaxEvents
    BY <1>2, SpentGrows
  <1>4. /\ cmd' \in [Panes -> Commands] /\ cmd'[p] = NoCmd
        /\ \A q \in Panes \ {p} : cmd'[q] = cmd[q]
    BY <1>2, IdleCommand DEF Killed, TypeOK
  <1>5. /\ src' \in SourceStates /\ (src' = src \/ src'.pc = "dead")
        /\ (p = Source /\ Handing => src'.pc = "dead")
    BY <1>2, DeadSource
  <1>6. OfferOK'
    BY <1>2, <1>5 DEF OfferOK, Listed
  <1> DEFINE Ended ==
        /\ convs' \in Nat /\ at' \in [Panes -> 0..convs']
        /\ \A q \in Panes : (cmd'[q] = cmd[q] /\ (cmd[q] # NoCmd => at'[q] # Closed)) \/ cmd'[q] = NoCmd
        /\ Source # p => at'[Source] = at[Source] \/ (at[Source] = Closed /\ Opened[Source] = Closed)
  <1>7. Ended
    <2>1. CASE Restart(p)
      <3>1. convs' = convs + 1 /\ at' = [at EXCEPT ![p] = convs + 1]
        BY <2>1 DEF Restart
      <3>2. convs' \in Nat /\ at' \in [Panes -> 0..convs']
        BY <3>1 DEF TypeOK
      <3> QED
        BY <1>4, <3>1, <3>2 DEF TypeOK, AtHome, IsOpen
    <2>2. ASSUME NEW q \in Panes, Resume(p, q)
          PROVE  Ended
      <3>1. /\ at' = [at EXCEPT ![p] = Closed, ![q] = at[p]] /\ convs' = convs
            /\ at[q] = Closed /\ Opened[q] = Closed
        BY <2>2 DEF Resume, IsOpen
      <3>2. convs' \in Nat /\ at' \in [Panes -> 0..convs']
        BY <3>1 DEF TypeOK, Closed
      <3>3. cmd[q] = NoCmd
        BY <3>1 DEF AtHome, IsOpen
      <3>4. \A r \in Panes \ {p, q} : at'[r] = at[r]
        BY <3>1 DEF TypeOK
      <3>5. \A r \in Panes : (cmd'[r] = cmd[r] /\ (cmd[r] # NoCmd => at'[r] # Closed)) \/ cmd'[r] = NoCmd
        BY <1>4, <3>3, <3>4 DEF AtHome, IsOpen
      <3> QED
        BY <3>1, <3>2, <3>4, <3>5
    <2> QED
      BY <1>1, <2>1, <2>2
  <1>8. SourceBusy'
    <2>1. CASE src'.pc = "dead"
      BY <2>1 DEF SourceBusy, Bound, Handing
    <2>2. CASE src' = src /\ p # Source
      <3>1. at'[Source] = at[Source]
        BY <1>7, <2>2
      <3> QED
        BY <1>4, <2>2, <3>1 DEF SourceBusy, Bound, Handing, IsOpen
    <2>3. CASE src' = src /\ p = Source
      <3>1. ~Bound
        BY <1>2, <1>5, <2>3 DEF SourceBusy, Bound, Handing
      <3> QED
        BY <2>3, <3>1 DEF SourceBusy, Bound, Handing
    <2> QED
      BY <1>5, <2>1, <2>2, <2>3
  <1>9. offer'.file \in {"none", "offered", "accepted", "cleanup-failed"}
    BY <1>2 DEF TypeOK
  <1> HIDE DEF TypeInv
  <1> QED
    BY <1>2, <1>3, <1>4, <1>5, <1>6, <1>7, <1>8, <1>9, SourceType

OfferStep == \E list \in Lists, retains \in BOOLEAN : Offer(list, retains)

LEMMA OfferType == ASSUME TypeInv, OfferStep PROVE TypeInv'
  <1> USE DEF TypeInv
  <1>1. PICK list \in Lists, retains \in BOOLEAN : Offer(list, retains)
    BY DEF OfferStep
  <1>2. /\ UNCHANGED <<inst, cow, convs, spent, at, cmd>> /\ Free(Source)
        /\ src' = [NoSrc EXCEPT !.pc = "opening", !.retains = retains, !.conv = at[Source],
                                !.knew = {d \in Dispatches : inst[d].st = "open"}]
        /\ offer' = [offer EXCEPT !.list = list, !.routes = [d \in Listed(list) |-> inst[d].route]]
    BY <1>1 DEF Offer, Untouched
  <1>3. list \in Seq(Dispatches) /\ NoRepeats(list)
    <2>1. PICK n \in 0..Cardinality(Dispatches) : list \in [1..n -> Dispatches]
      BY DEF Lists
    <2>2. n \in Nat
      BY FS_CardinalityType
    <2>3. list \in Seq(Dispatches)
      BY <2>1, <2>2, IsASeq
    <2> QED
      BY <2>3 DEF Lists, NoRepeats
  <1>4. src' \in SourceStates /\ src'.pc = "opening" /\ src'.tries = 0
    <2>1. /\ src' = [pc |-> "opening", tries |-> 0, told |-> FALSE, retains |-> retains, conv |-> at[Source],
                    knew |-> {d \in Dispatches : inst[d].st = "open"}]
          /\ at[Source] \in Nat
      <3>1. at[Source] \in Nat
        BY DEF TypeOK
      <3> QED
        BY <1>2, <3>1 DEF NoSrc
    <2> QED
      BY <2>1 DEF SourceStates
  <1>5. OfferOK' /\ offer'.file = offer.file
    <2>1. /\ offer' = [file |-> offer'.file, list |-> offer'.list, routes |-> offer'.routes]
          /\ offer'.file = offer.file /\ offer'.list = list
          /\ DOMAIN offer'.routes = Listed(list)
      BY <1>2 DEF OfferOK
    <2> QED
      BY <1>3, <1>4, <2>1 DEF OfferOK, Listed
  <1>6. SourceBusy'
    BY <1>2 DEF SourceBusy, Bound, Handing, NoSrc, Free, IsOpen
  <1>7. spent' \in spent..MaxEvents /\ convs' \in Nat /\ at' \in [Panes -> 0..convs'] /\ cmd' \in [Panes -> Commands]
        /\ \A p \in Panes : cmd'[p] = cmd[p] /\ (cmd[p] # NoCmd => at'[p] # Closed)
    BY <1>2 DEF TypeOK, AtHome, IsOpen
  <1>8. offer'.file \in {"none", "offered", "accepted", "cleanup-failed"}
    BY <1>5 DEF TypeOK
  <1> HIDE DEF TypeInv
  <1> QED
    BY <1>2, <1>4, <1>5, <1>6, <1>7, <1>8, SourceType

LEMMA SourceStepType == ASSUME TypeInv, SourceStep PROVE TypeInv'
  <1> USE DEF TypeInv
  <1>0. src \in SourceStates /\ src.tries \in 0..2
    BY DEF TypeOK, SourceStates
  <1>1. UNCHANGED <<inst, cow, spent>>
    BY DEF SourceStep, CreateTab, StartReceiver, OpenFails, Look, Prompt, PromptFails, WindowSees,
           WindowEnds, Win, Leave, Lose, Untouched
  <1>7. spent' \in spent..MaxEvents
    BY <1>1 DEF TypeOK
  <1> DEFINE Goes ==
        /\ src' \in SourceStates /\ src'.conv = src.conv /\ src'.retains = src.retains /\ src'.knew = src.knew
        /\ src'.pc \in {"opening", "starting", "look", "window"} => src'.tries <= 1
        /\ src'.pc \in {"opening", "starting", "look", "window", "won", "leave", "left", "lost", "done"}
        /\ Handing
        /\ src'.pc = "left" => src.pc = "leave"
  <1>2. Goes
    <2>1. \A told \in BOOLEAN : src.tries <= 1 /\ NextTry(told) => Goes \/ ~Handing
      <3> SUFFICES ASSUME NEW told \in BOOLEAN, src.tries <= 1, NextTry(told), Handing PROVE Goes
        OBVIOUS
      <3>1. src.tries + 1 \in 0..2 /\ (src.tries # 1 => src.tries + 1 <= 1)
        BY <1>0
      <3> QED
        BY <1>0, <3>1 DEF NextTry, SourceStates
    <2>2. CASE PromptFails \/ WindowEnds
      <3>1. src.tries <= 1 /\ Handing
        BY <2>2 DEF PromptFails, WindowEnds, OfferOK, Handing
      <3>2. \E told \in BOOLEAN : NextTry(told)
        BY <1>0, <2>2 DEF PromptFails, WindowEnds, SourceStates
      <3> QED
        BY <2>1, <3>1, <3>2
    <2>3. CASE Prompt
      BY <1>0, <2>3 DEF Prompt, SourceStates, OfferOK, Handing
    <2>4. CASE CreateTab \/ StartReceiver \/ OpenFails \/ Look \/ WindowSees \/ Win \/ Leave \/ Lose
      BY <1>0, <2>4 DEF CreateTab, StartReceiver, OpenFails, Look, WindowSees, Win, Leave, Lose,
                        SourceGoes, SourceStates, OfferOK, Handing
    <2> QED
      BY <2>2, <2>3, <2>4 DEF SourceStep
  <1>3. \E file \in {"none", "offered", "accepted", "cleanup-failed"} : offer' = [offer EXCEPT !.file = file]
    <2>1. offer = [offer EXCEPT !.file = offer.file]
      BY DEF OfferOK
    <2> QED
      BY <2>1 DEF SourceStep, CreateTab, StartReceiver, OpenFails, Look, Prompt, PromptFails, WindowSees,
           WindowEnds, Win, Leave, Lose, Untouched, TypeOK
  <1>4. OfferOK' /\ offer'.file \in {"none", "offered", "accepted", "cleanup-failed"}
    <2>1. offer'.list = offer.list /\ offer'.routes = offer.routes
          /\ offer' = [file |-> offer'.file, list |-> offer'.list, routes |-> offer'.routes]
          /\ offer'.file \in {"none", "offered", "accepted", "cleanup-failed"}
      BY <1>3 DEF OfferOK
    <2> QED
      BY <1>2, <2>1 DEF OfferOK, Listed
  <1>5. /\ convs' \in Nat /\ at' \in [Panes -> 0..convs'] /\ cmd' \in [Panes -> Commands]
        /\ \A p \in Panes : (cmd'[p] = cmd[p] /\ (cmd[p] # NoCmd => at'[p] # Closed)) \/ cmd'[p] = NoCmd
        /\ src'.pc = "left" => at'[Source] = Closed
        /\ src'.pc # "left" => at'[Source] = at[Source]
    <2>1. CASE StartReceiver
      BY <2>1 DEF StartReceiver, SourceGoes, TypeOK, AtHome, IsOpen, Closed
    <2>2. CASE Leave
      <3>1. cmd[Source] = NoCmd
        BY <2>2 DEF Leave, SourceBusy, Bound, Handing
      <3>2. /\ convs' = convs /\ cmd' = cmd /\ src'.pc \in {"left", "done"}
            /\ \/ at' = at /\ src'.pc = "done"
               \/ at' = [at EXCEPT ![Source] = Closed] /\ src'.pc = "left"
        <4>1. convs' = convs /\ cmd' = cmd
          BY <2>2 DEF Leave, Untouched
        <4>2. CASE at' = [at EXCEPT ![Source] = Closed] /\ src' = [src EXCEPT !.pc = "left"]
          BY <1>0, <4>1, <4>2 DEF SourceStates
        <4>3. CASE at' = at /\ src' = [src EXCEPT !.pc = "done"]
          BY <1>0, <4>1, <4>3 DEF SourceStates
        <4> QED
          BY <2>2, <4>2, <4>3 DEF Leave, SourceGoes
      <3>3. at' \in [Panes -> 0..convs]
        <4>1. at \in [Panes -> 0..convs] /\ 0 \in 0..convs
          BY DEF TypeOK
        <4> QED
          BY <3>2, <4>1 DEF Closed
      <3> QED
        BY <3>1, <3>2, <3>3 DEF TypeOK, AtHome, IsOpen
    <2>3. CASE Lose
      <3>1. convs' = convs /\ (ReceiverCloses \/ (at' = at /\ (cmd' = cmd \/ Killed(Receiver))))
        <4>1. convs' = convs
          BY <2>3 DEF Lose, Untouched
        <4>2. ReceiverCloses \/ (at' = at /\ (cmd' = cmd \/ Killed(Receiver)))
          BY <2>3 DEF Lose, ReceiverCloses, Killed
        <4> QED
          BY <4>1, <4>2
      <3>2. src'.pc = "done"
        BY <1>0, <2>3 DEF Lose, SourceGoes, SourceStates
      <3>3. CASE at' = [at EXCEPT ![Receiver] = Closed] /\ Killed(Receiver)
        <4>1. at' \in [Panes -> 0..convs] /\ cmd' \in [Panes -> Commands] /\ cmd'[Receiver] = NoCmd
              /\ \A p \in Panes \ {Receiver} : at'[p] = at[p] /\ cmd'[p] = cmd[p]
          BY <3>3, IdleCommand DEF Killed, TypeOK, Closed
        <4> QED
          BY <3>1, <3>2, <4>1 DEF TypeOK, AtHome, IsOpen
      <3>4. CASE at' = at /\ Killed(Receiver)
        <4>1. cmd' \in [Panes -> Commands] /\ cmd'[Receiver] = NoCmd
              /\ \A p \in Panes \ {Receiver} : cmd'[p] = cmd[p]
          BY <3>4, IdleCommand DEF Killed, TypeOK
        <4> QED
          BY <3>1, <3>2, <3>4, <4>1 DEF TypeOK, AtHome, IsOpen
      <3>5. CASE at' = at /\ cmd' = cmd
        BY <3>1, <3>2, <3>5 DEF TypeOK, AtHome, IsOpen
      <3> QED
        BY <3>1, <3>3, <3>4, <3>5 DEF ReceiverCloses
    <2>4. CASE UNCHANGED <<at, cmd, convs>> /\ src'.pc # "left"
      BY <2>4 DEF TypeOK, AtHome, IsOpen
    <2>5. CASE CreateTab \/ OpenFails \/ Look \/ Prompt \/ PromptFails \/ WindowSees \/ WindowEnds \/ Win
      <3>1. UNCHANGED <<at, cmd, convs>> /\ src.pc # "leave"
        BY <2>5 DEF CreateTab, OpenFails, Look, Prompt, PromptFails, WindowSees, WindowEnds, Win, Untouched
      <3> QED
        BY <1>2, <2>4, <3>1
    <2> QED
      BY <2>1, <2>2, <2>3, <2>5 DEF SourceStep
  <1>6. SourceBusy'
    <2>1. cmd[Source] = NoCmd /\ cmd'[Source] = NoCmd /\ IsOpen(Source) /\ at[Source] = src.conv
      BY <1>2, <1>5 DEF SourceBusy, Bound
    <2> QED
      BY <1>2, <1>5, <2>1 DEF SourceBusy, Bound, Handing, IsOpen
  <1> HIDE DEF TypeInv
  <1> QED
    BY <1>1, <1>2, <1>4, <1>5, <1>6, <1>7, SourceType

LEMMA Busy ==
  ASSUME TypeInv, NEW p \in Panes, cmd[p] # NoCmd
  PROVE  IsOpen(p) /\ (p = Source => ~Bound)
  BY DEF TypeInv, AtHome, SourceBusy

LEMMA FreeToStart ==
  ASSUME TypeInv, NEW p \in Panes, Free(p)
  PROVE  IsOpen(p) /\ cmd[p] = NoCmd /\ (p = Source => ~Bound)
  BY DEF TypeInv, SourceBusy, Free, Bound, IsOpen

LEMMA ListsAreSequences ==
  ASSUME NEW list \in Lists PROVE list \in Seq(Dispatches) /\ NoRepeats(list)
  <1>1. PICK n \in 0..Cardinality(Dispatches) : list \in [1..n -> Dispatches]
    BY DEF Lists
  <1>2. n \in Nat
    BY FS_CardinalityType
  <1>3. list \in Seq(Dispatches)
    BY <1>1, <1>2, IsASeq
  <1> QED
    BY <1>3 DEF Lists, NoRepeats

(***************************************************************************)
(* What each step makes of the command                                     *)
(***************************************************************************)
Fresh(op, pc, todo) == [NoCmd EXCEPT !.op = op, !.pc = pc, !.todo = todo]

LEMMA FreshCommand ==
  ASSUME NEW op \in {"accept", "takeover"}, NEW pc \in {"load", "record"}, NEW todo \in Seq(Dispatches)
  PROVE  /\ Fresh(op, pc, todo) \in Commands
         /\ Fresh(op, pc, todo).op = op /\ Fresh(op, pc, todo).pc = pc /\ Fresh(op, pc, todo).todo = todo
         /\ Fresh(op, pc, todo).queue = <<>> /\ Fresh(op, pc, todo).left = {}
         /\ Fresh(op, pc, todo).cows = NoCmd.cows
  BY EmptySeq DEF Fresh, NoCmd, Commands, CoworkerFiles

Skipped(p) == [cmd[p] EXCEPT !.todo = Tail(@)]
Taken(p)   == [cmd[p] EXCEPT !.todo = Tail(@),
                 !.queue = Append(@, [on |-> Head(cmd[p].todo), was |-> inst[Head(cmd[p].todo)]])]

StaysBut(p, n) == cmd' = [cmd EXCEPT ![p] = n] /\ UNCHANGED <<at, convs, src>>

LEMMA LoadStep ==
  ASSUME TypeInv, NEW p \in Panes, Load(p)
  PROVE  LET d == Head(cmd[p].todo) IN
         /\ cmd[p] # NoCmd /\ cmd[p].pc = "load" /\ cmd[p].todo # <<>>
         /\ d = cmd[p].todo[1] /\ d \in Dispatches /\ d \in Listed(cmd[p].todo)
         /\ inst' = inst /\ cow' = cow /\ offer' = offer /\ spent' = spent
         /\ \/ StaysBut(p, NoCmd)
            \/ StaysBut(p, Skipped(p)) /\ inst[d].st = "open" /\ Own(p, d)
            \/ StaysBut(p, Taken(p)) /\ inst[d].st = "open" /\ ~Own(p, d) /\ MayTake(p, d)
  <1>1. cmd \in [Panes -> Commands] /\ cmd[p].todo \in Seq(Dispatches)
    BY Queues DEF TypeInv, TypeOK
  <1>2. cmd[p].todo # <<>> /\ cmd[p].pc = "load"
    BY DEF Load
  <1>3. Head(cmd[p].todo) = cmd[p].todo[1] /\ Head(cmd[p].todo) \in Dispatches /\ 1 \in DOMAIN cmd[p].todo
    BY <1>1, <1>2, First
  <1>4. Head(cmd[p].todo) \in Listed(cmd[p].todo)
    BY <1>3 DEF Listed
  <1>5. cmd[p] # NoCmd
    BY <1>2 DEF NoCmd
  <1>6. inst' = inst /\ cow' = cow /\ offer' = offer /\ spent' = spent /\ UNCHANGED <<at, convs, src>>
    BY DEF Load, Beside
  <1>7. [cmd EXCEPT ![p].todo = Tail(@)] = [cmd EXCEPT ![p] = Skipped(p)]
    BY <1>1 DEF Skipped
  <1>8. ASSUME NEW j
        PROVE  [[cmd EXCEPT ![p].todo = Tail(@)] EXCEPT ![p].queue = Append(@, j)]
               = [cmd EXCEPT ![p] = [cmd[p] EXCEPT !.todo = Tail(@), !.queue = Append(@, j)]]
    BY <1>1 DEF Commands
  <1> QED
    BY <1>2, <1>3, <1>4, <1>5, <1>6, <1>7, <1>8 DEF Load, Refuse, StaysBut, Taken

Placing(p) == [cmd[p] EXCEPT !.pc = "write"]
Proven(p)  == [cmd[p] EXCEPT !.pc = "move", !.cows = cow]
Recorder(p) == [cmd[p] EXCEPT !.pc = "record"]

LEMMA ProveStep ==
  ASSUME TypeInv, NEW p \in Panes, Prove(p)
  PROVE  /\ cmd[p] # NoCmd /\ cmd[p].pc = "load" /\ cmd[p].todo = <<>>
         /\ inst' = inst /\ cow' = cow /\ offer' = offer /\ spent' = spent
         /\ \/ StaysBut(p, Recorder(p)) /\ cmd[p].queue = <<>>
            \/ StaysBut(p, Proven(p)) /\ cmd[p].queue # <<>> /\ MayWrite
            \/ StaysBut(p, NoCmd)
  <1>1. cmd \in [Panes -> Commands]
    BY DEF TypeInv, TypeOK
  <1>2. [cmd EXCEPT ![p].pc = "record"] = [cmd EXCEPT ![p] = Recorder(p)]
    BY <1>1 DEF Recorder
  <1>3. [cmd EXCEPT ![p].pc = "move", ![p].cows = cow] = [cmd EXCEPT ![p] = Proven(p)]
    BY <1>1 DEF Proven, Commands
  <1>4. cmd[p].pc = "load" /\ cmd[p].todo = <<>> /\ cmd[p] # NoCmd
    BY DEF Prove, NoCmd
  <1> QED
    BY <1>2, <1>3, <1>4 DEF Prove, StaysBut, Beside, Refuse

LEMMA CompareStep ==
  ASSUME TypeInv, NEW p \in Panes, Compare(p)
  PROVE  /\ cmd[p] # NoCmd /\ cmd[p].pc = "move" /\ Moving(p)
         /\ inst' = inst /\ cow' = cow /\ offer' = offer /\ spent' = spent
         /\ StaysBut(p, NoCmd) \/ (StaysBut(p, Placing(p)) /\ AsLoaded(p))
  <1>1. cmd \in [Panes -> Commands]
    BY DEF TypeInv, TypeOK
  <1>2. [cmd EXCEPT ![p].pc = "write"] = [cmd EXCEPT ![p] = Placing(p)]
    BY <1>1 DEF Placing
  <1>3. cmd[p].pc = "move" /\ cmd[p] # NoCmd
    BY DEF Compare, NoCmd
  <1> QED
    BY <1>2, <1>3 DEF Compare, StaysBut, Beside, Refuse, Moving

Carried(p) == [cmd[p] EXCEPT !.pc = "cascade", !.left = Followers(p)]
Rest(p, c) == [cmd[p] EXCEPT !.left = @ \ {c}]

LEMMA WriteStep ==
  ASSUME TypeInv, NEW p \in Panes, Write(p)
  PROVE  /\ cmd[p] # NoCmd /\ cmd[p].pc = "write" /\ Moving(p) /\ Halfway(p)
         /\ cow' = cow /\ offer' = offer /\ spent' = spent
         /\ inst' = [inst EXCEPT ![InHand(p).on] = Moved(InHand(p).was, cmd[p].op, Route(p))]
         /\ \/ StaysBut(p, Done(cmd[p])) /\ Followers(p) = {}
            \/ StaysBut(p, Carried(p))
  <1>1. cmd \in [Panes -> Commands]
    BY DEF TypeInv, TypeOK
  <1>2. [cmd EXCEPT ![p] = [@ EXCEPT !.pc = "cascade", !.left = Followers(p)]] = [cmd EXCEPT ![p] = Carried(p)]
    BY <1>1 DEF Carried
  <1>3. cmd[p].pc = "write" /\ cmd[p] # NoCmd
    BY DEF Write, NoCmd
  <1>4. [cmd EXCEPT ![p] = Done(@)] = [cmd EXCEPT ![p] = Done(cmd[p])]
    BY <1>1
  <1>5. \/ cmd' = [cmd EXCEPT ![p] = Done(cmd[p])] /\ Followers(p) = {}
        \/ cmd' = [cmd EXCEPT ![p] = Carried(p)]
    BY <1>1, <1>2, <1>4 DEF Write, Carried
  <1> QED
    BY <1>3, <1>5 DEF Write, StaysBut, Beside, Moving, Halfway

LEMMA CascadeStep ==
  ASSUME TypeInv, NEW p \in Panes, NEW c \in Coworkers, Cascade(p, c)
  PROVE  /\ cmd[p] # NoCmd /\ cmd[p].pc = "cascade" /\ Moving(p) /\ Halfway(p) /\ c \in cmd[p].left
         /\ inst' = inst /\ offer' = offer /\ spent' = spent
         /\ cow' = [cow EXCEPT ![c] = [cmd[p].cows[c] EXCEPT !.root = Route(p)]]
         /\ \/ StaysBut(p, Done(cmd[p])) /\ cmd[p].left = {c}
            \/ StaysBut(p, Rest(p, c))
  <1>1. cmd \in [Panes -> Commands]
    BY DEF TypeInv, TypeOK
  <1>2. cmd[p].pc = "cascade" /\ cmd[p] # NoCmd
    BY DEF Cascade, NoCmd
  <1>3. \/ cmd' = [cmd EXCEPT ![p] = Done(cmd[p])] /\ cmd[p].left = {c}
        \/ cmd' = [cmd EXCEPT ![p] = Rest(p, c)]
    <2>1. cmd' = [cmd EXCEPT ![p] = IF cmd[p].left \ {c} = {} THEN Done(cmd[p]) ELSE Rest(p, c)]
      BY DEF Cascade, Rest
    <2>2. c \in cmd[p].left
      BY DEF Cascade
    <2> QED
      BY <2>1, <2>2
  <1> QED
    BY <1>2, <1>3 DEF Cascade, StaysBut, Beside, Moving, Halfway

LEMMA RecordStep ==
  ASSUME TypeInv, NEW p \in Panes, Record(p)
  PROVE  /\ cmd[p] # NoCmd /\ cmd[p].pc = "record"
         /\ inst' = inst /\ cow' = cow /\ spent' = spent
         /\ offer' = [offer EXCEPT !.file = "accepted"]
         /\ StaysBut(p, NoCmd)
  BY DEF Record, NoCmd, StaysBut, Beside

LEMMA AcceptStep ==
  ASSUME TypeInv, StartAccept
  PROVE  /\ Free(Receiver) /\ src.told /\ offer.file = "offered"
         /\ inst' = inst /\ cow' = cow /\ offer' = offer /\ spent' = spent
         /\ \E there \in Lists :
              /\ Listed(there) = {d \in Listed(offer.list) : inst[d].st # "gone"}
              /\ StaysBut(Receiver, Fresh("accept", IF there = <<>> THEN "record" ELSE "load", there))
  BY DEF StartAccept, Fresh, StaysBut, Beside

LEMMA TakeoverStep ==
  ASSUME TypeInv, NEW p \in Panes, NEW list \in Lists, StartTakeover(p, list)
  PROVE  /\ Free(p)
         /\ inst' = inst /\ cow' = cow /\ offer' = offer /\ spent' \in spent..MaxEvents
         /\ StaysBut(p, Fresh("takeover", "load", list))
  <1>1. spent' \in spent..MaxEvents
    BY SpentGrows DEF StartTakeover, TypeInv, TypeOK
  <1> QED
    BY <1>1 DEF StartTakeover, Fresh, StaysBut, Beside

\* One step of accepting or taking over, from the first to the last.
MoveStep ==
  \/ StartAccept
  \/ \E p \in Panes, list \in Lists : StartTakeover(p, list)
  \/ \E p \in Panes : CommandStep(p)

LEMMA SoundFresh ==
  ASSUME NEW op \in {"accept", "takeover"}, NEW pc \in {"load", "record"}, NEW todo \in Seq(Dispatches)
  PROVE  Sound(Fresh(op, pc, todo))
  <1> DEFINE n == Fresh(op, pc, todo)
  <1>1. n \in Commands /\ n.op = op /\ n.pc = pc /\ n.queue = <<>> /\ n.left = {} /\ n.cows = NoCmd.cows
    BY FreshCommand
  <1>2. DOMAIN n.queue = {} /\ \A c \in Coworkers : n.cows[c] = None
    BY <1>1, EmptySeq DEF NoCmd
  <1> HIDE DEF n
  <1>3. n.pc \in {"load", "record"} /\ n.op # "none"
    BY <1>1
  <1>4. \A c \in n.left : n.cows[c].st = "open"
    BY <1>1
  <1>5. Sound(n)
    BY <1>1, <1>2, <1>3, <1>4 DEF Sound
  <1> QED
    BY <1>5 DEF n

LEMMA SoundLoads ==
  ASSUME TypeInv, NEW p \in Panes, cmd[p].pc = "load", cmd[p].todo # <<>>
  PROVE  /\ Sound(Skipped(p))
         /\ inst[Head(cmd[p].todo)].st = "open" => Sound(Taken(p))
  <1> DEFINE d == Head(cmd[p].todo)
             job == [on |-> d, was |-> inst[d]]
  <1>1. cmd[p] \in Commands /\ Sound(cmd[p]) /\ cmd[p] # NoCmd
    BY SoundCommands DEF TypeInv, TypeOK, NoCmd
  <1>2. cmd[p].todo \in Seq(Dispatches) /\ cmd[p].queue \in Seq(Jobs)
    BY <1>1, Queues
  <1>3. Tail(cmd[p].todo) \in Seq(Dispatches) /\ d \in Dispatches
    BY <1>2, First
  <1>4. /\ Skipped(p) \in Commands /\ Skipped(p).pc = "load" /\ Skipped(p).queue = cmd[p].queue
        /\ Skipped(p).cows = cmd[p].cows /\ Skipped(p).op = cmd[p].op /\ Skipped(p).left = cmd[p].left
    BY <1>1, <1>3 DEF Skipped, Commands
  <1>5. Skipped(p) # NoCmd
    BY <1>4 DEF NoCmd
  <1>6. Sound(Skipped(p))
    BY <1>1, <1>4, <1>5 DEF Sound
  <1>7. inst[d] \in Files /\ inst[d].repairs <= spent /\ job \in Jobs
    BY <1>3 DEF TypeInv, TypeOK, Counted, Jobs
  <1>8. /\ Append(cmd[p].queue, job) \in Seq(Jobs)
        /\ \A i \in DOMAIN Append(cmd[p].queue, job) :
             \/ i \in DOMAIN cmd[p].queue /\ Append(cmd[p].queue, job)[i] = cmd[p].queue[i]
             \/ Append(cmd[p].queue, job)[i] = job
    <2> HIDE DEF job
    <2> QED
      BY <1>2, <1>7, Longer
  <1>9. /\ Taken(p) \in Commands /\ Taken(p).pc = "load" /\ Taken(p).queue = Append(cmd[p].queue, job)
        /\ Taken(p).cows = cmd[p].cows /\ Taken(p).op = cmd[p].op /\ Taken(p).left = cmd[p].left
    BY <1>1, <1>3, <1>8 DEF Taken, Commands, Jobs
  <1>10. Taken(p) # NoCmd
    BY <1>9 DEF NoCmd
  <1>11. ASSUME inst[d].st = "open" PROVE Sound(Taken(p))
    <2>1. \A i \in DOMAIN Taken(p).queue :
            Taken(p).queue[i].was.st = "open" /\ Taken(p).queue[i].was.repairs <= spent
      BY <1>1, <1>7, <1>8, <1>9, <1>11 DEF Sound
    <2> QED
      BY <1>1, <1>9, <1>10, <2>1 DEF Sound
  <1> QED
    BY <1>6, <1>11

LEMMA SoundProves ==
  ASSUME TypeInv, NEW p \in Panes, cmd[p].pc = "load"
  PROVE  Sound(Recorder(p)) /\ (cmd[p].queue # <<>> => Sound(Proven(p)))
  <1>1. cmd[p] \in Commands /\ Sound(cmd[p]) /\ cmd[p] # NoCmd /\ cow \in [Coworkers -> CoworkerFiles]
    BY SoundCommands DEF TypeInv, TypeOK, NoCmd
  <1>2. /\ Recorder(p) \in Commands /\ Recorder(p).pc = "record" /\ Recorder(p).queue = cmd[p].queue
        /\ Recorder(p).cows = cmd[p].cows /\ Recorder(p).op = cmd[p].op /\ Recorder(p).left = cmd[p].left
    BY <1>1 DEF Recorder, Commands
  <1>3. /\ Proven(p) \in Commands /\ Proven(p).pc = "move" /\ Proven(p).queue = cmd[p].queue
        /\ Proven(p).cows = cow /\ Proven(p).op = cmd[p].op /\ Proven(p).left = cmd[p].left
    BY <1>1 DEF Proven, Commands
  <1>4. cmd[p].left = {} /\ \A c \in Coworkers : cow[c] # None => cow[c].repairs <= spent
    BY <1>1 DEF Sound, TypeInv, Counted
  <1>5. Sound(Recorder(p))
    BY <1>1, <1>2, <1>4 DEF Sound, NoCmd
  <1>6. ASSUME cmd[p].queue # <<>> PROVE Sound(Proven(p))
    BY <1>1, <1>3, <1>4, <1>6 DEF Sound
  <1> QED
    BY <1>5, <1>6

LEMMA SoundPlacing ==
  ASSUME TypeInv, NEW p \in Panes, Moving(p), cmd[p].pc = "move"
  PROVE  Sound(Placing(p))
  <1>1. cmd[p] \in Commands /\ Sound(cmd[p]) /\ cmd[p] # NoCmd /\ cmd[p].queue # <<>>
    BY SoundCommands, InHandOpen DEF TypeInv, TypeOK, NoCmd
  <1>2. /\ Placing(p) \in Commands /\ Placing(p).pc = "write" /\ Placing(p).queue = cmd[p].queue
        /\ Placing(p).cows = cmd[p].cows /\ Placing(p).op = cmd[p].op /\ Placing(p).left = cmd[p].left
    BY <1>1 DEF Placing, Commands
  <1> QED
    BY <1>1, <1>2 DEF Sound

LEMMA SoundCarried ==
  ASSUME TypeInv, NEW p \in Panes, Moving(p)
  PROVE  Sound(Carried(p))
  <1>1. cmd[p] \in Commands /\ Sound(cmd[p]) /\ cmd[p] # NoCmd /\ cmd[p].queue # <<>>
    BY SoundCommands, InHandOpen DEF TypeInv, TypeOK, NoCmd, Moving
  <1>2. /\ Carried(p) \in Commands /\ Carried(p).pc = "cascade" /\ Carried(p).queue = cmd[p].queue
        /\ Carried(p).cows = cmd[p].cows /\ Carried(p).op = cmd[p].op /\ Carried(p).left = Followers(p)
    BY <1>1 DEF Carried, Commands, Followers
  <1>3. \A c \in Followers(p) : cmd[p].cows[c].st = "open"
    BY DEF Followers
  <1> QED
    BY <1>1, <1>2, <1>3 DEF Sound

LEMMA SoundRest ==
  ASSUME TypeInv, NEW p \in Panes, NEW c, Moving(p), cmd[p].pc = "cascade"
  PROVE  Sound(Rest(p, c))
  <1>1. cmd[p] \in Commands /\ Sound(cmd[p]) /\ cmd[p] # NoCmd /\ cmd[p].queue # <<>>
    BY SoundCommands, InHandOpen DEF TypeInv, TypeOK, NoCmd
  <1>2. /\ Rest(p, c) \in Commands /\ Rest(p, c).pc = "cascade" /\ Rest(p, c).queue = cmd[p].queue
        /\ Rest(p, c).cows = cmd[p].cows /\ Rest(p, c).op = cmd[p].op /\ Rest(p, c).left \subseteq cmd[p].left
    BY <1>1 DEF Rest, Commands
  <1> QED
    BY <1>1, <1>2 DEF Sound

\* The file a move writes.
LEMMA WrittenFile ==
  ASSUME TypeInv, NEW p \in Panes, Moving(p)
  PROVE  LET new == Moved(InHand(p).was, cmd[p].op, Route(p)) IN
         /\ InHand(p).on \in Dispatches /\ InHand(p).was \in Files
         /\ new \in Files /\ new.repairs <= spent
         /\ new.st = "open" /\ new.repairs = InHand(p).was.repairs /\ new.route = Route(p)
         /\ new.trail = Append(InHand(p).was.trail,
                               [how |-> cmd[p].op, before |-> InHand(p).was.route, after |-> Route(p)])
  <1>1. cmd[p] \in Commands /\ Sound(cmd[p]) /\ cmd[p] # NoCmd
    BY SoundCommands DEF TypeInv, TypeOK, NoCmd, Moving
  <1>2. InHand(p) \in Jobs /\ InHand(p).was.st = "open" /\ InHand(p).was.repairs <= spent
    BY InHandOpen
  <1>3. InHand(p).on \in Dispatches /\ InHand(p).was \in Files
    BY <1>2, Queues
  <1>4. cmd[p].op \in {"accept", "takeover"}
    BY <1>1 DEF Sound, Commands
  <1>5. Route(p) \in RouteRecs
    BY <1>1, Busy, OpenRoute DEF TypeInv
  <1>6. cmd[p].op \in {"accept", "takeover", "adopt"}
    BY <1>4
  <1> QED
    BY <1>2, <1>3, <1>5, <1>6, MovedFile

LEMMA SoundDone == ASSUME TypeInv, NEW p \in Panes, Moving(p) PROVE Sound(Done(cmd[p]))
  <1> DEFINE n == Done(cmd[p])
  <1>1. cmd[p].queue # <<>> /\ cmd[p] \in Commands
    BY InHandOpen DEF TypeInv, TypeOK
  <1>2. cmd[p].queue \in Seq(Jobs)
    BY <1>1, Queues
  <1>3. Sound(cmd[p]) /\ cmd[p] # NoCmd
    BY SoundCommands DEF Moving, NoCmd
  <1>4. n \in Commands /\ (n.pc = "idle" => n = NoCmd) /\ n.pc \in {"move", "record", "idle"} /\ n.left = {}
    BY <1>1, DoneCommand
  <1>5. CASE n.pc = "move"
    <2>1. n.queue = Tail(cmd[p].queue) /\ n.queue # <<>> /\ n.cows = cmd[p].cows /\ n.op = cmd[p].op
      BY <1>1, <1>5, DoneCommand
    <2>2. \A i \in DOMAIN n.queue : i + 1 \in DOMAIN cmd[p].queue /\ n.queue[i] = cmd[p].queue[i + 1]
      BY <1>1, <1>2, <2>1, First
    <2>3. \A c \in n.left : n.cows[c].st = "open"
      BY <1>4
    <2>4. Sound(n)
      <3> HIDE DEF n
      <3> QED
        BY <1>3, <1>4, <1>5, <2>1, <2>2, <2>3 DEF Sound
    <2> QED
      BY <2>4
  <1>6. CASE n.pc = "record"
    <2>1. n.queue = <<>> /\ n.cows = NoCmd.cows /\ n.op = "accept"
      BY <1>1, <1>6, DoneCommand
    <2>2. DOMAIN n.queue = {} /\ \A c \in Coworkers : n.cows[c] = None
      BY <2>1, EmptySeq DEF NoCmd
    <2>3. \A c \in n.left : n.cows[c].st = "open"
      BY <1>4
    <2>4. Sound(n)
      <3> HIDE DEF n
      <3> QED
        BY <1>4, <1>6, <2>1, <2>2, <2>3 DEF Sound
    <2> QED
      BY <2>4
  <1>7. CASE n.pc = "idle"
    BY <1>4, <1>7, SoundNone
  <1> QED
    BY <1>4, <1>5, <1>6, <1>7

LEMMA MoveStepType == ASSUME TypeInv, MoveStep PROVE TypeInv'
  <1>0. /\ spent \in Nat /\ spent \in spent..MaxEvents
        /\ inst \in [Dispatches -> Files] /\ cow \in [Coworkers -> CoworkerFiles]
        /\ cmd \in [Panes -> Commands]
        /\ \A d \in Dispatches : inst[d].repairs <= spent
        /\ \A c \in Coworkers : cow[c] # None => cow[c].repairs <= spent
        /\ offer = [offer EXCEPT !.file = offer.file]
    BY DEF TypeInv, TypeOK, Counted, OfferOK
  <1>1. ASSUME NEW s \in spent..MaxEvents
        PROVE  /\ \A d \in Dispatches : inst[d].repairs <= s
               /\ \A c \in Coworkers : cow[c] # None => cow[c].repairs <= s
    <2>1. \A d \in Dispatches : inst[d].repairs \in Nat
      BY <1>0 DEF Files
    <2>2. \A c \in Coworkers : cow[c] # None => cow[c].repairs \in Nat
      BY <1>0 DEF CoworkerFiles
    <2> QED
      BY <1>0, <2>1, <2>2
  \* A step that writes no dispatch and no coworker.
  <1>2. ASSUME NEW p \in Panes, NEW n, Sound(n), StaysBut(p, n), IsOpen(p), p = Source => ~Bound,
               inst' = inst, cow' = cow, spent' \in spent..MaxEvents,
               \E file \in {offer.file, "accepted"} : offer' = [offer EXCEPT !.file = file]
        PROVE  TypeInv'
    BY <1>0, <1>1, <1>2, CommandType DEF StaysBut
  <1>3. ASSUME StartAccept PROVE TypeInv'
    <2>1. PICK there \in Lists : StaysBut(Receiver, Fresh("accept", IF there = <<>> THEN "record" ELSE "load", there))
      BY <1>3, AcceptStep
    <2> DEFINE n == Fresh("accept", IF there = <<>> THEN "record" ELSE "load", there)
    <2>2. Sound(n)
      BY ListsAreSequences, SoundFresh
    <2>3. inst' = inst /\ cow' = cow /\ spent' = spent /\ offer' = offer
          /\ IsOpen(Receiver) /\ (Receiver = Source => ~Bound)
      BY <1>3, AcceptStep, FreeToStart
    <2> QED
      BY <1>0, <1>2, <2>1, <2>2, <2>3
  <1>4. ASSUME NEW p \in Panes, NEW list \in Lists, StartTakeover(p, list) PROVE TypeInv'
    <2>1. Sound(Fresh("takeover", "load", list))
      BY ListsAreSequences, SoundFresh
    <2>2. inst' = inst /\ cow' = cow /\ spent' \in spent..MaxEvents /\ offer' = offer
          /\ StaysBut(p, Fresh("takeover", "load", list)) /\ IsOpen(p) /\ (p = Source => ~Bound)
      BY <1>4, TakeoverStep, FreeToStart
    <2> QED
      BY <1>0, <1>2, <2>1, <2>2
  <1>5. ASSUME NEW p \in Panes, Load(p) PROVE TypeInv'
    <2>1. cmd[p] # NoCmd /\ inst' = inst /\ cow' = cow /\ offer' = offer /\ spent' = spent
      BY <1>5, LoadStep
    <2>2. \E n : Sound(n) /\ StaysBut(p, n)
      BY <1>5, LoadStep, SoundNone, SoundLoads
    <2> QED
      BY <1>0, <1>2, <2>1, <2>2, Busy
  <1>6. ASSUME NEW p \in Panes, Prove(p) PROVE TypeInv'
    <2>1. cmd[p] # NoCmd /\ inst' = inst /\ cow' = cow /\ offer' = offer /\ spent' = spent
      BY <1>6, ProveStep
    <2>2. \E n : Sound(n) /\ StaysBut(p, n)
      BY <1>6, ProveStep, SoundNone, SoundProves
    <2> QED
      BY <1>0, <1>2, <2>1, <2>2, Busy
  <1>7. ASSUME NEW p \in Panes, Compare(p) PROVE TypeInv'
    <2>1. cmd[p] # NoCmd /\ inst' = inst /\ cow' = cow /\ offer' = offer /\ spent' = spent
      BY <1>7, CompareStep
    <2>2. \E n : Sound(n) /\ StaysBut(p, n)
      BY <1>7, CompareStep, SoundNone, SoundPlacing
    <2> QED
      BY <1>0, <1>2, <2>1, <2>2, Busy
  <1>8. ASSUME NEW p \in Panes, Record(p) PROVE TypeInv'
    BY <1>0, <1>8, <1>2, RecordStep, SoundNone, Busy
  <1>10. ASSUME NEW p \in Panes, Write(p) PROVE TypeInv'
    <2>1. Moving(p) /\ cmd[p] # NoCmd
      BY <1>10, WriteStep
    <2>2. IsOpen(p) /\ (p = Source => ~Bound)
      BY <2>1, Busy
    <2> DEFINE d == InHand(p).on
               new == Moved(InHand(p).was, cmd[p].op, Route(p))
    <2>3. d \in Dispatches /\ new \in Files /\ new.repairs <= spent
      BY <2>1, WrittenFile
    <2>6. inst' = [inst EXCEPT ![d] = new] /\ cow' = cow /\ offer' = offer /\ spent' = spent
      BY <1>10, WriteStep
    <2> HIDE DEF new, d
    <2>7. inst' \in [Dispatches -> Files] /\ \A e \in Dispatches : inst'[e].repairs <= spent
      BY <1>0, <2>3, <2>6
    <2>8. PICK n : Sound(n) /\ StaysBut(p, n)
      BY <1>10, <2>1, WriteStep, SoundDone, SoundCarried
    <2> QED
      BY <1>0, <2>2, <2>6, <2>7, <2>8, CommandType DEF StaysBut
  <1>11. ASSUME NEW p \in Panes, NEW c \in Coworkers, Cascade(p, c) PROVE TypeInv'
    <2>1. Moving(p) /\ cmd[p] # NoCmd /\ cmd[p].pc = "cascade" /\ c \in cmd[p].left
      BY <1>11, CascadeStep
    <2>2. IsOpen(p) /\ (p = Source => ~Bound)
      BY <2>1, Busy
    <2> DEFINE new == [cmd[p].cows[c] EXCEPT !.root = Route(p)]
    <2>3. cmd[p].cows[c] \in CoworkerFiles /\ cmd[p].cows[c] # None /\ cmd[p].cows[c].repairs <= spent
      BY <1>0, <2>1, SoundCommands DEF Sound, Commands, None
    <2>4. Route(p) \in RouteRecs
      BY <2>2, OpenRoute DEF TypeInv
    <2>5. new \in CoworkerFiles /\ new.repairs <= spent
      BY <2>3, <2>4 DEF CoworkerFiles
    <2>6. cow' = [cow EXCEPT ![c] = new] /\ inst' = inst /\ offer' = offer /\ spent' = spent
      BY <1>11, CascadeStep
    <2> HIDE DEF new
    <2>7. cow' \in [Coworkers -> CoworkerFiles] /\ \A e \in Coworkers : cow'[e] # None => cow'[e].repairs <= spent
      BY <1>0, <2>5, <2>6
    <2>8. PICK n : Sound(n) /\ StaysBut(p, n)
      BY <1>11, <2>1, CascadeStep, SoundDone, SoundRest
    <2> QED
      BY <1>0, <2>2, <2>6, <2>7, <2>8, CommandType DEF StaysBut
  <1> QED
    BY <1>3, <1>4, <1>5, <1>6, <1>7, <1>8, <1>10, <1>11 DEF MoveStep, CommandStep

LEMMA NextSteps ==
  ASSUME Next
  PROVE  FileStep \/ EndStep \/ OfferStep \/ SourceStep \/ MoveStep
  BY DEF Next, FileStep, EndStep, OfferStep, MoveStep

LEMMA TypeStays == TypeInv /\ [Next]_vars => TypeInv'
  <1> SUFFICES ASSUME TypeInv, [Next]_vars PROVE TypeInv'
    OBVIOUS
  <1>1. CASE Next
    BY <1>1, NextSteps, FileStepType, EndStepType, OfferType, SourceStepType, MoveStepType
  <1>2. CASE UNCHANGED vars
    <2>1. /\ inst' = inst /\ cow' = cow /\ at' = at /\ convs' = convs /\ cmd' = cmd
          /\ src' = src /\ offer' = offer /\ spent' = spent
      BY <1>2 DEF vars
    <2>2. \A p \in Panes : Copies(p)' <=> Copies(p)
      BY <2>1 DEF Copies
    <2>3. TypeOK'
      BY <2>1 DEF TypeInv, TypeOK, Moving, InHand
    <2>4. AtHome'
      BY <2>1, <2>2 DEF TypeInv, AtHome, IsOpen, Moving
    <2> QED
      BY <2>1, <2>3, <2>4 DEF TypeInv, OfferOK, Listed, Counted, SourceBusy, Bound, Handing, IsOpen
  <1> QED
    BY <1>1, <1>2

LEMMA TypeAlways == Spec => []TypeInv
  BY InitType, TypeStays, PTL DEF Spec

\* The files, the commands and the handoff have the shapes the code gives them, and a
\* move in hand was read while its dispatch was open, whatever overlaps or is killed.
THEOREM TypesHold == Spec => []TypeOK
  <1>1. TypeInv => TypeOK
    BY DEF TypeInv
  <1> QED
    BY <1>1, TypeAlways, PTL

(***************************************************************************)
(* Who accepts, and when                                                   *)
(***************************************************************************)
Shut == {"none", "opening", "starting"}
EarlyInv == Early /\ Accepting

\* Commands end or stay as they are, and the source does not go back.
LEMMA EarlyCalm ==
  ASSUME EarlyInv, src'.pc \in Shut => src.pc \in Shut /\ at'[Receiver] = at[Receiver] /\ offer'.file = offer.file,
         \A p \in Panes : cmd'[p] = cmd[p] \/ cmd'[p] = NoCmd
  PROVE  EarlyInv'
  BY DEF EarlyInv, Early, Accepting, Shut, NoCmd, Moving

LEMMA EarlyMove ==
  ASSUME EarlyInv, TypeInv, NEW p \in Panes, NEW n, StaysBut(p, n),
         src.pc \in Shut => offer'.file = offer.file,
         n.op = "accept" => p = Receiver /\ src.pc \notin Shut,
         n.pc = "record" => n.op = "accept" /\ n.todo = <<>> /\ n.queue = <<>>,
         n.pc \in {"move", "write", "cascade"} => n.todo = <<>>,
         n.op = "takeover" /\ n.pc = "load" => n.todo # <<>> \/ n.queue # <<>>
  PROVE  EarlyInv'
  <1>1. at' = at /\ src' = src /\ cmd'[p] = n /\ \A q \in Panes \ {p} : cmd'[q] = cmd[q]
    BY DEF StaysBut, TypeInv, TypeOK
  <1>2. Early'
    BY <1>1 DEF EarlyInv, Early, Shut
  <1>3. Accepting'
    BY <1>1 DEF EarlyInv, Accepting, Shut, Moving
  <1> QED
    BY <1>2, <1>3 DEF EarlyInv

\* The fields of the commands that a step leaves behind.
LEMMA NextCommands ==
  ASSUME TypeInv, NEW p \in Panes
  PROVE  /\ Skipped(p).pc = cmd[p].pc /\ Skipped(p).op = cmd[p].op /\ Skipped(p).queue = cmd[p].queue
         /\ Skipped(p).cows = cmd[p].cows /\ Skipped(p).todo = Tail(cmd[p].todo)
         /\ Taken(p).pc = cmd[p].pc /\ Taken(p).op = cmd[p].op /\ Taken(p).cows = cmd[p].cows
         /\ Taken(p).todo = Tail(cmd[p].todo)
         /\ Taken(p).queue = Append(cmd[p].queue, [on |-> Head(cmd[p].todo), was |-> inst[Head(cmd[p].todo)]])
         /\ Recorder(p).pc = "record" /\ Recorder(p).op = cmd[p].op /\ Recorder(p).queue = cmd[p].queue
         /\ Recorder(p).todo = cmd[p].todo
         /\ Proven(p).pc = "move" /\ Proven(p).op = cmd[p].op /\ Proven(p).queue = cmd[p].queue
         /\ Proven(p).todo = cmd[p].todo /\ Proven(p).cows = cow /\ Proven(p).left = cmd[p].left
         /\ Placing(p).pc = "write" /\ Placing(p).op = cmd[p].op /\ Placing(p).queue = cmd[p].queue
         /\ Placing(p).todo = cmd[p].todo /\ Placing(p).cows = cmd[p].cows /\ Placing(p).left = cmd[p].left
         /\ Carried(p).pc = "cascade" /\ Carried(p).op = cmd[p].op /\ Carried(p).queue = cmd[p].queue
         /\ Carried(p).todo = cmd[p].todo /\ Carried(p).cows = cmd[p].cows /\ Carried(p).left = Followers(p)
  <1>1. cmd[p] \in Commands
    BY DEF TypeInv, TypeOK
  <1> QED
    BY <1>1 DEF Skipped, Taken, Recorder, Proven, Placing, Carried, Commands

LEMMA RestCommand ==
  ASSUME TypeInv, NEW p \in Panes, NEW c \in Coworkers
  PROVE  /\ Rest(p, c).pc = cmd[p].pc /\ Rest(p, c).op = cmd[p].op /\ Rest(p, c).queue = cmd[p].queue
         /\ Rest(p, c).todo = cmd[p].todo /\ Rest(p, c).cows = cmd[p].cows /\ Rest(p, c).left = cmd[p].left \ {c}
  <1>1. cmd[p] \in Commands
    BY DEF TypeInv, TypeOK
  <1> QED
    BY <1>1 DEF Rest, Commands

LEMMA DoneNext ==
  ASSUME TypeInv, NEW p \in Panes, Moving(p)
  PROVE  LET n == Done(cmd[p]) IN
         /\ n.pc \in {"move", "record", "idle"} /\ n.left = {}
         /\ n.pc = "move" => /\ n.queue = Tail(cmd[p].queue) /\ n.queue # <<>> /\ n.op = cmd[p].op
                             /\ n.todo = cmd[p].todo /\ n.cows = cmd[p].cows
         /\ n.pc # "move" => n.queue = <<>> /\ n.todo = <<>> /\ Len(cmd[p].queue) = 1
         /\ n.pc = "record" => n.op = "accept"
         /\ n.op \in {cmd[p].op, "none"}
  <1>1. cmd[p] \in Commands /\ cmd[p].queue # <<>>
    BY InHandOpen DEF TypeInv, TypeOK
  <1> QED
    BY <1>1, DoneCommand

LEMMA EarlyInit == Init => EarlyInv
  <1> SUFFICES ASSUME Init PROVE EarlyInv
    OBVIOUS
  <1>1. at = Opened /\ src = NoSrc /\ cmd = [p \in Panes |-> NoCmd] /\ offer.file = "none"
    BY DEF Init
  <1> QED
    BY <1>1 DEF EarlyInv, Early, Accepting, NoCmd, Moving

LEMMA EarlyStays == ASSUME TypeInv, EarlyInv, Next PROVE EarlyInv'
  <1>1. CASE FileStep
    <2>1. at' = at /\ cmd' = cmd /\ src' = src /\ offer' = offer
      BY <1>1 DEF FileStep, Confirm, WrapUp, Repair, AskCoworker, WriteCoworker, RepairCoworker,
                  WrapUpCoworker, Adopt, Change, Unmoved
    <2> QED
      BY <2>1, EarlyCalm
  <1>2. CASE EndStep
    <2>1. PICK p \in Panes : Restart(p) \/ \E q \in Panes : Resume(p, q)
      BY <1>2 DEF EndStep
    <2>2. IsOpen(p) /\ Killed(p) /\ SourceDies(p) /\ offer' = offer
      BY <2>1 DEF Restart, Resume
    <2>3. \A q \in Panes : cmd'[q] = cmd[q] \/ cmd'[q] = NoCmd
      BY <2>2 DEF Killed, TypeInv, TypeOK
    <2>4. src' = src \/ src'.pc = "dead"
      BY <2>2, DeadSource
    <2>5. p # Receiver => at'[Receiver] = at[Receiver]
      BY <2>1 DEF Restart, Resume, TypeInv, TypeOK
    <2>6. src.pc \in Shut => p # Receiver
      BY <2>2 DEF EarlyInv, Early, Shut, IsOpen
    <2> QED
      BY <2>2, <2>3, <2>4, <2>5, <2>6, EarlyCalm DEF Shut
  <1>3. CASE OfferStep
    <2>1. at' = at /\ cmd' = cmd /\ offer'.file = offer.file /\ src.pc = "none"
      <3>1. PICK list \in Lists, retains \in BOOLEAN : Offer(list, retains)
        BY <1>3 DEF OfferStep
      <3>2. offer = [file |-> offer.file, list |-> offer.list, routes |-> offer.routes]
        BY DEF TypeInv, OfferOK
      <3> QED
        BY <3>1, <3>2 DEF Offer
    <2> QED
      BY <2>1, EarlyCalm DEF Shut
  <1>4. CASE SourceStep
    <2>1. src \in SourceStates /\ cmd \in [Panes -> Commands]
      BY DEF TypeInv, TypeOK, SourceStates
    <2>2. \A q \in Panes : cmd'[q] = cmd[q] \/ cmd'[q] = NoCmd
      <3>1. cmd' = cmd \/ Killed(Receiver)
        BY <1>4 DEF SourceStep, CreateTab, StartReceiver, OpenFails, Look, Prompt, PromptFails, WindowSees,
                    WindowEnds, Win, Leave, Lose, ReceiverCloses, Killed
      <3> QED
        BY <2>1, <3>1 DEF Killed
    <2>3. CASE CreateTab
      <3>1. at' = at /\ offer' = offer /\ src.pc = "opening"
        BY <2>3 DEF CreateTab
      <3> QED
        BY <2>2, <3>1, EarlyCalm DEF Shut
    <2>4. CASE ~CreateTab
      <3>1. src'.pc \notin Shut
        BY <1>4, <2>1, <2>4 DEF SourceStep, StartReceiver, OpenFails, Look, Prompt, PromptFails, WindowSees,
                    WindowEnds, Win, Leave, Lose, SourceGoes, NextTry, SourceStates, Shut
      <3> QED
        BY <2>2, <3>1, EarlyCalm
    <2> QED
      BY <2>3, <2>4
  <1>5. CASE MoveStep
    <2>a. \A p \in Panes : cmd[p].op = "accept" => p = Receiver /\ src.pc \notin Shut
      BY DEF EarlyInv, Accepting, Shut
    <2>b. NoCmd.op = "none" /\ NoCmd.pc = "idle"
      BY DEF NoCmd
    <2>1. CASE StartAccept
      <3>1. PICK there \in Lists : StaysBut(Receiver, Fresh("accept", IF there = <<>> THEN "record" ELSE "load", there))
        BY <2>1, AcceptStep
      <3>2. offer' = offer /\ src.pc \notin Shut
        BY <2>1, AcceptStep DEF EarlyInv, Early, Shut
      <3> DEFINE n == Fresh("accept", IF there = <<>> THEN "record" ELSE "load", there)
      <3>3. n.op = "accept" /\ n.todo = there /\ n.queue = <<>> /\ n.pc = IF there = <<>> THEN "record" ELSE "load"
        BY FreshCommand, ListsAreSequences
      <3> HIDE DEF n
      <3> QED
        BY <3>1, <3>2, <3>3, EarlyMove DEF n
    <2>2. ASSUME NEW p \in Panes, NEW list \in Lists, StartTakeover(p, list) PROVE EarlyInv'
      <3> DEFINE n == Fresh("takeover", "load", list)
      <3>1. StaysBut(p, n) /\ offer' = offer
        BY <2>2, TakeoverStep
      <3>2. n.op = "takeover" /\ n.todo = list /\ n.queue = <<>> /\ n.pc = "load" /\ list # <<>>
        BY <2>2, FreshCommand, ListsAreSequences DEF StartTakeover
      <3> HIDE DEF n
      <3> QED
        BY <3>1, <3>2, EarlyMove
    <2>3. ASSUME NEW p \in Panes, Load(p) PROVE EarlyInv'
      <3>1. offer' = offer /\ cmd[p].pc = "load"
        BY <2>3, LoadStep
      <3>2. CASE StaysBut(p, NoCmd)
        BY <2>b, <3>1, <3>2, EarlyMove
      <3>3. CASE StaysBut(p, Skipped(p)) /\ cmd[p].op = "accept"
        BY <2>a, <3>1, <3>3, EarlyMove, NextCommands
      <3>4. CASE StaysBut(p, Taken(p))
        <4>1. Taken(p).queue # <<>>
          <5> DEFINE job == [on |-> Head(cmd[p].todo), was |-> inst[Head(cmd[p].todo)]]
          <5>1. cmd[p].queue \in Seq(Jobs) /\ cmd[p].todo \in Seq(Dispatches) /\ cmd[p].todo # <<>>
            BY <2>3, LoadStep, Queues DEF TypeInv, TypeOK
          <5>2. Head(cmd[p].todo) \in Dispatches
            BY <5>1, First
          <5>3. job \in Jobs
            BY <5>2 DEF Jobs, TypeInv, TypeOK
          <5>4. Taken(p).queue = Append(cmd[p].queue, job)
            BY NextCommands
          <5> HIDE DEF job
          <5> QED
            BY <5>1, <5>3, <5>4, Longer
        <4> QED
          BY <2>a, <3>1, <3>4, <4>1, EarlyMove, NextCommands
      <3> QED
        BY <2>3, <3>2, <3>3, <3>4, LoadStep DEF Own
    <2>4. ASSUME NEW p \in Panes, Prove(p) PROVE EarlyInv'
      <3>1. offer' = offer /\ cmd[p].pc = "load" /\ cmd[p].todo = <<>> /\ cmd[p] # NoCmd
        BY <2>4, ProveStep
      <3>4. CASE StaysBut(p, NoCmd)
        BY <2>a, <3>1, <3>4, EarlyMove DEF NoCmd
      <3>2. CASE StaysBut(p, Recorder(p)) /\ cmd[p].queue = <<>>
        <4>1. cmd[p].op = "accept"
          BY <3>1, <3>2, SoundCommands DEF EarlyInv, Accepting, Sound, Commands
        <4> QED
          BY <2>a, <3>1, <3>2, <4>1, EarlyMove, NextCommands
      <3>3. CASE StaysBut(p, Proven(p))
        BY <2>a, <3>1, <3>3, EarlyMove, NextCommands
      <3> QED
        BY <2>4, <3>2, <3>3, <3>4, ProveStep
    <2>5. ASSUME NEW p \in Panes, Compare(p) PROVE EarlyInv'
      <3>1. offer' = offer /\ cmd[p].todo = <<>>
        BY <2>5, CompareStep DEF EarlyInv, Accepting
      <3>2. CASE StaysBut(p, NoCmd)
        BY <2>b, <3>1, <3>2, EarlyMove
      <3>3. CASE StaysBut(p, Placing(p))
        <4>1. Placing(p).pc = "write" /\ Placing(p).op = cmd[p].op /\ Placing(p).todo = <<>>
          BY <3>1, NextCommands
        <4> QED
          BY <2>a, <3>1, <3>3, <4>1, EarlyMove
      <3> QED
        BY <2>5, <3>2, <3>3, CompareStep
    <2>6. ASSUME NEW p \in Panes, Record(p) PROVE EarlyInv'
      <3>1. src.pc \notin Shut
        BY <2>6, <2>a, RecordStep DEF EarlyInv, Accepting
      <3> QED
        BY <2>6, <2>b, <3>1, RecordStep, EarlyMove
    <2>7. ASSUME NEW p \in Panes, Moving(p), offer' = offer, StaysBut(p, Done(cmd[p])) PROVE EarlyInv'
      <3> DEFINE n == Done(cmd[p])
      <3>1. /\ n.pc \in {"move", "record", "idle"} /\ n.op \in {cmd[p].op, "none"}
            /\ n.pc = "move" => n.todo = cmd[p].todo
            /\ n.pc = "record" => n.op = "accept" /\ n.queue = <<>> /\ n.todo = <<>>
        BY <2>7, DoneNext
      <3>2. cmd[p].todo = <<>>
        BY <2>7 DEF EarlyInv, Accepting
      <3>3. StaysBut(p, n)
        BY <2>7
      <3> HIDE DEF n
      <3> QED
        BY <2>7, <2>a, <3>1, <3>2, <3>3, EarlyMove
    <2>8. ASSUME NEW p \in Panes, Write(p) PROVE EarlyInv'
      <3>1. offer' = offer /\ cmd[p].todo = <<>> /\ Moving(p)
        BY <2>8, WriteStep DEF EarlyInv, Accepting
      <3>2. CASE StaysBut(p, Carried(p))
        <4>1. Carried(p).pc = "cascade" /\ Carried(p).op = cmd[p].op /\ Carried(p).todo = <<>>
          BY <3>1, NextCommands
        <4> QED
          BY <2>a, <3>1, <3>2, <4>1, EarlyMove
      <3> QED
        BY <2>7, <2>8, <3>1, <3>2, WriteStep
    <2>9. ASSUME NEW p \in Panes, NEW c \in Coworkers, Cascade(p, c) PROVE EarlyInv'
      <3>1. offer' = offer /\ cmd[p].todo = <<>> /\ Moving(p) /\ cmd[p].pc = "cascade"
        BY <2>9, CascadeStep DEF EarlyInv, Accepting
      <3>2. CASE StaysBut(p, Rest(p, c))
        <4>1. Rest(p, c).pc = "cascade" /\ Rest(p, c).op = cmd[p].op /\ Rest(p, c).todo = <<>>
          BY <3>1, RestCommand
        <4> QED
          BY <2>a, <3>1, <3>2, <4>1, EarlyMove
      <3> QED
        BY <2>7, <2>9, <3>1, <3>2, CascadeStep
    <2> QED
      BY <1>5, <2>1, <2>2, <2>3, <2>4, <2>5, <2>6, <2>8, <2>9 DEF MoveStep, CommandStep
  <1> QED
    BY <1>1, <1>2, <1>3, <1>4, <1>5, NextSteps

(***************************************************************************)
(* One move at a time                                                      *)
(***************************************************************************)
\* Nothing is written and no move begins.
LEMMA SerialCalm ==
  ASSUME SerialInv, inst' = inst, cow' = cow,
         \A p \in Panes : cmd'[p] = cmd[p] \/ cmd'[p].pc \notin {"move", "write", "cascade"}
  PROVE  SerialInv'
  <1>1. \A p \in Panes : Moving(p)' => Moving(p) /\ cmd'[p] = cmd[p]
    BY DEF Moving
  <1>2. \A p \in Panes : cmd'[p].pc = "write" => AsLoaded(p)'
    BY DEF SerialInv, AsLoaded, InHand
  <1> QED
    BY <1>1, <1>2 DEF SerialInv

\* Nobody is moving anything.
LEMMA SerialQuiet ==
  ASSUME Quiet, cmd' = cmd
  PROVE  SerialInv'
  BY DEF SerialInv, Quiet, Moving

\* The one that moves goes on.
LEMMA SerialMove ==
  ASSUME SerialInv, TypeInv, NEW p \in Panes, NEW n, StaysBut(p, n), Moving(p),
         n.pc = "write" => inst'[Head(n.queue).on] = Head(n.queue).was,
         n.pc \in {"move", "write", "cascade"} =>
           \A c \in Coworkers : n.cows[c].st = "open" =>
             cow'[c].st = "open" /\ cow'[c].repairs = n.cows[c].repairs /\ cow'[c].late = n.cows[c].late
  PROVE  SerialInv'
  <1>1. cmd'[p] = n /\ \A q \in Panes \ {p} : cmd'[q] = cmd[q]
    BY DEF StaysBut, TypeInv, TypeOK
  <1>2. \A q \in Panes \ {p} : ~Moving(q) /\ cmd'[q] = cmd[q]
    BY <1>1 DEF SerialInv
  <1>3. \A q \in Panes : Moving(q)' => q = p
    BY <1>2 DEF Moving
  <1>4. \A q \in Panes : cmd'[q].pc = "write" => AsLoaded(q)'
    BY <1>1, <1>3 DEF AsLoaded, InHand, Moving
  <1> QED
    BY <1>1, <1>3, <1>4 DEF SerialInv, Moving

LEMMA FileQuiet ==
  ASSUME FileStep, ~Overlaps
  PROVE  Quiet /\ cmd' = cmd /\ offer' = offer
  BY DEF FileStep, Confirm, WrapUp, Repair, AskCoworker, WriteCoworker, RepairCoworker,
         WrapUpCoworker, Adopt, Change, Unmoved, MayWrite

\* Steps that leave the files alone and end commands at most.
LEMMA OthersCalm ==
  ASSUME TypeInv, EndStep \/ OfferStep \/ SourceStep
  PROVE  inst' = inst /\ cow' = cow /\ \A p \in Panes : cmd'[p] = cmd[p] \/ cmd'[p] = NoCmd
  <1>1. cmd \in [Panes -> Commands]
    BY DEF TypeInv, TypeOK
  <1>2. CASE EndStep
    <2>1. PICK p \in Panes : Killed(p) /\ inst' = inst /\ cow' = cow
      BY <1>2 DEF EndStep, Restart, Resume
    <2> QED
      BY <1>1, <2>1 DEF Killed
  <1>3. CASE OfferStep
    BY <1>3 DEF OfferStep, Offer, Untouched
  <1>4. CASE SourceStep
    <2>1. cmd' = cmd \/ Killed(Receiver)
      BY <1>4 DEF SourceStep, CreateTab, StartReceiver, OpenFails, Look, Prompt, PromptFails, WindowSees,
                    WindowEnds, Win, Leave, Lose, ReceiverCloses, Killed
    <2>2. inst' = inst /\ cow' = cow
      BY <1>4 DEF SourceStep, CreateTab, StartReceiver, OpenFails, Look, Prompt, PromptFails, WindowSees,
                    WindowEnds, Win, Leave, Lose, Untouched
    <2> QED
      BY <1>1, <2>1, <2>2 DEF Killed
  <1> QED
    BY <1>2, <1>3, <1>4

LEMMA SerialInit == Init => SerialInv
  <1> SUFFICES ASSUME Init PROVE SerialInv
    OBVIOUS
  <1>1. \A p \in Panes : cmd[p].pc = "idle"
    BY DEF Init, NoCmd
  <1> QED
    BY <1>1 DEF SerialInv, Moving

LEMMA SerialStays == ASSUME TypeInv, SerialInv, Next, ~Overlaps PROVE SerialInv'
  <1>0. cmd \in [Panes -> Commands]
    BY DEF TypeInv, TypeOK
  <1>1. CASE FileStep
    BY <1>1, FileQuiet, SerialQuiet
  <1>2. CASE EndStep \/ OfferStep \/ SourceStep
    BY <1>2, OthersCalm, SerialCalm DEF NoCmd
  <1>3. ASSUME NEW p \in Panes, NEW n, StaysBut(p, n), n.pc \notin {"move", "write", "cascade"},
               inst' = inst, cow' = cow
        PROVE  SerialInv'
    <2>1. \A q \in Panes : cmd'[q] = cmd[q] \/ cmd'[q] = n
      BY <1>0, <1>3 DEF StaysBut
    <2> QED
      BY <1>3, <2>1, SerialCalm
  <1>4. NoCmd.pc = "idle"
    BY DEF NoCmd
  <1>5. CASE StartAccept
    <2>1. PICK there \in Lists : StaysBut(Receiver, Fresh("accept", IF there = <<>> THEN "record" ELSE "load", there))
      BY <1>5, AcceptStep
    <2> DEFINE n == Fresh("accept", IF there = <<>> THEN "record" ELSE "load", there)
    <2>2. n.pc \in {"load", "record"}
      BY FreshCommand, ListsAreSequences
    <2> HIDE DEF n
    <2> QED
      BY <1>3, <1>5, <2>1, <2>2, AcceptStep DEF n
  <1>6. ASSUME NEW p \in Panes, NEW list \in Lists, StartTakeover(p, list) PROVE SerialInv'
    <2> DEFINE n == Fresh("takeover", "load", list)
    <2>1. StaysBut(p, n) /\ inst' = inst /\ cow' = cow
      BY <1>6, TakeoverStep
    <2>2. n.pc = "load"
      BY FreshCommand, ListsAreSequences
    <2> HIDE DEF n
    <2> QED
      BY <1>3, <2>1, <2>2
  <1>7. ASSUME NEW p \in Panes, Load(p) PROVE SerialInv'
    <2>1. inst' = inst /\ cow' = cow /\ cmd[p].pc = "load"
      BY <1>7, LoadStep
    <2>2. Skipped(p).pc = "load" /\ Taken(p).pc = "load"
      BY <2>1, NextCommands
    <2>3. StaysBut(p, NoCmd) \/ StaysBut(p, Skipped(p)) \/ StaysBut(p, Taken(p))
      BY <1>7, LoadStep
    <2> QED
      BY <1>3, <1>4, <2>1, <2>2, <2>3
  <1>8. ASSUME NEW p \in Panes, Prove(p) PROVE SerialInv'
    <2>1. CASE StaysBut(p, Recorder(p))
      <3>1. Recorder(p).pc = "record"
        BY NextCommands
      <3> QED
        BY <1>3, <1>8, <2>1, <3>1, ProveStep
    <2>2. CASE StaysBut(p, Proven(p)) /\ Quiet
      <3>1. Proven(p).pc = "move" /\ Proven(p).cows = cow
        BY NextCommands
      <3>2. cmd'[p] = Proven(p) /\ \A q \in Panes \ {p} : cmd'[q] = cmd[q]
        BY <1>0, <2>2 DEF StaysBut
      <3>3. \A q \in Panes : Moving(q)' => q = p
        BY <2>2, <3>2 DEF Quiet, Moving
      <3>4. cow' = cow /\ \A q \in Panes : cmd'[q].pc # "write"
        BY <1>8, <3>1, <3>2, <3>3, ProveStep DEF Moving
      <3> QED
        BY <2>2, <3>1, <3>2, <3>3, <3>4 DEF SerialInv
    <2>3. CASE StaysBut(p, NoCmd)
      BY <1>3, <1>4, <1>8, <2>3, ProveStep
    <2> QED
      BY <1>8, <2>1, <2>2, <2>3, ProveStep DEF MayWrite
  <1>9. ASSUME NEW p \in Panes, Moving(p)
        PROVE  \A c \in Coworkers : cmd[p].cows[c].st = "open" =>
                 cow[c].st = "open" /\ cow[c].repairs = cmd[p].cows[c].repairs /\ cow[c].late = cmd[p].cows[c].late
    BY <1>9 DEF SerialInv
  <1>10. ASSUME NEW p \in Panes, Compare(p) PROVE SerialInv'
    <2>1. CASE StaysBut(p, NoCmd)
      BY <1>3, <1>4, <1>10, <2>1, CompareStep
    <2>2. CASE StaysBut(p, Placing(p)) /\ AsLoaded(p)
      <3>1. Placing(p).pc = "write" /\ Placing(p).queue = cmd[p].queue /\ Placing(p).cows = cmd[p].cows
        BY NextCommands
      <3>2. Moving(p) /\ inst' = inst /\ cow' = cow
        BY <1>10, CompareStep
      <3>3. inst'[Head(Placing(p).queue).on] = Head(Placing(p).queue).was
        BY <2>2, <3>1, <3>2 DEF AsLoaded, InHand
      <3> QED
        BY <1>9, <2>2, <3>1, <3>2, <3>3, SerialMove
    <2> QED
      BY <1>10, <2>1, <2>2, CompareStep
  <1>11. ASSUME NEW p \in Panes, Record(p) PROVE SerialInv'
    BY <1>3, <1>4, <1>11, RecordStep
  <1>12. ASSUME NEW p \in Panes, StaysBut(p, Done(cmd[p])), Moving(p),
                \A c \in Coworkers : cmd[p].cows[c].st = "open" =>
                  cow'[c].st = "open" /\ cow'[c].repairs = cmd[p].cows[c].repairs /\ cow'[c].late = cmd[p].cows[c].late
         PROVE  SerialInv'
    <2> DEFINE n == Done(cmd[p])
    <2>1. n.pc \in {"move", "record", "idle"} /\ (n.pc = "move" => n.cows = cmd[p].cows)
      BY <1>12, DoneNext
    <2>2. StaysBut(p, n)
      BY <1>12
    <2> HIDE DEF n
    <2> QED
      BY <1>12, <2>1, <2>2, SerialMove
  <1>13. ASSUME NEW p \in Panes, Write(p) PROVE SerialInv'
    <2>1. Moving(p) /\ cow' = cow
      BY <1>13, WriteStep
    <2>3. CASE StaysBut(p, Done(cmd[p]))
      BY <1>9, <1>12, <2>1, <2>3
    <2>4. CASE StaysBut(p, Carried(p))
      <3>1. Carried(p).pc = "cascade" /\ Carried(p).cows = cmd[p].cows
        BY NextCommands
      <3> QED
        BY <1>9, <2>1, <2>4, <3>1, SerialMove
    <2> QED
      BY <1>13, <2>3, <2>4, WriteStep
  <1>14. ASSUME NEW p \in Panes, NEW c \in Coworkers, Cascade(p, c) PROVE SerialInv'
    <2>1. Moving(p) /\ c \in cmd[p].left /\ cmd[p].pc = "cascade"
          /\ cow' = [cow EXCEPT ![c] = [cmd[p].cows[c] EXCEPT !.root = Route(p)]]
      BY <1>14, CascadeStep
    <2>2. cow' \in [Coworkers -> CoworkerFiles]
      BY NextSteps, TypeStays DEF TypeInv, TypeOK
    <2>3. cmd[p].cows[c].st = "open" /\ cmd[p].cows[c] \in CoworkerFiles
      BY <1>0, <2>1, SoundCommands DEF Sound, Commands
    <2>4. cow'[c].st = "open" /\ cow'[c].repairs = cmd[p].cows[c].repairs /\ cow'[c].late = cmd[p].cows[c].late
          /\ \A b \in Coworkers \ {c} : cow'[b] = cow[b]
      BY <2>1, <2>3 DEF TypeInv, TypeOK, CoworkerFiles, None
    <2>6. \A b \in Coworkers : cmd[p].cows[b].st = "open" =>
            cow'[b].st = "open" /\ cow'[b].repairs = cmd[p].cows[b].repairs /\ cow'[b].late = cmd[p].cows[b].late
      BY <1>9, <2>1, <2>4
    <2>7. CASE StaysBut(p, Done(cmd[p]))
      BY <1>12, <2>1, <2>6, <2>7
    <2>8. CASE StaysBut(p, Rest(p, c))
      <3>1. Rest(p, c).pc = "cascade" /\ Rest(p, c).cows = cmd[p].cows
        BY <2>1, RestCommand
      <3> QED
        BY <2>1, <2>6, <2>8, <3>1, SerialMove
    <2> QED
      BY <1>14, <2>7, <2>8, CascadeStep
  <1> QED
    BY <1>1, <1>2, <1>5, <1>6, <1>7, <1>8, <1>10, <1>11, <1>13, <1>14, NextSteps DEF MoveStep, CommandStep

(***************************************************************************)
(* What a step does to the files                                           *)
(***************************************************************************)
LEMMA PrefixGrows ==
  ASSUME NEW S, NEW s \in Seq(S), NEW e
  PROVE  Prefix(s, s) /\ Prefix(s, Append(s, e))
  <1>1. Len(s) \in Nat /\ DOMAIN s = 1..Len(s)
    BY LenProperties
  <1>2. SubSeq(s, 1, Len(s)) = s
    BY SubSeqFull
  <1>3. SubSeq(Append(s, e), 1, Len(s)) = s
    <2> DEFINE t == Append(s, e)
    <2>1. Len(t) = Len(s) + 1 /\ \A i \in 1..Len(s) : t[i] = s[i]
      BY <1>1
    <2>2. SubSeq(t, 1, Len(s)) = [i \in 1..Len(s) |-> t[i]]
      BY <1>1
    <2>3. s = [i \in 1..Len(s) |-> s[i]]
      BY <1>1
    <2> HIDE DEF t
    <2>4. SubSeq(t, 1, Len(s)) = s
      BY <2>1, <2>2, <2>3
    <2> QED
      BY <2>4 DEF t
  <1>4. Len(Append(s, e)) = Len(s) + 1
    BY <1>1
  <1> QED
    BY <1>1, <1>2, <1>3, <1>4 DEF Prefix

Transfers == [how : {"accept", "takeover", "adopt"}, before : RouteRecs, after : RouteRecs]

LEMMA TrailsAreSequences == \A f \in Files : f.trail \in Seq(Transfers)
  BY DEF Files, Transfers

\* A dispatch's file stays, changes beside its route, is adopted or is moved.
LEMMA DispatchSteps ==
  ASSUME TypeInv, Next, NEW d \in Dispatches
  PROVE  \/ inst'[d] = inst[d]
         \/ /\ FileStep
            /\ inst'[d].route = inst[d].route /\ inst'[d].trail = inst[d].trail
            /\ Kept(inst[d], inst'[d]) /\ (inst[d].st = "open" => inst'[d].st \in {"open", "gone"})
         \/ \E p \in Panes : Adopt(p, d) /\ inst'[d] = Moved(inst[d], "adopt", Route(p))
         \/ \E p \in Panes : /\ Write(p) /\ InHand(p).on = d
                             /\ inst'[d] = Moved(InHand(p).was, cmd[p].op, Route(p))
  <1>0. inst \in [Dispatches -> Files] /\ inst[d] \in Files
    BY DEF TypeInv, TypeOK
  <1>1. CASE EndStep \/ OfferStep \/ SourceStep
    BY <1>1, OthersCalm
  <1>2. ASSUME NEW e \in Dispatches, Confirm(e)
        PROVE  /\ inst'[d].route = inst[d].route /\ inst'[d].trail = inst[d].trail
               /\ Kept(inst[d], inst'[d]) /\ (inst[d].st = "open" => inst'[d].st \in {"open", "gone"})
    BY <1>0, <1>2 DEF Confirm, Kept, Files
  <1>3. ASSUME NEW e \in Dispatches, WrapUp(e)
        PROVE  /\ inst'[d].route = inst[d].route /\ inst'[d].trail = inst[d].trail
               /\ Kept(inst[d], inst'[d]) /\ (inst[d].st = "open" => inst'[d].st \in {"open", "gone"})
    BY <1>0, <1>3 DEF WrapUp, Kept, Files
  <1>4. ASSUME NEW e \in Dispatches, Repair(e)
        PROVE  /\ inst'[d].route = inst[d].route /\ inst'[d].trail = inst[d].trail
               /\ Kept(inst[d], inst'[d]) /\ (inst[d].st = "open" => inst'[d].st \in {"open", "gone"})
    BY <1>0, <1>4 DEF Repair, Kept, Files
  <1>5. ASSUME NEW p \in Panes, NEW e \in Dispatches, Adopt(p, e)
        PROVE  inst'[d] = inst[d] \/ (e = d /\ inst'[d] = Moved(inst[d], "adopt", Route(p)))
    BY <1>0, <1>5 DEF Adopt
  <1>6. ASSUME NEW c \in Coworkers, AskCoworker(c) \/ WriteCoworker(c) \/ RepairCoworker(c) \/ WrapUpCoworker(c)
        PROVE  inst'[d] = inst[d]
    BY <1>6 DEF AskCoworker, WriteCoworker, RepairCoworker, WrapUpCoworker
  <1>7. CASE FileStep
    BY <1>2, <1>3, <1>4, <1>5, <1>6, <1>7 DEF FileStep
  <1>8. ASSUME NEW p \in Panes, Write(p)
        PROVE  \/ inst'[d] = inst[d]
               \/ InHand(p).on = d /\ inst'[d] = Moved(InHand(p).was, cmd[p].op, Route(p))
    BY <1>0, <1>8, WriteStep
  <1>9. CASE StartAccept
    BY <1>9, AcceptStep
  <1>10. ASSUME NEW p \in Panes, NEW list \in Lists, StartTakeover(p, list) PROVE inst'[d] = inst[d]
    BY <1>10, TakeoverStep
  <1>11. ASSUME NEW p \in Panes, CommandStep(p), ~Write(p) PROVE inst'[d] = inst[d]
    BY <1>11, LoadStep, ProveStep, CompareStep, RecordStep, CascadeStep DEF CommandStep
  <1>12. CASE MoveStep
    BY <1>8, <1>9, <1>10, <1>11, <1>12 DEF MoveStep
  <1> QED
    BY <1>1, <1>7, <1>12, NextSteps

\* A coworker's file stays, changes beside its root route, is asked for or follows a move.
LEMMA CoworkerSteps ==
  ASSUME TypeInv, Next, NEW c \in Coworkers
  PROVE  \/ cow'[c] = cow[c]
         \/ /\ FileStep /\ cow[c] = None
            /\ cow'[c] = [st |-> "asked", root |-> inst[Parent[c]].route, late |-> FALSE, repairs |-> 0]
            /\ inst' = inst
         \/ /\ FileStep /\ cow[c] # None
            /\ cow'[c].root = cow[c].root /\ Kept(cow[c], cow'[c])
            /\ cow[c].st \in {"asked", "open"} /\ cow'[c].st \in {"open", "gone"}
            /\ cow'[c].st = "open" /\ ~cow'[c].late => Alive(c) \/ cow[c].root = inst[Parent[c]].route
         \/ \E p \in Panes : Cascade(p, c) /\ cow'[c] = [cmd[p].cows[c] EXCEPT !.root = Route(p)]
  <1>0. cow \in [Coworkers -> CoworkerFiles] /\ cow[c] \in CoworkerFiles
    BY DEF TypeInv, TypeOK
  <1>1. CASE EndStep \/ OfferStep \/ SourceStep
    BY <1>1, OthersCalm
  <1>2. ASSUME NEW b \in Coworkers, AskCoworker(b)
        PROVE  \/ cow'[c] = cow[c]
               \/ /\ cow[c] = None /\ inst' = inst
                  /\ cow'[c] = [st |-> "asked", root |-> inst[Parent[c]].route, late |-> FALSE, repairs |-> 0]
    BY <1>0, <1>2 DEF AskCoworker
  <1> DEFINE Beside1 == /\ cow[c] # None /\ cow'[c].root = cow[c].root /\ Kept(cow[c], cow'[c])
                        /\ cow[c].st \in {"asked", "open"} /\ cow'[c].st \in {"open", "gone"}
                        /\ cow'[c].st = "open" /\ ~cow'[c].late => Alive(c) \/ cow[c].root = inst[Parent[c]].route
  <1>3. ASSUME NEW b \in Coworkers, WriteCoworker(b) PROVE cow'[c] = cow[c] \/ Beside1
    BY <1>0, <1>3 DEF WriteCoworker, Asking, CoworkerFiles, None, Kept
  <1>4. ASSUME NEW b \in Coworkers, RepairCoworker(b) PROVE cow'[c] = cow[c] \/ Beside1
    BY <1>0, <1>4 DEF RepairCoworker, CoworkerFiles, None, Kept, Alive
  <1>5. ASSUME NEW b \in Coworkers, WrapUpCoworker(b) PROVE cow'[c] = cow[c] \/ Beside1
    BY <1>0, <1>5 DEF WrapUpCoworker, CoworkerFiles, None, Kept
  <1>6. ASSUME NEW d \in Dispatches, Confirm(d) \/ WrapUp(d) \/ Repair(d) \/ \E p \in Panes : Adopt(p, d)
        PROVE  cow'[c] = cow[c]
    BY <1>6 DEF Confirm, WrapUp, Repair, Adopt
  <1>7. CASE FileStep
    BY <1>2, <1>3, <1>4, <1>5, <1>6, <1>7 DEF FileStep
  <1>8. ASSUME NEW p \in Panes, NEW b \in Coworkers, Cascade(p, b)
        PROVE  cow'[c] = cow[c] \/ (b = c /\ cow'[c] = [cmd[p].cows[c] EXCEPT !.root = Route(p)])
    BY <1>0, <1>8, CascadeStep
  <1>9. CASE StartAccept
    BY <1>9, AcceptStep
  <1>10. ASSUME NEW p \in Panes, NEW list \in Lists, StartTakeover(p, list) PROVE cow'[c] = cow[c]
    BY <1>10, TakeoverStep
  <1>11. ASSUME NEW p \in Panes, Load(p) \/ Prove(p) \/ Compare(p) \/ Write(p) \/ Record(p)
         PROVE  cow'[c] = cow[c]
    BY <1>11, LoadStep, ProveStep, CompareStep, RecordStep, WriteStep
  <1>12. CASE MoveStep
    BY <1>8, <1>9, <1>10, <1>11, <1>12 DEF MoveStep, CommandStep
  <1> QED
    BY <1>1, <1>7, <1>12, NextSteps

\* No command writes a file back to what it was.
LEMMA StepUndoesNothing ==
  ASSUME TypeInv, SerialInv, Next, ~Overlaps
  PROVE  /\ \A d \in Dispatches : Kept(inst[d], inst'[d]) /\ Prefix(inst[d].trail, inst'[d].trail)
         /\ \A c \in Coworkers : cow[c].st \in {"open", "gone"} => Kept(cow[c], cow'[c])
  <1>1. ASSUME NEW d \in Dispatches
        PROVE  Kept(inst[d], inst'[d]) /\ Prefix(inst[d].trail, inst'[d].trail)
    <2>1. inst[d] \in Files /\ inst[d].trail \in Seq(Transfers) /\ inst[d].repairs \in Nat
      <3>1. inst[d] \in Files
        BY DEF TypeInv, TypeOK
      <3>2. inst[d].repairs \in Nat
        BY <3>1 DEF Files
      <3> QED
        BY <3>1, <3>2, TrailsAreSequences
    <2>2. Prefix(inst[d].trail, inst[d].trail)
          /\ \A e : Prefix(inst[d].trail, Append(inst[d].trail, e))
      BY <2>1, PrefixGrows
    <2>3. ASSUME NEW how \in {"accept", "takeover", "adopt"}, NEW r \in RouteRecs, inst'[d] = Moved(inst[d], how, r)
          PROVE  Kept(inst[d], inst'[d]) /\ Prefix(inst[d].trail, inst'[d].trail)
      <3>1. /\ inst'[d].st = inst[d].st /\ inst'[d].repairs = inst[d].repairs
            /\ inst'[d].trail = Append(inst[d].trail, [how |-> how, before |-> inst[d].route, after |-> r])
        <4> DEFINE f == inst[d]
        <4>1. f \in Files
          BY <2>1
        <4> HIDE DEF f
        <4>2. /\ Moved(f, how, r).st = f.st /\ Moved(f, how, r).repairs = f.repairs
              /\ Moved(f, how, r).trail = Append(f.trail, [how |-> how, before |-> f.route, after |-> r])
          BY <4>1, MovedFile
        <4> QED
          BY <2>3, <4>2 DEF f
      <3> QED
        BY <2>1, <2>2, <3>1 DEF Kept
    <2>4. CASE inst'[d] = inst[d]
      BY <2>1, <2>2, <2>4 DEF Kept
    <2>5. CASE inst'[d].trail = inst[d].trail /\ Kept(inst[d], inst'[d])
      BY <2>2, <2>5
    <2>6. ASSUME NEW p \in Panes, Adopt(p, d), inst'[d] = Moved(inst[d], "adopt", Route(p))
          PROVE  Kept(inst[d], inst'[d]) /\ Prefix(inst[d].trail, inst'[d].trail)
      <3>1. Route(p) \in RouteRecs
        BY <2>6, FreeToStart, OpenRoute DEF Adopt, TypeInv
      <3> QED
        BY <2>3, <2>6, <3>1
    <2>7. ASSUME NEW p \in Panes, Write(p), InHand(p).on = d,
                 inst'[d] = Moved(InHand(p).was, cmd[p].op, Route(p))
          PROVE  Kept(inst[d], inst'[d]) /\ Prefix(inst[d].trail, inst'[d].trail)
      <3>1. cmd[p] # NoCmd /\ cmd[p].pc = "write"
        BY <2>7, WriteStep
      <3>2. Route(p) \in RouteRecs
        BY <3>1, Busy, OpenRoute DEF TypeInv
      <3>3. InHand(p).was = inst[d]
        BY <2>7, <3>1 DEF SerialInv, AsLoaded
      <3>4. cmd[p].op \in {"accept", "takeover", "adopt"}
        BY <3>1, SoundCommands DEF Sound, Commands
      <3> QED
        BY <2>3, <2>7, <3>2, <3>3, <3>4
    <2> QED
      BY <2>4, <2>5, <2>6, <2>7, DispatchSteps
  <1>2. ASSUME NEW c \in Coworkers, cow[c].st \in {"open", "gone"}
        PROVE  Kept(cow[c], cow'[c])
    <2>1. cow[c] \in CoworkerFiles /\ cow[c] # None /\ cow[c].repairs \in Nat
      BY <1>2 DEF TypeInv, TypeOK, CoworkerFiles, None
    <2>2. ASSUME NEW p \in Panes, Cascade(p, c), cow'[c] = [cmd[p].cows[c] EXCEPT !.root = Route(p)]
          PROVE  Kept(cow[c], cow'[c])
      <3>1. Moving(p) /\ c \in cmd[p].left /\ cmd[p] \in Commands
        BY <2>2, CascadeStep DEF TypeInv, TypeOK
      <3>2. cmd[p].cows[c].st = "open" /\ cmd[p].cows[c] \in CoworkerFiles
        BY <3>1, SoundCommands DEF Sound, Commands
      <3>3. cow[c].st = "open" /\ cow[c].repairs = cmd[p].cows[c].repairs /\ cow[c].late = cmd[p].cows[c].late
        BY <3>1, <3>2 DEF SerialInv
      <3>4. cow'[c].st = "open" /\ cow'[c].repairs = cmd[p].cows[c].repairs /\ cow'[c].late = cmd[p].cows[c].late
        BY <2>2, <3>2 DEF CoworkerFiles, None
      <3> QED
        BY <2>1, <3>3, <3>4 DEF Kept
    <2>3. CASE cow'[c] = cow[c]
      BY <2>1, <2>3 DEF Kept
    <2> QED
      BY <2>1, <2>2, <2>3, CoworkerSteps
  <1> QED
    BY <1>1, <1>2

LEMMA SerialAlways == ASSUME ~Overlaps PROVE Spec => []SerialInv
  <1>1. TypeInv /\ SerialInv /\ [Next]_vars => SerialInv'
    <2> SUFFICES ASSUME TypeInv, SerialInv, [Next]_vars PROVE SerialInv'
      OBVIOUS
    <2>1. CASE UNCHANGED vars
      BY <2>1, SerialCalm DEF vars
    <2> QED
      BY <2>1, SerialStays
  <1> QED
    BY <1>1, SerialInit, TypeAlways, PTL DEF Spec

\* As long as no other command writes between a move's comparison and its write, every
\* transfer, adoption and repair stays on record and nothing wrapped up returns, however
\* many dispatches, coordinators and deaths in between.
THEOREM NothingUndoneAlways == ASSUME ~Overlaps PROVE Spec => NothingUndone
  <1>1. TypeInv /\ SerialInv /\ [Next]_vars =>
          [/\ \A d \in Dispatches : Kept(inst[d], inst'[d]) /\ Prefix(inst[d].trail, inst'[d].trail)
           /\ \A c \in Coworkers : cow[c].st \in {"open", "gone"} => Kept(cow[c], cow'[c])]_vars
    BY StepUndoesNothing
  <1> QED
    BY <1>1, SerialAlways, TypeAlways, PTL DEF Spec, NothingUndone

(***************************************************************************)
(* What a step does to the commands                                        *)
(***************************************************************************)
LEMMA CommandSteps ==
  ASSUME TypeInv, Next, NEW q \in Panes
  PROVE  \/ cmd'[q] = cmd[q]
         \/ cmd'[q] = NoCmd
         \/ /\ q = Receiver /\ StartAccept
            /\ \E there \in Lists :
                 /\ Listed(there) = {d \in Listed(offer.list) : inst[d].st # "gone"}
                 /\ cmd'[q] = Fresh("accept", IF there = <<>> THEN "record" ELSE "load", there)
         \/ \E list \in Lists : StartTakeover(q, list) /\ cmd'[q] = Fresh("takeover", "load", list)
         \/ /\ Load(q)
            /\ \/ cmd'[q] = Skipped(q) /\ inst[Head(cmd[q].todo)].st = "open" /\ Own(q, Head(cmd[q].todo))
               \/ cmd'[q] = Taken(q) /\ inst[Head(cmd[q].todo)].st = "open" /\ MayTake(q, Head(cmd[q].todo))
         \/ /\ Prove(q)
            /\ \/ cmd'[q] = Recorder(q) /\ cmd[q].queue = <<>>
               \/ cmd'[q] = Proven(q)
         \/ Compare(q) /\ cmd'[q] = Placing(q) /\ AsLoaded(q)
         \/ /\ Write(q)
            /\ \/ cmd'[q] = Done(cmd[q]) /\ Followers(q) = {}
               \/ cmd'[q] = Carried(q)
         \/ \E c \in Coworkers : /\ Cascade(q, c)
                                 /\ \/ cmd'[q] = Done(cmd[q]) /\ cmd[q].left = {c}
                                    \/ cmd'[q] = Rest(q, c)
  <1>0. cmd \in [Panes -> Commands]
    BY DEF TypeInv, TypeOK
  <1>1. ASSUME NEW p \in Panes, NEW n, StaysBut(p, n) PROVE cmd'[q] = IF q = p THEN n ELSE cmd[q]
    BY <1>0, <1>1 DEF StaysBut
  <1>2. CASE FileStep
    BY <1>2 DEF FileStep, Confirm, WrapUp, Repair, AskCoworker, WriteCoworker, RepairCoworker,
                WrapUpCoworker, Adopt, Change, Unmoved
  <1>3. CASE EndStep \/ OfferStep \/ SourceStep
    BY <1>3, OthersCalm
  <1>4. CASE StartAccept
    BY <1>1, <1>4, AcceptStep
  <1>5. ASSUME NEW p \in Panes, NEW list \in Lists, StartTakeover(p, list)
        PROVE  cmd'[q] = cmd[q] \/ (q = p /\ cmd'[q] = Fresh("takeover", "load", list))
    BY <1>1, <1>5, TakeoverStep
  <1>6. ASSUME NEW p \in Panes, Load(p)
        PROVE  \/ cmd'[q] = cmd[q] \/ cmd'[q] = NoCmd
               \/ q = p /\ cmd'[q] = Skipped(q) /\ inst[Head(cmd[q].todo)].st = "open" /\ Own(q, Head(cmd[q].todo))
               \/ q = p /\ cmd'[q] = Taken(q) /\ inst[Head(cmd[q].todo)].st = "open" /\ MayTake(q, Head(cmd[q].todo))
    BY <1>1, <1>6, LoadStep
  <1>7. ASSUME NEW p \in Panes, Prove(p)
        PROVE  \/ cmd'[q] = cmd[q] \/ cmd'[q] = NoCmd
               \/ q = p /\ cmd'[q] = Recorder(q) /\ cmd[q].queue = <<>>
               \/ q = p /\ cmd'[q] = Proven(q)
    BY <1>1, <1>7, ProveStep
  <1>8. ASSUME NEW p \in Panes, Compare(p)
        PROVE  \/ cmd'[q] = cmd[q] \/ cmd'[q] = NoCmd
               \/ q = p /\ cmd'[q] = Placing(q) /\ AsLoaded(q)
    BY <1>1, <1>8, CompareStep
  <1>9. ASSUME NEW p \in Panes, Record(p)
        PROVE  cmd'[q] = cmd[q] \/ cmd'[q] = NoCmd
    BY <1>1, <1>9, RecordStep
  <1>10. ASSUME NEW p \in Panes, Write(p)
         PROVE  \/ cmd'[q] = cmd[q]
                \/ q = p /\ cmd'[q] = Done(cmd[q]) /\ Followers(q) = {}
                \/ q = p /\ cmd'[q] = Carried(q)
    BY <1>1, <1>10, WriteStep
  <1>11. ASSUME NEW p \in Panes, NEW c \in Coworkers, Cascade(p, c)
         PROVE  \/ cmd'[q] = cmd[q]
                \/ q = p /\ cmd'[q] = Done(cmd[q]) /\ cmd[q].left = {c}
                \/ q = p /\ cmd'[q] = Rest(q, c)
    BY <1>1, <1>11, CascadeStep
  <1>12. CASE MoveStep
    <2>1. CASE \E p \in Panes : CommandStep(p)
      <3>1. PICK p \in Panes : CommandStep(p)
        BY <2>1
      <3>2. CASE q = p
        BY <3>1, <3>2, <1>6, <1>7, <1>8, <1>9, <1>10, <1>11 DEF CommandStep
      <3>3. CASE q # p
        BY <3>1, <3>3, <1>0, <1>1, LoadStep, ProveStep, CompareStep, RecordStep, WriteStep, CascadeStep DEF CommandStep
      <3> QED
        BY <3>2, <3>3
    <2>2. CASE StartAccept
      BY <1>4, <2>2
    <2>3. CASE \E p \in Panes, list \in Lists : StartTakeover(p, list)
      BY <1>5, <2>3
    <2> QED
      BY <1>12, <2>1, <2>2, <2>3 DEF MoveStep
  <1> QED
    BY <1>2, <1>3, <1>12, NextSteps

LEMMA DueFresh ==
  ASSUME NEW op \in {"accept", "takeover"}, NEW pc \in {"load", "record"}, NEW todo \in Seq(Dispatches), NEW d
  PROVE  Due(Fresh(op, pc, todo), d) <=> d \in Listed(todo)
  <1> DEFINE n == Fresh(op, pc, todo)
  <1>1. n.queue = <<>> /\ n.todo = todo
    BY FreshCommand
  <1>2. DOMAIN n.queue = {}
    BY <1>1, EmptySeq
  <1> HIDE DEF n
  <1>3. Due(n, d) <=> d \in Listed(todo)
    BY <1>1, <1>2 DEF Due, Listed
  <1> QED
    BY <1>3 DEF n

LEMMA DueLoads ==
  ASSUME TypeInv, NEW p \in Panes, cmd[p].pc = "load", cmd[p].todo # <<>>, NEW d
  PROVE  /\ Due(Skipped(p), d) => Ahead(p, d)
         /\ Ahead(p, d) => Due(Skipped(p), d) \/ d = Head(cmd[p].todo)
         /\ Due(Taken(p), d) <=> Ahead(p, d)
  <1> DEFINE e == Head(cmd[p].todo)
             job == [on |-> e, was |-> inst[e]]
             todo == cmd[p].todo
             queue == cmd[p].queue
             queued == \E i \in DOMAIN queue : queue[i].on = d
             later == \E i \in DOMAIN Tail(todo) : Tail(todo)[i] = d
  <1>1. todo \in Seq(Dispatches) /\ queue \in Seq(Jobs)
    BY Queues DEF TypeInv, TypeOK
  <1>2. e \in Dispatches /\ e = todo[1] /\ 1 \in DOMAIN todo
    BY <1>1, First
  <1>3. job \in Jobs /\ job.on = e
    BY <1>2 DEF Jobs, TypeInv, TypeOK
  <1>4. (\E i \in DOMAIN todo : todo[i] = d) <=> later \/ d = e
    <2>1. \A i \in DOMAIN Tail(todo) : i + 1 \in DOMAIN todo /\ Tail(todo)[i] = todo[i + 1]
      BY <1>1, First
    <2>2. \A i \in DOMAIN todo : i # 1 => i - 1 \in DOMAIN Tail(todo) /\ todo[i] = Tail(todo)[i - 1]
      BY <1>1, First
    <2> QED
      BY <1>2, <2>1, <2>2
  <1>5. (\E i \in DOMAIN Append(queue, job) : Append(queue, job)[i].on = d) <=> queued \/ d = e
    <2> HIDE DEF job
    <2>1. /\ DOMAIN Append(queue, job) = DOMAIN queue \cup {Len(queue) + 1}
          /\ \A i \in DOMAIN queue : Append(queue, job)[i] = queue[i]
          /\ Append(queue, job)[Len(queue) + 1] = job
      BY <1>1, <1>3, Longer
    <2> DEFINE longer == Append(queue, job)
               last == Len(queue) + 1
    <2> HIDE DEF longer, last
    <2>2. /\ DOMAIN longer = DOMAIN queue \cup {last}
          /\ \A i \in DOMAIN queue : longer[i] = queue[i]
          /\ longer[last] = job
      BY <2>1 DEF longer, last
    <2>3. (\E i \in DOMAIN longer : longer[i].on = d) <=> queued \/ d = e
      BY <1>3, <2>2
    <2> QED
      BY <2>3 DEF longer
  <1>6. Ahead(p, d) <=> later \/ d = e \/ queued
    BY <1>4 DEF Ahead, Due
  <1>7. Due(Skipped(p), d) <=> later \/ queued
    <2> DEFINE n == Skipped(p)
    <2>1. n.todo = Tail(todo) /\ n.queue = queue /\ n.pc = "load"
      BY NextCommands
    <2> HIDE DEF n
    <2>2. Due(n, d) <=> later \/ queued
      BY <2>1 DEF Due
    <2> QED
      BY <2>2 DEF n
  <1>8. Due(Taken(p), d) <=> later \/ queued \/ d = e
    <2> DEFINE n == Taken(p)
    <2>1. n.todo = Tail(todo) /\ n.queue = Append(queue, job) /\ n.pc = "load"
      BY NextCommands
    <2> HIDE DEF n
    <2>2. Due(n, d) <=> later \/ (\E i \in DOMAIN Append(queue, job) : Append(queue, job)[i].on = d)
      BY <2>1 DEF Due
    <2> QED
      BY <1>5, <2>2 DEF n
  <1> QED
    BY <1>6, <1>7, <1>8

LEMMA DueAlike ==
  ASSUME NEW m, NEW n, NEW d, n.todo = m.todo, n.queue = m.queue, n.pc = "cascade" <=> m.pc = "cascade"
  PROVE  Due(n, d) <=> Due(m, d)
  BY DEF Due

LEMMA DueSame ==
  ASSUME TypeInv, NEW p \in Panes, NEW d
  PROVE  /\ cmd[p].pc = "load" => (Due(Proven(p), d) <=> Ahead(p, d))
         /\ cmd[p].pc = "load" => (Due(Recorder(p), d) <=> Ahead(p, d))
         /\ cmd[p].pc = "move" => (Due(Placing(p), d) <=> Ahead(p, d))
         /\ \A c \in Coworkers : Due(Rest(p, c), d) <=> Ahead(p, d)
  <1>1. cmd[p].pc = "load" => (Due(Proven(p), d) <=> Ahead(p, d))
    BY NextCommands, DueAlike DEF Ahead
  <1>2. cmd[p].pc = "load" => (Due(Recorder(p), d) <=> Ahead(p, d))
    BY NextCommands, DueAlike DEF Ahead
  <1>3. cmd[p].pc = "move" => (Due(Placing(p), d) <=> Ahead(p, d))
    BY NextCommands, DueAlike DEF Ahead
  <1>4. \A c \in Coworkers : Due(Rest(p, c), d) <=> Ahead(p, d)
    BY RestCommand, DueAlike DEF Ahead
  <1> QED
    BY <1>1, <1>2, <1>3, <1>4

\* The dispatch in hand is done with as soon as it is written.
LEMMA DueMoves ==
  ASSUME TypeInv, EarlyInv, NEW p \in Panes, Moving(p), NEW d
  PROVE  /\ Due(Carried(p), d) => Ahead(p, d)
         /\ Ahead(p, d) => Due(Carried(p), d) \/ d = InHand(p).on
         /\ Due(Done(cmd[p]), d) <=> Due(Carried(p), d)
         /\ cmd[p].pc = "cascade" => (Ahead(p, d) <=> Due(Done(cmd[p]), d))
  <1> DEFINE queue == cmd[p].queue
             later == \E i \in DOMAIN queue : queue[i].on = d /\ i # 1
  <1>1. queue \in Seq(Jobs) /\ queue # <<>> /\ cmd[p].todo = <<>>
    BY InHandOpen, Queues DEF TypeInv, TypeOK, EarlyInv, Accepting
  <1>2. 1 \in DOMAIN queue /\ InHand(p) = queue[1]
    BY InHandOpen
  <1>3. DOMAIN cmd[p].todo = {}
    BY <1>1, EmptySeq
  <1>4. Due(Carried(p), d) <=> later
    <2> DEFINE n == Carried(p)
    <2>1. n.todo = cmd[p].todo /\ n.queue = queue /\ n.pc = "cascade"
      BY NextCommands
    <2> HIDE DEF n
    <2>2. Due(n, d) <=> later
      BY <1>3, <2>1 DEF Due
    <2> QED
      BY <2>2 DEF n
  <1>5. cmd[p].pc = "cascade" => (Ahead(p, d) <=> later)
    BY <1>3 DEF Ahead, Due
  <1>6. cmd[p].pc # "cascade" => (Ahead(p, d) <=> later \/ d = InHand(p).on)
    BY <1>2, <1>3 DEF Ahead, Due
  <1>7. Due(Done(cmd[p]), d) <=> later
    <2> DEFINE n == Done(cmd[p])
    <2>1. /\ n.pc \in {"move", "record", "idle"}
          /\ n.pc = "move" => n.queue = Tail(queue) /\ n.todo = cmd[p].todo
          /\ n.pc # "move" => n.queue = <<>> /\ n.todo = <<>> /\ Len(queue) = 1
      BY DoneNext
    <2> HIDE DEF n
    <2>2. DOMAIN n.todo = {}
      BY <2>1, <1>1, <1>3
    <2>3. CASE n.pc = "move"
      <3>1. \A i \in DOMAIN Tail(queue) : i + 1 \in DOMAIN queue /\ Tail(queue)[i] = queue[i + 1] /\ i + 1 # 1
        <4>1. \A i \in DOMAIN Tail(queue) : i \in Nat \ {0}
          <5>1. Tail(queue) \in Seq(Jobs)
            BY <1>1, First
          <5> QED
            BY <5>1, LenProperties
        <4> QED
          BY <1>1, <4>1, First
      <3>2. \A i \in DOMAIN queue : i # 1 => i - 1 \in DOMAIN Tail(queue) /\ queue[i] = Tail(queue)[i - 1]
        BY <1>1, First
      <3>3. (\E i \in DOMAIN Tail(queue) : Tail(queue)[i].on = d) <=> later
        BY <3>1, <3>2
      <3>4. Due(n, d) <=> \E i \in DOMAIN Tail(queue) : Tail(queue)[i].on = d
        BY <2>1, <2>2, <2>3 DEF Due
      <3> QED
        BY <3>3, <3>4 DEF n
    <2>4. CASE n.pc # "move"
      <3>1. DOMAIN n.queue = {} /\ DOMAIN queue = {1}
        BY <1>1, <2>1, <2>4, EmptySeq, LenProperties
      <3> QED
        BY <2>2, <3>1 DEF Due, n
    <2> QED
      BY <2>3, <2>4
  <1> QED
    BY <1>4, <1>5, <1>6, <1>7

(***************************************************************************)
(* Only what was offered is accepted                                       *)
(***************************************************************************)
\* The offer stays as its source made it.
LEMMA OfferKeeps ==
  ASSUME TypeInv, EarlyInv, Next
  PROVE  /\ ~OfferStep => offer'.routes = offer.routes /\ offer'.list = offer.list
         /\ OfferStep => /\ src.pc = "none" /\ inst' = inst /\ cmd' = cmd /\ at' = at
                         /\ \A p \in Panes : cmd[p].op # "accept"
         /\ offer'.file = "accepted" => offer.file = "accepted" \/ \E p \in Panes : Record(p)
  <1>0. offer = [file |-> offer.file, list |-> offer.list, routes |-> offer.routes]
    BY DEF TypeInv, OfferOK
  <1>1. CASE OfferStep
    <2>1. PICK list \in Lists, retains \in BOOLEAN : Offer(list, retains)
      BY <1>1 DEF OfferStep
    <2>2. src.pc = "none" /\ inst' = inst /\ cmd' = cmd /\ at' = at /\ offer'.file = offer.file
      BY <1>0, <2>1 DEF Offer, Untouched
    <2>3. \A p \in Panes : cmd[p].op # "accept"
      BY <2>2 DEF EarlyInv, Accepting
    <2> QED
      BY <1>1, <2>2, <2>3
  <1> DEFINE Same == /\ offer'.routes = offer.routes /\ offer'.list = offer.list
                     /\ offer'.file = "accepted" => offer.file = "accepted" \/ \E p \in Panes : Record(p)
  <1>2. ASSUME FileStep PROVE Same
    BY <1>2 DEF FileStep, Confirm, WrapUp, Repair, AskCoworker, WriteCoworker, RepairCoworker,
                WrapUpCoworker, Adopt, Change, Unmoved
  <1>3. ASSUME EndStep PROVE Same
    BY <1>3 DEF EndStep, Restart, Resume
  <1>4. ASSUME SourceStep PROVE Same
    BY <1>0, <1>4 DEF SourceStep, CreateTab, StartReceiver, OpenFails, Look, Prompt, PromptFails, WindowSees,
                      WindowEnds, Win, Leave, Lose
  <1>5. ASSUME StartAccept PROVE Same
    BY <1>5, AcceptStep
  <1>6. ASSUME NEW p \in Panes, NEW list \in Lists, StartTakeover(p, list) PROVE Same
    BY <1>6, TakeoverStep
  <1>7. ASSUME NEW p \in Panes, Load(p) \/ Prove(p) \/ Compare(p) \/ Write(p) \/ \E c \in Coworkers : Cascade(p, c)
        PROVE  Same
    BY <1>7, LoadStep, ProveStep, CompareStep, WriteStep, CascadeStep
  <1>8. ASSUME NEW p \in Panes, Record(p)
        PROVE  Same
    BY <1>0, <1>8, RecordStep
  <1>9. ASSUME MoveStep PROVE Same
    BY <1>5, <1>6, <1>7, <1>8, <1>9 DEF MoveStep, CommandStep
  <1> QED
    BY <1>1, <1>2, <1>3, <1>4, <1>9, NextSteps

\* What is still queued was offered so.
AsOffered(n) == \A i \in DOMAIN n.queue : n.queue[i].was.route = offer.routes[n.queue[i].on]

LEMMA OfferedInit == Init => OfferedInv
  BY DEF Init, OfferedInv, NoCmd

LEMMA OfferedStays == ASSUME TypeInv, EarlyInv, OfferedInv, Next PROVE OfferedInv'
  <1> SUFFICES ASSUME NEW q \in Panes, cmd'[q].op = "accept" PROVE AsOffered(cmd[q])'
    BY DEF OfferedInv, AsOffered
  <1>0. cmd \in [Panes -> Commands] /\ cmd[q].queue \in Seq(Jobs) /\ cmd[q].todo \in Seq(Dispatches)
    BY Queues DEF TypeInv, TypeOK
  <1>1. ~OfferStep
    BY OfferKeeps
  <1>2. offer'.routes = offer.routes
    BY <1>1, OfferKeeps
  <1>3. cmd[q].op = "accept" => AsOffered(cmd[q])
    BY DEF OfferedInv, AsOffered
  <1>4. ASSUME NEW n, cmd'[q] = n, n.queue = cmd[q].queue, n.op = cmd[q].op
        PROVE  AsOffered(cmd[q])'
    BY <1>2, <1>3, <1>4 DEF AsOffered
  <1>5. ASSUME NEW n, cmd'[q] = n, n.queue = <<>> PROVE AsOffered(cmd[q])'
    <2>1. DOMAIN n.queue = {}
      BY <1>5, EmptySeq
    <2> QED
      BY <1>5, <2>1 DEF AsOffered
  <1>6. CASE cmd'[q] = cmd[q]
    BY <1>4, <1>6
  <1>7. CASE cmd'[q] = NoCmd
    BY <1>7 DEF NoCmd
  <1>8. CASE /\ q = Receiver /\ StartAccept
             /\ \E there \in Lists :
                  cmd'[q] = Fresh("accept", IF there = <<>> THEN "record" ELSE "load", there)
    BY <1>5, <1>8, FreshCommand, ListsAreSequences
  <1>9. CASE \E list \in Lists : StartTakeover(q, list) /\ cmd'[q] = Fresh("takeover", "load", list)
    BY <1>5, <1>9, FreshCommand, ListsAreSequences
  <1>10. CASE Load(q) /\ cmd'[q] = Skipped(q)
    BY <1>4, <1>10, NextCommands
  <1>11. CASE Load(q) /\ cmd'[q] = Taken(q) /\ MayTake(q, Head(cmd[q].todo))
    <2> DEFINE d == Head(cmd[q].todo)
               job == [on |-> d, was |-> inst[d]]
               queue == cmd[q].queue
    <2>1. d \in Dispatches
      BY <1>11, LoadStep
    <2>2. job \in Jobs /\ job.on = d /\ job.was = inst[d]
      BY <2>1 DEF Jobs, TypeInv, TypeOK
    <2>3. Taken(q).queue = Append(queue, job) /\ Taken(q).op = cmd[q].op
      BY NextCommands
    <2>4. job.was.route = offer.routes[job.on]
      BY <1>11, <2>2, <2>3 DEF MayTake
    <2> HIDE DEF job, d
    <2>5. /\ DOMAIN Append(queue, job) = DOMAIN queue \cup {Len(queue) + 1}
          /\ \A i \in DOMAIN queue : Append(queue, job)[i] = queue[i]
          /\ Append(queue, job)[Len(queue) + 1] = job
      BY <1>0, <2>2, Longer
    <2>6. AsOffered(cmd[q])
      BY <1>3, <1>11, <2>3
    <2> DEFINE n == Taken(q)
    <2>7. n.queue = Append(queue, job)
      BY <2>3
    <2>8. cmd'[q] = n
      BY <1>11
    <2> HIDE DEF n
    <2> DEFINE longer == Append(queue, job)
               last == Len(queue) + 1
    <2>9. /\ DOMAIN longer = DOMAIN queue \cup {last}
          /\ \A i \in DOMAIN queue : longer[i] = queue[i]
          /\ longer[last] = job /\ n.queue = longer
      BY <2>5, <2>7
    <2> HIDE DEF longer, last
    <2>10. \A i \in DOMAIN longer : longer[i].was.route = offer.routes[longer[i].on]
      BY <2>4, <2>6, <2>9 DEF AsOffered
    <2> QED
      BY <1>2, <2>8, <2>9, <2>10 DEF AsOffered
  <1>12. CASE Prove(q) /\ (cmd'[q] = Recorder(q) \/ cmd'[q] = Proven(q))
    BY <1>4, <1>12, NextCommands
  <1>13. CASE Compare(q) /\ cmd'[q] = Placing(q)
    BY <1>4, <1>13, NextCommands
  <1>14. CASE Write(q) /\ cmd'[q] = Carried(q)
    BY <1>4, <1>14, NextCommands
  <1>15. CASE \E c \in Coworkers : cmd'[q] = Rest(q, c)
    BY <1>4, <1>15, RestCommand
  <1>16. CASE Moving(q) /\ cmd'[q] = Done(cmd[q])
    <2> DEFINE n == Done(cmd[q])
    <2>1. /\ n.pc \in {"move", "record", "idle"}
          /\ n.pc = "move" => n.queue = Tail(cmd[q].queue) /\ n.op = cmd[q].op
          /\ n.pc # "move" => n.queue = <<>>
      BY <1>16, DoneNext
    <2>2. cmd'[q] = n
      BY <1>16
    <2> HIDE DEF n
    <2>3. CASE n.pc = "move"
      <3>1. \A i \in DOMAIN Tail(cmd[q].queue) : i + 1 \in DOMAIN cmd[q].queue /\ Tail(cmd[q].queue)[i] = cmd[q].queue[i + 1]
        BY <1>0, <1>16, First, InHandOpen
      <3>2. AsOffered(cmd[q])
        BY <1>3, <2>1, <2>2, <2>3
      <3> DEFINE rest == Tail(cmd[q].queue)
      <3>3. n.queue = rest /\ \A i \in DOMAIN rest : i + 1 \in DOMAIN cmd[q].queue /\ rest[i] = cmd[q].queue[i + 1]
        BY <2>1, <2>3, <3>1
      <3> HIDE DEF rest
      <3>4. \A i \in DOMAIN rest : rest[i].was.route = offer.routes[rest[i].on]
        <4> TAKE i \in DOMAIN rest
        <4>1. i + 1 \in DOMAIN cmd[q].queue /\ rest[i] = cmd[q].queue[i + 1]
          BY <3>3
        <4>2. cmd[q].queue[i + 1].was.route = offer.routes[cmd[q].queue[i + 1].on]
          BY <3>2, <4>1 DEF AsOffered
        <4> QED
          BY <4>1, <4>2
      <3> QED
        BY <1>2, <2>2, <3>3, <3>4 DEF AsOffered
    <2> QED
      BY <1>5, <2>1, <2>2, <2>3
  <1> QED
    BY <1>6, <1>7, <1>8, <1>9, <1>10, <1>11, <1>12, <1>13, <1>14, <1>15, <1>16, CommandSteps, WriteStep, CascadeStep

LEMMA OfferedAlways == Spec => []OfferedInv
  <1>1. TypeInv /\ EarlyInv /\ [Next]_vars => EarlyInv'
    BY EarlyStays DEF vars, EarlyInv, Early, Accepting, Moving
  <1>2. TypeInv /\ EarlyInv /\ OfferedInv /\ [Next]_vars => OfferedInv'
    BY OfferedStays DEF vars, OfferedInv
  <1> QED
    BY <1>1, <1>2, EarlyInit, OfferedInit, TypeAlways, PTL DEF Spec

\* Whatever changes a dispatch's trail or route is a transfer, and goes on record.
LEMMA TrailSteps ==
  ASSUME TypeInv, SerialInv, Next, NEW d \in Dispatches,
         inst'[d].trail # inst[d].trail \/ inst'[d].route # inst[d].route
  PROVE  \E how \in {"accept", "takeover", "adopt"}, r \in RouteRecs :
           /\ inst'[d].st = inst[d].st /\ inst'[d].route = r
           /\ inst'[d].trail = Append(inst[d].trail, [how |-> how, before |-> inst[d].route, after |-> r])
           /\ \/ how = "adopt" /\ \E p \in Panes : Adopt(p, d) /\ r = Route(p)
              \/ \E p \in Panes : /\ Write(p) /\ InHand(p).on = d /\ InHand(p).was = inst[d]
                                  /\ how = cmd[p].op /\ r = Route(p)
  <1>1. inst[d] \in Files
    BY DEF TypeInv, TypeOK
  <1>2. ASSUME NEW how \in {"accept", "takeover", "adopt"}, NEW r \in RouteRecs, inst'[d] = Moved(inst[d], how, r)
        PROVE  /\ inst'[d].st = inst[d].st /\ inst'[d].route = r
               /\ inst'[d].trail = Append(inst[d].trail, [how |-> how, before |-> inst[d].route, after |-> r])
    <2> DEFINE f == inst[d]
    <2>1. f \in Files
      BY <1>1
    <2> HIDE DEF f
    <2>2. /\ Moved(f, how, r).st = f.st /\ Moved(f, how, r).route = r
          /\ Moved(f, how, r).trail = Append(f.trail, [how |-> how, before |-> f.route, after |-> r])
      BY <2>1, MovedFile
    <2> QED
      BY <1>2, <2>2 DEF f
  <1>3. ASSUME NEW p \in Panes, Adopt(p, d), inst'[d] = Moved(inst[d], "adopt", Route(p))
        PROVE  Route(p) \in RouteRecs
    BY <1>3, FreeToStart, OpenRoute DEF Adopt, TypeInv
  <1>4. ASSUME NEW p \in Panes, Write(p), InHand(p).on = d
        PROVE  /\ Route(p) \in RouteRecs /\ InHand(p).was = inst[d]
               /\ cmd[p].op \in {"accept", "takeover", "adopt"}
    <2>1. cmd[p] # NoCmd /\ cmd[p].pc = "write"
      BY <1>4, WriteStep
    <2>2. Route(p) \in RouteRecs
      BY <2>1, Busy, OpenRoute DEF TypeInv
    <2>3. InHand(p).was = inst[d]
      BY <1>4, <2>1 DEF SerialInv, AsLoaded
    <2>4. cmd[p].op \in {"accept", "takeover", "adopt"}
      BY <2>1, SoundCommands DEF Sound, Commands
    <2> QED
      BY <2>2, <2>3, <2>4
  <1>5. inst'[d] # inst[d]
    OBVIOUS
  <1>6. PICK p \in Panes :
          \/ Adopt(p, d) /\ inst'[d] = Moved(inst[d], "adopt", Route(p))
          \/ Write(p) /\ InHand(p).on = d /\ inst'[d] = Moved(InHand(p).was, cmd[p].op, Route(p))
    BY <1>5, DispatchSteps
  <1>7. CASE Adopt(p, d) /\ inst'[d] = Moved(inst[d], "adopt", Route(p))
    BY <1>2, <1>3, <1>7
  <1>8. CASE Write(p) /\ InHand(p).on = d /\ inst'[d] = Moved(InHand(p).was, cmd[p].op, Route(p))
    <2>1. /\ Route(p) \in RouteRecs /\ InHand(p).was = inst[d]
          /\ cmd[p].op \in {"accept", "takeover", "adopt"}
      BY <1>4, <1>8
    <2> QED
      BY <1>2, <1>8, <2>1
  <1> QED
    BY <1>6, <1>7, <1>8

LEMMA StepTakesOffered ==
  ASSUME TypeInv, SerialInv, OfferedInv, Next, NEW d \in Dispatches,
         inst'[d].trail # inst[d].trail, inst'[d].trail[Len(inst'[d].trail)].how = "accept"
  PROVE  inst[d].route = offer.routes[d]
  <1>1. inst[d].trail \in Seq(Transfers) /\ inst[d].route \in RouteRecs
    BY TrailsAreSequences DEF TypeInv, TypeOK, Files
  <1>2. PICK how \in {"accept", "takeover", "adopt"}, r \in RouteRecs :
           /\ inst'[d].st = inst[d].st /\ inst'[d].route = r
           /\ inst'[d].trail = Append(inst[d].trail, [how |-> how, before |-> inst[d].route, after |-> r])
           /\ \/ how = "adopt" /\ \E p \in Panes : Adopt(p, d) /\ r = Route(p)
              \/ \E p \in Panes : /\ Write(p) /\ InHand(p).on = d /\ InHand(p).was = inst[d]
                                  /\ how = cmd[p].op /\ r = Route(p)
    BY TrailSteps
  <1> DEFINE e == [how |-> how, before |-> inst[d].route, after |-> r]
  <1>3. e \in Transfers /\ e.how = how
    BY <1>1 DEF Transfers
  <1> HIDE DEF e
  <1>4. inst'[d].trail[Len(inst'[d].trail)] = e
    <2>1. inst'[d].trail = Append(inst[d].trail, e)
      BY <1>2 DEF e
    <2> QED
      BY <1>1, <1>3, <2>1, Longer
  <1>5. how = "accept"
    BY <1>3, <1>4
  <1>6. PICK p \in Panes : Write(p) /\ InHand(p).on = d /\ InHand(p).was = inst[d] /\ cmd[p].op = "accept"
    BY <1>2, <1>5
  <1>7. 1 \in DOMAIN cmd[p].queue /\ InHand(p) = cmd[p].queue[1]
    BY <1>6, WriteStep, InHandOpen
  <1>8. InHand(p).was.route = offer.routes[InHand(p).on]
    BY <1>6, <1>7 DEF OfferedInv
  <1> QED
    BY <1>6, <1>8

\* As long as no other command writes between a move's comparison and its write, an
\* acceptance takes a dispatch only from the route its source offered it with: what
\* somebody else took over since the offer stays taken.
THEOREM TakenStaysTakenAlways == ASSUME ~Overlaps PROVE Spec => TakenStaysTaken
  <1>1. TypeInv /\ SerialInv /\ OfferedInv /\ [Next]_vars =>
          [\A d \in Dispatches :
             inst'[d].trail # inst[d].trail /\ inst'[d].trail[Len(inst'[d].trail)].how = "accept"
               => inst[d].route = offer.routes[d]]_vars
    BY StepTakesOffered
  <1> QED
    BY <1>1, SerialAlways, OfferedAlways, TypeAlways, PTL DEF Spec, TakenStaysTaken

(***************************************************************************)
(* Nothing is left behind                                                  *)
(***************************************************************************)
Over == {"won", "leave", "left"}

LEMMA SourceKeeps ==
  ASSUME TypeInv, Next, ~OfferStep
  PROVE  /\ src'.conv = src.conv /\ src'.knew = src.knew /\ src'.retains = src.retains
         /\ Bound' => Bound
         /\ src'.pc \in Over => src.pc \in Over \/ Accepted
         /\ src'.pc \in {"leave", "left"} => src.pc \in {"leave", "left"} \/ ~src.retains
  <1>0. /\ src \in [pc : {"none", "opening", "starting", "look", "window", "won", "leave", "left", "lost", "done", "dead"},
                    tries : 0..2, told : BOOLEAN, retains : BOOLEAN, conv : Nat, knew : SUBSET Dispatches]
    BY DEF TypeInv, TypeOK
  <1>1. CASE src' = src
    BY <1>1 DEF Bound, Handing, Over
  <1>2. CASE EndStep
    <2>1. PICK p \in Panes : SourceDies(p)
      BY <1>2 DEF EndStep, Restart, Resume
    <2> QED
      BY <1>0, <1>1, <2>1 DEF SourceDies, Bound, Handing, Over
  <1>3. CASE FileStep
    BY <1>1, <1>3 DEF FileStep, Confirm, WrapUp, Repair, AskCoworker, WriteCoworker, RepairCoworker,
                WrapUpCoworker, Adopt, Change, Unmoved
  <1>4. CASE Win \/ Leave
    BY <1>0, <1>4 DEF Win, Leave, SourceGoes, Bound, Handing, Over
  <1>5. CASE CreateTab \/ StartReceiver \/ OpenFails \/ Look \/ WindowSees \/ Lose
    BY <1>0, <1>5 DEF CreateTab, StartReceiver, OpenFails, Look, WindowSees, Lose, SourceGoes, Bound, Handing, Over
  <1>6. CASE Prompt \/ PromptFails \/ WindowEnds
    BY <1>0, <1>6 DEF Prompt, PromptFails, WindowEnds, NextTry, Bound, Handing, Over
  <1>7. CASE StartAccept
    BY <1>1, <1>7 DEF StartAccept, Beside
  <1>8. ASSUME NEW p \in Panes, NEW list \in Lists, StartTakeover(p, list) PROVE src' = src
    BY <1>8 DEF StartTakeover, Beside
  <1>9. ASSUME NEW p \in Panes, CommandStep(p) PROVE src' = src
    BY <1>9 DEF CommandStep, Load, Prove, Compare, Write, Record, Cascade, Beside
  <1>10. CASE MoveStep
    BY <1>1, <1>7, <1>8, <1>9, <1>10 DEF MoveStep
  <1> QED
    BY <1>2, <1>3, <1>4, <1>5, <1>6, <1>10, NextSteps DEF SourceStep

LEMMA MovedRoute == \A f \in Files : \A r, how : Moved(f, how, r).route = r
  BY DEF Moved, Files

\* A dispatch does not come back to a source that is handing over.
LEMMA BehindShrinks ==
  ASSUME TypeInv, Next, ~OfferStep, Bound, NEW d \in Dispatches, Behind(d)'
  PROVE  Behind(d)
  <1>1. src'.conv = src.conv
    BY SourceKeeps
  <1>2. inst[d] \in Files
    BY DEF TypeInv, TypeOK
  <1>3. cmd[Source] = NoCmd /\ ~Free(Source)
    BY DEF TypeInv, SourceBusy, Bound, Free
  <1>4. CASE inst'[d] = inst[d]
    BY <1>1, <1>4 DEF Behind
  <1>5. CASE inst'[d].route = inst[d].route /\ Kept(inst[d], inst'[d])
    BY <1>1, <1>5 DEF Behind, Kept
  <1>6. ASSUME NEW p \in Panes, Adopt(p, d), inst'[d] = Moved(inst[d], "adopt", Route(p))
        PROVE  FALSE
    <2>1. Route(p) \in RouteRecs /\ p # Source
      BY <1>3, <1>6, FreeToStart, OpenRoute DEF Adopt, TypeInv
    <2>2. inst'[d].route = Route(p)
      BY <1>2, <1>6, <2>1, MovedRoute
    <2> QED
      BY <2>1, <2>2 DEF Behind, Route
  <1>7. ASSUME NEW p \in Panes, Write(p), InHand(p).on = d,
               inst'[d] = Moved(InHand(p).was, cmd[p].op, Route(p))
        PROVE  FALSE
    <2>1. cmd[p] # NoCmd /\ Moving(p)
      BY <1>7, WriteStep
    <2>2. Route(p) \in RouteRecs /\ p # Source
      BY <1>3, <2>1, Busy, OpenRoute DEF TypeInv
    <2>3. InHand(p).was \in Files /\ cmd[p].op \in {"accept", "takeover", "adopt"}
      BY <1>7, <2>1, WriteStep, InHandOpen, SoundCommands, Queues DEF Sound, Commands
    <2>4. inst'[d].route = Route(p)
      BY <1>7, <2>2, <2>3, MovedRoute
    <2> QED
      BY <2>2, <2>4 DEF Behind, Route
  <1> QED
    BY <1>4, <1>5, <1>6, <1>7, DispatchSteps

\* What an acceptance has ahead of it goes only when it is done, or needs no doing.
LEMMA AheadShrinks ==
  ASSUME TypeInv, EarlyInv, Next, NEW q \in Panes, cmd'[q].op = "accept", NEW d \in Dispatches
  PROVE  \/ Due(cmd'[q], d)
         \/ cmd[q].op = "accept" /\ ~Ahead(q, d)
         \/ StartAccept /\ (d \notin Listed(offer.list) \/ inst[d].st = "gone")
         \/ Load(q) /\ cmd[q].op = "accept" /\ inst[d].route = Route(q)
         \/ Write(q) /\ InHand(q).on = d
  <1>0. cmd'[q] # NoCmd
    BY DEF NoCmd
  <1>1. CASE cmd'[q] = cmd[q]
    BY <1>1 DEF Ahead
  <1>2. CASE /\ StartAccept
             /\ \E there \in Lists :
                  /\ Listed(there) = {e \in Listed(offer.list) : inst[e].st # "gone"}
                  /\ cmd'[q] = Fresh("accept", IF there = <<>> THEN "record" ELSE "load", there)
    <2>1. PICK there \in Lists :
            /\ Listed(there) = {e \in Listed(offer.list) : inst[e].st # "gone"}
            /\ cmd'[q] = Fresh("accept", IF there = <<>> THEN "record" ELSE "load", there)
      BY <1>2
    <2>2. there \in Seq(Dispatches)
      BY ListsAreSequences
    <2>3. Due(cmd'[q], d) <=> d \in Listed(there)
      BY <2>1, <2>2, DueFresh
    <2> QED
      BY <1>2, <2>1, <2>3
  <1>3. ASSUME NEW list \in Lists, StartTakeover(q, list), cmd'[q] = Fresh("takeover", "load", list)
        PROVE  FALSE
    <2>1. Fresh("takeover", "load", list).op = "takeover"
      BY ListsAreSequences, FreshCommand
    <2> QED
      BY <1>3, <2>1
  <1>4. CASE Load(q) /\ cmd'[q] = Skipped(q) /\ Own(q, Head(cmd[q].todo))
    <2>1. cmd[q].pc = "load" /\ cmd[q].todo # <<>>
      BY <1>4, LoadStep
    <2>2. Ahead(q, d) => Due(cmd'[q], d) \/ d = Head(cmd[q].todo)
      BY <1>4, <2>1, DueLoads
    <2> QED
      BY <1>4, <2>2 DEF Own
  <1>5. CASE Load(q) /\ cmd'[q] = Taken(q)
    <2>1. cmd[q].pc = "load" /\ cmd[q].todo # <<>>
      BY <1>5, LoadStep
    <2>2. Ahead(q, d) <=> Due(cmd'[q], d)
      BY <1>5, <2>1, DueLoads
    <2>3. cmd[q].op = cmd'[q].op
      BY <1>5, NextCommands
    <2> QED
      BY <2>2, <2>3
  <1>6. CASE Prove(q) /\ (cmd'[q] = Recorder(q) \/ cmd'[q] = Proven(q))
    <2>1. cmd[q].pc = "load" /\ cmd[q].op = cmd'[q].op
      <3>1. cmd[q].pc = "load"
        BY <1>6 DEF Prove
      <3>2. Recorder(q).op = cmd[q].op /\ Proven(q).op = cmd[q].op
        BY NextCommands
      <3> QED
        BY <1>6, <3>1, <3>2
    <2>2. CASE cmd'[q] = Recorder(q)
      BY <2>1, <2>2, DueSame
    <2>3. CASE cmd'[q] = Proven(q)
      BY <2>1, <2>3, DueSame
    <2> QED
      BY <1>6, <2>2, <2>3
  <1>7. CASE Compare(q) /\ cmd'[q] = Placing(q)
    <2>1. (Ahead(q, d) <=> Due(cmd'[q], d)) /\ cmd[q].op = cmd'[q].op
      BY <1>7, CompareStep, DueSame, NextCommands
    <2> QED
      BY <2>1
  <1>9. CASE Write(q) /\ (cmd'[q] = Done(cmd[q]) \/ cmd'[q] = Carried(q))
    <2>1. Moving(q)
      BY <1>9, WriteStep
    <2>2. Ahead(q, d) => Due(cmd'[q], d) \/ d = InHand(q).on
      BY <1>9, <2>1, DueMoves
    <2>3. cmd[q].op = "accept"
      <3>1. Done(cmd[q]).op \in {cmd[q].op, "none"} /\ Carried(q).op = cmd[q].op
        BY <2>1, DoneNext, NextCommands
      <3> QED
        BY <1>9, <3>1
    <2> QED
      BY <1>9, <2>2, <2>3
  <1>10. ASSUME NEW c \in Coworkers, Cascade(q, c), cmd'[q] = Done(cmd[q]) \/ cmd'[q] = Rest(q, c)
         PROVE  Due(cmd'[q], d) \/ (cmd[q].op = "accept" /\ ~Ahead(q, d))
    <2>1. Moving(q) /\ cmd[q].pc = "cascade"
      BY <1>10, CascadeStep
    <2>2. Ahead(q, d) <=> Due(cmd'[q], d)
      BY <1>10, <2>1, DueMoves, DueSame
    <2>3. cmd[q].op = "accept"
      <3>1. Done(cmd[q]).op \in {cmd[q].op, "none"} /\ Rest(q, c).op = cmd[q].op
        BY <2>1, DoneNext, RestCommand
      <3> QED
        BY <1>10, <3>1
    <2> QED
      BY <2>2, <2>3
  <1> QED
    BY <1>0, <1>1, <1>2, <1>3, <1>4, <1>5, <1>6, <1>7, <1>9, <1>10, CommandSteps

LEMMA OfferedDispatches ==
  ASSUME TypeInv
  PROVE  DOMAIN offer.routes = Listed(offer.list) /\ DOMAIN offer.routes \subseteq Dispatches
  <1>1. offer.list \in Seq(Dispatches) /\ DOMAIN offer.routes = Listed(offer.list)
    BY DEF TypeInv, OfferOK
  <1>2. \A i \in DOMAIN offer.list : offer.list[i] \in Dispatches
    BY <1>1, LenProperties, ElementOfSeq
  <1> QED
    BY <1>1, <1>2 DEF Listed

LEMMA WholeInit == Init => WholeInv
  BY DEF Init, WholeInv, NoSrc, Bound, Handing

\* What the source offers: all it has, unless it keeps some.
LEMMA WholeOffer == ASSUME TypeInv, EarlyInv, OfferStep PROVE WholeInv'
  <1>1. PICK list \in Lists, retains \in BOOLEAN : Offer(list, retains)
    BY DEF OfferStep
  <1>2. /\ src'.pc = "opening" /\ src'.retains = retains /\ src'.conv = at[Source]
        /\ src'.knew = {d \in Dispatches : inst[d].st = "open"}
    BY <1>1 DEF Offer, NoSrc
  <1>3. offer'.file = offer.file /\ DOMAIN offer'.routes = Listed(list)
    <2>1. offer = [file |-> offer.file, list |-> offer.list, routes |-> offer.routes]
      BY DEF TypeInv, OfferOK
    <2> QED
      BY <1>1, <2>1 DEF Offer
  <1>4. src.pc = "none" /\ inst' = inst /\ cmd' = cmd
    BY <1>1 DEF Offer, Untouched
  <1>5. ~Accepted' /\ cmd'[Receiver].op # "accept"
    BY <1>3, <1>4 DEF Accepted, EarlyInv, Early, Accepting
  <1>6. ASSUME ~retains, NEW d \in src'.knew, Behind(d)' PROVE d \in DOMAIN offer'.routes
    <2>1. inst[d].st = "open" /\ inst[d].route = Route(Source)
      BY <1>2, <1>4, <1>6 DEF Behind, Route
    <2>2. ListsAll(list)
      BY <1>1, <1>6 DEF Offer
    <2> QED
      BY <1>2, <1>3, <2>1, <2>2 DEF ListsAll
  <1> QED
    BY <1>2, <1>5, <1>6 DEF WholeInv

LEMMA WholeStays == ASSUME TypeInv, EarlyInv, WholeInv, Next, ~OfferStep PROVE WholeInv'
  <1>1. /\ offer'.routes = offer.routes /\ offer'.list = offer.list
        /\ offer'.file = "accepted" => offer.file = "accepted" \/ \E p \in Panes : Record(p)
    BY OfferKeeps
  <1>2. /\ src'.conv = src.conv /\ src'.knew = src.knew /\ src'.retains = src.retains
        /\ Bound' => Bound
        /\ src'.pc \in Over => src.pc \in Over \/ Accepted
        /\ src'.pc \in {"leave", "left"} => src.pc \in {"leave", "left"} \/ ~src.retains
    BY SourceKeeps
  <1>3. Bound => \A d \in Dispatches : Behind(d)' => Behind(d)
    BY BehindShrinks
  <1>4. src.knew \subseteq Dispatches /\ DOMAIN offer.routes = Listed(offer.list) /\ DOMAIN offer.routes \subseteq Dispatches
    BY OfferedDispatches DEF TypeInv, TypeOK
  <1>5. src'.pc \in {"leave", "left"} => ~src'.retains
    BY <1>2 DEF WholeInv
  <1>6. Bound' /\ ~src'.retains => \A d \in src'.knew : Behind(d)' => d \in DOMAIN offer'.routes
    BY <1>1, <1>2, <1>3, <1>4 DEF WholeInv
  <1>7. ASSUME Bound', cmd'[Receiver].op = "accept", NEW d \in DOMAIN offer'.routes, Behind(d)'
        PROVE  Ahead(Receiver, d)'
    <2>1. Bound /\ d \in Dispatches /\ Behind(d) /\ d \in DOMAIN offer.routes /\ d \in Listed(offer.list)
      BY <1>1, <1>2, <1>3, <1>4, <1>7
    <2>2. inst[d].st # "gone" /\ inst[d].route # Route(Receiver)
      BY <2>1, RoutesAssumption DEF Behind, Route
    <2>3. cmd[Receiver].op = "accept" => Ahead(Receiver, d)
      BY <2>1 DEF WholeInv
    <2>4. ~(Write(Receiver) /\ InHand(Receiver).on = d)
      <3> SUFFICES ASSUME Write(Receiver), InHand(Receiver).on = d PROVE FALSE
        OBVIOUS
      <3>1. Moving(Receiver) /\ inst' = [inst EXCEPT ![d] = Moved(InHand(Receiver).was, cmd[Receiver].op, Route(Receiver))]
        BY WriteStep
      <3>2. InHand(Receiver).was \in Files
        BY <3>1, InHandOpen, Queues
      <3>3. inst'[d].route = Route(Receiver)
        BY <2>1, <3>1, <3>2, MovedRoute DEF TypeInv, TypeOK
      <3> QED
        BY <1>2, <1>7, <3>3, RoutesAssumption DEF Behind, Route
    <2> QED
      BY <1>7, <2>1, <2>2, <2>3, <2>4, AheadShrinks DEF Ahead
  <1>8. ASSUME Bound', Accepted' \/ src'.pc \in Over, NEW d \in DOMAIN offer'.routes
        PROVE  ~Behind(d)'
    <2>1. Bound /\ d \in Dispatches /\ d \in DOMAIN offer.routes
      BY <1>1, <1>2, <1>4, <1>8
    <2>2. CASE Accepted \/ src.pc \in Over
      BY <1>3, <2>1, <2>2 DEF WholeInv, Over
    <2>3. CASE \E p \in Panes : Record(p)
      <3>1. PICK p \in Panes : Record(p)
        BY <2>3
      <3>2. cmd[p].pc = "record"
        BY <3>1, RecordStep
      <3>3. p = Receiver /\ cmd[p].op = "accept" /\ cmd[p].todo = <<>> /\ cmd[p].queue = <<>>
        BY <3>2 DEF EarlyInv, Accepting
      <3>4. DOMAIN cmd[p].todo = {} /\ DOMAIN cmd[p].queue = {}
        BY <3>3, EmptySeq
      <3>5. ~Ahead(Receiver, d)
        BY <3>3, <3>4 DEF Ahead, Due
      <3> QED
        BY <1>3, <2>1, <3>3, <3>5 DEF WholeInv
    <2> QED
      BY <1>1, <1>2, <1>8, <2>2, <2>3 DEF Accepted
  <1> QED
    BY <1>5, <1>6, <1>7, <1>8 DEF WholeInv, Over

\* Whatever other commands write meanwhile, restarts and kills included: a source that
\* closes its pane after its handoff leaves none of the dispatches behind that were
\* under way when it offered and still answer to its conversation.
THEOREM HandedOverWholeAlways == Spec => []HandedOverWhole
  <1>1. TypeInv /\ EarlyInv /\ [Next]_vars => EarlyInv'
    BY EarlyStays DEF vars, EarlyInv, Early, Accepting, Moving
  <1>2. TypeInv /\ EarlyInv /\ WholeInv /\ [Next]_vars => WholeInv'
    <2> SUFFICES ASSUME TypeInv, EarlyInv, WholeInv, [Next]_vars PROVE WholeInv'
      OBVIOUS
    <2>1. CASE UNCHANGED vars
      BY <2>1 DEF vars, WholeInv, Bound, Handing, Behind, Ahead, Accepted
    <2> QED
      BY <2>1, WholeOffer, WholeStays
  <1>3. WholeInv => HandedOverWhole
    BY DEF WholeInv, HandedOverWhole, Bound, Behind
  <1> QED
    BY <1>1, <1>2, <1>3, EarlyInit, WholeInit, TypeAlways, PTL DEF Spec

(***************************************************************************)
(* Accepted is moved                                                       *)
(***************************************************************************)
\* A trail only grows: it stays, or has one more transfer at its end.
LEMMA StepsGrow ==
  ASSUME TypeInv, SerialInv, Next, NEW d \in Dispatches
  PROVE  \/ inst'[d].route = inst[d].route /\ Steps(d)' = Steps(d)
         \/ \E how \in {"accept", "takeover", "adopt"}, r \in RouteRecs :
              /\ inst'[d].st = inst[d].st /\ inst'[d].route = r
              /\ Steps(d)' = Steps(d) \cup {[how |-> how, before |-> inst[d].route, after |-> r]}
              /\ \/ how = "adopt" /\ \E p \in Panes : Adopt(p, d) /\ r = Route(p)
                 \/ \E p \in Panes : /\ Write(p) /\ InHand(p).on = d /\ InHand(p).was = inst[d]
                                     /\ how = cmd[p].op /\ r = Route(p)
  <1>1. inst[d].trail \in Seq(Transfers) /\ inst[d].route \in RouteRecs
    BY TrailsAreSequences DEF TypeInv, TypeOK, Files
  <1>2. CASE inst'[d].trail = inst[d].trail /\ inst'[d].route = inst[d].route
    BY <1>2 DEF Steps
  <1>3. CASE inst'[d].trail # inst[d].trail \/ inst'[d].route # inst[d].route
    <2>1. PICK how \in {"accept", "takeover", "adopt"}, r \in RouteRecs :
             /\ inst'[d].st = inst[d].st /\ inst'[d].route = r
             /\ inst'[d].trail = Append(inst[d].trail, [how |-> how, before |-> inst[d].route, after |-> r])
             /\ \/ how = "adopt" /\ \E p \in Panes : Adopt(p, d) /\ r = Route(p)
                \/ \E p \in Panes : /\ Write(p) /\ InHand(p).on = d /\ InHand(p).was = inst[d]
                                    /\ how = cmd[p].op /\ r = Route(p)
      BY <1>3, TrailSteps
    <2> DEFINE e == [how |-> how, before |-> inst[d].route, after |-> r]
               t == inst[d].trail
               longer == inst'[d].trail
    <2>2. e \in Transfers
      BY <1>1 DEF Transfers
    <2>3. t \in Seq(Transfers) /\ longer = Append(t, e)
      BY <1>1, <2>1
    <2> HIDE DEF e, t, longer
    <2>4. /\ Len(t) \in Nat /\ Len(longer) = Len(t) + 1
          /\ \A i \in 1..Len(t) : longer[i] = t[i]
          /\ longer[Len(t) + 1] = e
      BY <2>2, <2>3, AppendProperties, LenProperties
    <2>5. 1..Len(longer) = 1..Len(t) \cup {Len(t) + 1} /\ \A i \in 1..Len(t) : i # Len(t) + 1
      BY <2>4
    <2>6. \A x : (\E i \in 1..Len(longer) : x = longer[i]) <=> (\E i \in 1..Len(t) : x = t[i]) \/ x = e
      BY <2>4, <2>5
    <2>7. {longer[i] : i \in 1..Len(longer)} = {t[i] : i \in 1..Len(t)} \cup {e}
      <3> DEFINE A == {longer[i] : i \in 1..Len(longer)}
                 B == {t[i] : i \in 1..Len(t)}
      <3>1. \A x : x \in A <=> \E i \in 1..Len(longer) : x = longer[i]
        OBVIOUS
      <3>2. \A x : x \in B <=> \E i \in 1..Len(t) : x = t[i]
        OBVIOUS
      <3> HIDE DEF A, B
      <3>3. A = B \cup {e}
        BY <2>6, <3>1, <3>2
      <3> QED
        BY <3>3 DEF A, B
    <2>8. Steps(d)' = Steps(d) \cup {e}
      BY <2>7 DEF Steps, longer, t
    <2> QED
      BY <2>1, <2>8 DEF e
  <1> QED
    BY <1>2, <1>3

\* Once a dispatch was with the receiver its file says so.
LEMMA ReachedGrows ==
  ASSUME TypeInv, SerialInv, Next, ~Overlaps, NEW d \in Dispatches
  PROVE  /\ Reached(d) => Reached(d)'
         /\ (inst[d].route.pane = Receiver => Reached(d)) => (inst'[d].route.pane = Receiver => Reached(d)')
  <1>1. inst[d].st = "gone" => inst'[d].st = "gone"
    BY StepUndoesNothing DEF Kept
  <1>2. CASE inst'[d].route = inst[d].route /\ Steps(d)' = Steps(d)
    BY <1>1, <1>2 DEF Reached
  <1>3. CASE \E how \in {"accept", "takeover", "adopt"}, r \in RouteRecs :
               /\ inst'[d].st = inst[d].st /\ inst'[d].route = r
               /\ Steps(d)' = Steps(d) \cup {[how |-> how, before |-> inst[d].route, after |-> r]}
    <2>1. PICK how \in {"accept", "takeover", "adopt"}, r \in RouteRecs :
               /\ inst'[d].st = inst[d].st /\ inst'[d].route = r
               /\ Steps(d)' = Steps(d) \cup {[how |-> how, before |-> inst[d].route, after |-> r]}
      BY <1>3
    <2> DEFINE e == [how |-> how, before |-> inst[d].route, after |-> r]
    <2>2. e.after = r /\ e \in Steps(d)' /\ Steps(d) \subseteq Steps(d)'
      BY <2>1
    <2> HIDE DEF e
    <2> QED
      BY <1>1, <2>1, <2>2 DEF Reached
  <1> QED
    BY <1>2, <1>3, StepsGrow

LEMMA AcceptInit == Init => AcceptInv
  <1> SUFFICES ASSUME Init PROVE AcceptInv
    OBVIOUS
  <1>1. offer.file = "none" /\ cmd[Receiver].op = "none"
    BY DEF Init, NoCmd
  <1>2. ASSUME NEW d \in Dispatches PROVE inst[d].route.pane # Receiver
    <2>1. PICK b \in Begun : inst = [e \in Dispatches |->
            [st |-> b.runs[e].st, route |-> Route(b.runs[e].pane), trail |-> <<>>, repairs |-> 0]]
      BY DEF Init
    <2>2. b.runs[d].pane # Receiver
      BY <2>1
    <2> QED
      BY <2>1, <2>2 DEF Route
  <1> QED
    BY <1>1, <1>2 DEF AcceptInv, Accepted

LEMMA AcceptStays ==
  ASSUME TypeInv, EarlyInv, SerialInv, AcceptInv, Next, ~Overlaps
  PROVE  AcceptInv'
  <1>1. \A d \in Dispatches : Reached(d) => Reached(d)'
    BY ReachedGrows
  <1>2. \A d \in Dispatches : inst'[d].route.pane = Receiver => Reached(d)'
    BY ReachedGrows DEF AcceptInv
  <1>3. /\ ~OfferStep => offer'.routes = offer.routes
        /\ OfferStep => src.pc = "none" /\ cmd' = cmd /\ \A p \in Panes : cmd[p].op # "accept"
        /\ offer'.file = "accepted" => offer.file = "accepted" \/ \E p \in Panes : Record(p)
    BY OfferKeeps
  <1>4. ASSUME cmd'[Receiver].op = "accept", NEW d \in DOMAIN offer'.routes
        PROVE  Reached(d)' \/ Ahead(Receiver, d)'
    <2>1. offer'.routes = offer.routes /\ d \in Dispatches /\ d \in DOMAIN offer.routes /\ d \in Listed(offer.list)
      <3>1. offer'.routes = offer.routes
        BY <1>3, <1>4
      <3> QED
        BY <1>4, <3>1, OfferedDispatches
    <2>2. cmd[Receiver].op = "accept" => Reached(d) \/ Ahead(Receiver, d)
      BY <2>1 DEF AcceptInv
    <2>3. inst[d].st = "gone" => Reached(d)'
      BY <1>1, <2>1 DEF Reached
    <2>4. inst[d].route = Route(Receiver) => Reached(d)'
      BY <1>1, <2>1 DEF AcceptInv, Route
    <2>5. ASSUME Write(Receiver), InHand(Receiver).on = d PROVE Reached(d)'
      <3>1. Moving(Receiver) /\ inst' = [inst EXCEPT ![d] = Moved(InHand(Receiver).was, cmd[Receiver].op, Route(Receiver))]
        BY <2>5, WriteStep
      <3>2. InHand(Receiver).was \in Files
        BY <3>1, InHandOpen, Queues
      <3>3. inst'[d].route = Route(Receiver)
        BY <2>1, <3>1, <3>2, MovedRoute DEF TypeInv, TypeOK
      <3> QED
        BY <1>2, <2>1, <3>3 DEF Route
    <2> QED
      BY <1>1, <1>4, <2>1, <2>2, <2>3, <2>4, <2>5, AheadShrinks DEF Ahead
  <1>5. ASSUME Accepted', NEW d \in DOMAIN offer'.routes PROVE Reached(d)'
    <2>1. offer.file = "accepted" \/ \E p \in Panes : Record(p)
      BY <1>3, <1>5 DEF Accepted
    <2>2. ~OfferStep
      <3> SUFFICES ASSUME OfferStep PROVE FALSE
        OBVIOUS
      <3>1. src.pc = "none" /\ \A p \in Panes : cmd[p].op # "accept"
        BY <1>3
      <3>2. offer.file = "none"
        BY <3>1 DEF EarlyInv, Early
      <3> QED
        BY <2>1, <3>1, <3>2, RecordStep DEF EarlyInv, Accepting
    <2>3. d \in DOMAIN offer.routes /\ d \in Dispatches
      BY <1>3, <1>5, <2>2, OfferedDispatches
    <2>4. CASE Accepted
      BY <1>1, <2>3, <2>4 DEF AcceptInv
    <2>5. CASE \E p \in Panes : Record(p)
      <3>1. PICK p \in Panes : Record(p)
        BY <2>5
      <3>2. cmd[p].pc = "record"
        BY <3>1, RecordStep
      <3>3. p = Receiver /\ cmd[p].op = "accept" /\ cmd[p].todo = <<>> /\ cmd[p].queue = <<>>
        BY <3>2 DEF EarlyInv, Accepting
      <3>4. DOMAIN cmd[p].todo = {} /\ DOMAIN cmd[p].queue = {}
        BY <3>3, EmptySeq
      <3>5. ~Ahead(Receiver, d)
        BY <3>3, <3>4 DEF Ahead, Due
      <3> QED
        BY <1>1, <2>3, <3>3, <3>5 DEF AcceptInv
    <2> QED
      BY <2>1, <2>4, <2>5 DEF Accepted
  <1> QED
    BY <1>2, <1>4, <1>5 DEF AcceptInv

\* As long as no other command writes between a move's comparison and its write, the
\* handoff file says accepted only when every dispatch it offers was moved to the
\* receiver at some time, or is wrapped up: a retried acceptance skips none.
THEOREM AcceptedMeansMovedAlways == ASSUME ~Overlaps PROVE Spec => []AcceptedMeansMoved
  <1>1. TypeInv /\ EarlyInv /\ [Next]_vars => EarlyInv'
    BY EarlyStays DEF vars, EarlyInv, Early, Accepting, Moving
  <1>2. TypeInv /\ EarlyInv /\ SerialInv /\ AcceptInv /\ [Next]_vars => AcceptInv'
    <2> SUFFICES ASSUME TypeInv, EarlyInv, SerialInv, AcceptInv, [Next]_vars PROVE AcceptInv'
      OBVIOUS
    <2>1. CASE UNCHANGED vars
      BY <2>1 DEF vars, AcceptInv, Reached, Steps, Ahead, Accepted
    <2> QED
      BY <2>1, AcceptStays
  <1>3. AcceptInv => AcceptedMeansMoved
    BY DEF AcceptInv, AcceptedMeansMoved, Reached
  <1> QED
    BY <1>1, <1>2, <1>3, EarlyInit, AcceptInit, TypeAlways, SerialAlways, PTL DEF Spec

(***************************************************************************)
(* Coworkers follow                                                        *)
(***************************************************************************)
LEMMA SingleEmpty == ASSUME NEW n, n.queue = <<>>, NoRepeats(n.todo) PROVE Single(n)
  <1>1. DOMAIN n.queue = {}
    BY EmptySeq
  <1> QED
    BY <1>1 DEF Single

LEMMA SingleAlike == ASSUME NEW m, NEW n, Single(m), n.queue = m.queue, n.todo = m.todo PROVE Single(n)
  BY DEF Single

LEMMA SingleSkips ==
  ASSUME NEW m, NEW n, Single(m), m.todo \in Seq(Dispatches), m.todo # <<>>,
         n.todo = Tail(m.todo), n.queue = m.queue
  PROVE  Single(n) /\ \A i \in DOMAIN n.todo : n.todo[i] # Head(m.todo)
  <1> DEFINE todo == m.todo
             rest == Tail(todo)
  <1>1. \A i \in DOMAIN rest : i + 1 \in DOMAIN todo /\ rest[i] = todo[i + 1]
    BY First
  <1>2. \A i \in DOMAIN rest : i \in Nat \ {0}
    <2>1. rest \in Seq(Dispatches)
      BY First
    <2> QED
      BY <2>1, LenProperties
  <1>3. 1 \in DOMAIN todo /\ Head(todo) = todo[1]
    BY First
  <1>4. n.todo = rest
    OBVIOUS
  <1> HIDE DEF rest
  <1>5. NoRepeats(rest)
    <2> SUFFICES ASSUME NEW i \in DOMAIN rest, NEW j \in DOMAIN rest, rest[i] = rest[j] PROVE i = j
      BY DEF NoRepeats
    <2>1. i + 1 = j + 1
      BY <1>1 DEF Single, NoRepeats
    <2> QED
      BY <1>2, <2>1
  <1>6. \A i \in DOMAIN rest : rest[i] # Head(todo)
    <2> SUFFICES ASSUME NEW i \in DOMAIN rest, rest[i] = Head(todo) PROVE FALSE
      OBVIOUS
    <2>1. i + 1 = 1
      BY <1>1, <1>3 DEF Single, NoRepeats
    <2> QED
      BY <1>2, <2>1
  <1>7. \A i \in DOMAIN n.queue, j \in DOMAIN rest : n.queue[i].on # rest[j]
    BY <1>1 DEF Single
  <1> QED
    BY <1>4, <1>5, <1>6, <1>7 DEF Single

LEMMA SingleTakes ==
  ASSUME NEW m, NEW n, NEW job \in Jobs, Single(m), m.todo \in Seq(Dispatches), m.todo # <<>>,
         m.queue \in Seq(Jobs), job.on = Head(m.todo),
         n.todo = Tail(m.todo), n.queue = Append(m.queue, job)
  PROVE  Single(n)
  <1> DEFINE queue == m.queue
             longer == n.queue
             last == Len(queue) + 1
             r == [todo |-> Tail(m.todo), queue |-> queue]
  <1>1. /\ DOMAIN longer = DOMAIN queue \cup {last}
        /\ \A i \in DOMAIN queue : longer[i] = queue[i]
        /\ longer[last] = job
    BY Longer
  <1>2. r.todo = n.todo /\ r.queue = queue
    OBVIOUS
  <1> HIDE DEF r, last
  <1>3. Single(r) /\ \A i \in DOMAIN n.todo : n.todo[i] # job.on
    BY <1>2, SingleSkips
  <1>4. \A i \in DOMAIN queue : queue[i].on # job.on
    <2>1. 1 \in DOMAIN m.todo /\ m.todo[1] = job.on
      BY First
    <2> QED
      BY <2>1 DEF Single
  <1>5. NoRepeats(n.todo) /\ \A i \in DOMAIN queue, j \in DOMAIN n.todo : queue[i].on # n.todo[j]
    BY <1>2, <1>3 DEF Single
  <1>6. \A i, j \in DOMAIN queue : queue[i].on = queue[j].on => i = j
    BY DEF Single
  <1> HIDE DEF longer, queue
  <1>7. \A i, j \in DOMAIN longer : longer[i].on = longer[j].on => i = j
    BY <1>1, <1>4, <1>6
  <1>8. \A i \in DOMAIN longer, j \in DOMAIN n.todo : longer[i].on # n.todo[j]
    BY <1>1, <1>3, <1>5
  <1> QED
    BY <1>5, <1>7, <1>8 DEF Single, longer

LEMMA SingleDrops ==
  ASSUME NEW m, NEW n, Single(m), m.queue \in Seq(Jobs), m.queue # <<>>, n.todo = m.todo, n.queue = Tail(m.queue)
  PROVE  Single(n)
  <1> DEFINE queue == m.queue
             rest == Tail(queue)
  <1>1. \A i \in DOMAIN rest : i + 1 \in DOMAIN queue /\ rest[i] = queue[i + 1]
    BY First
  <1>2. \A i \in DOMAIN rest : i \in Nat \ {0}
    <2>1. rest \in Seq(Jobs)
      BY First
    <2> QED
      BY <2>1, LenProperties
  <1>3. n.queue = rest
    OBVIOUS
  <1> HIDE DEF rest
  <1>4. ASSUME NEW i \in DOMAIN rest, NEW j \in DOMAIN rest, rest[i].on = rest[j].on PROVE i = j
    <2>1. i + 1 = j + 1
      BY <1>1, <1>4 DEF Single
    <2> QED
      BY <1>2, <2>1
  <1>5. \A i \in DOMAIN rest, j \in DOMAIN n.todo : rest[i].on # n.todo[j]
    BY <1>1 DEF Single
  <1> QED
    BY <1>3, <1>4, <1>5 DEF Single

LEMMA OnceInit == Init => OnceInv
  <1> SUFFICES ASSUME Init, NEW p \in Panes PROVE Single(cmd[p])
    BY DEF OnceInv
  <1>1. cmd[p] = NoCmd /\ NoCmd.queue = <<>> /\ NoCmd.todo = <<>>
    BY DEF Init, NoCmd
  <1>2. NoRepeats(<<>>)
    BY EmptySeq DEF NoRepeats
  <1> QED
    BY <1>1, <1>2, SingleEmpty

LEMMA OnceStays == ASSUME TypeInv, OnceInv, Next PROVE OnceInv'
  <1> SUFFICES ASSUME NEW q \in Panes PROVE Single(cmd'[q])
    BY DEF OnceInv, Single, NoRepeats
  <1>0. /\ cmd[q].queue \in Seq(Jobs) /\ cmd[q].todo \in Seq(Dispatches) /\ Single(cmd[q])
        /\ NoRepeats(<<>>)
    BY Queues, EmptySeq DEF TypeInv, TypeOK, OnceInv, NoRepeats
  <1>1. CASE cmd'[q] = cmd[q]
    BY <1>0, <1>1
  <1>2. CASE cmd'[q] = NoCmd
    BY <1>0, <1>2, SingleEmpty DEF NoCmd
  <1>3. CASE \E op \in {"accept", "takeover"}, pc \in {"load", "record"}, list \in Lists : cmd'[q] = Fresh(op, pc, list)
    BY <1>3, SingleEmpty, FreshCommand, ListsAreSequences
  <1>4. CASE Load(q) /\ cmd'[q] = Skipped(q)
    <2>1. cmd[q].todo # <<>> /\ Skipped(q).todo = Tail(cmd[q].todo) /\ Skipped(q).queue = cmd[q].queue
      BY <1>4, LoadStep, NextCommands
    <2> QED
      BY <1>0, <1>4, <2>1, SingleSkips
  <1>5. CASE Load(q) /\ cmd'[q] = Taken(q)
    <2> DEFINE d == Head(cmd[q].todo)
               job == [on |-> d, was |-> inst[d]]
    <2>1. d \in Dispatches /\ cmd[q].todo # <<>>
      BY <1>5, LoadStep
    <2>2. job \in Jobs /\ job.on = d
      BY <2>1 DEF Jobs, TypeInv, TypeOK
    <2>3. Taken(q).todo = Tail(cmd[q].todo) /\ Taken(q).queue = Append(cmd[q].queue, job)
      BY NextCommands
    <2> HIDE DEF job
    <2> QED
      BY <1>0, <1>5, <2>1, <2>2, <2>3, SingleTakes
  <1>6. CASE cmd'[q] \in {Recorder(q), Proven(q), Placing(q), Carried(q)}
    <2>1. /\ Recorder(q).queue = cmd[q].queue /\ Recorder(q).todo = cmd[q].todo
          /\ Proven(q).queue = cmd[q].queue /\ Proven(q).todo = cmd[q].todo
          /\ Placing(q).queue = cmd[q].queue /\ Placing(q).todo = cmd[q].todo
          /\ Carried(q).queue = cmd[q].queue /\ Carried(q).todo = cmd[q].todo
      BY NextCommands
    <2> DEFINE n == cmd'[q]
    <2>2. n.queue = cmd[q].queue /\ n.todo = cmd[q].todo
      BY <1>6, <2>1
    <2> HIDE DEF n
    <2>3. Single(n)
      BY <1>0, <2>2, SingleAlike
    <2> QED
      BY <2>3 DEF n
  <1>7. CASE \E c \in Coworkers : cmd'[q] = Rest(q, c)
    BY <1>0, <1>7, SingleAlike, RestCommand
  <1>8. CASE Moving(q) /\ cmd'[q] = Done(cmd[q])
    <2> DEFINE n == Done(cmd[q])
    <2>1. /\ n.pc = "move" => n.queue = Tail(cmd[q].queue) /\ n.todo = cmd[q].todo
          /\ n.pc # "move" => n.queue = <<>> /\ n.todo = <<>>
      BY <1>8, DoneNext
    <2>2. cmd[q].queue # <<>>
      BY <1>8, InHandOpen
    <2>3. cmd'[q] = n
      BY <1>8
    <2> HIDE DEF n
    <2> QED
      BY <1>0, <2>1, <2>2, <2>3, SingleDrops, SingleEmpty
  <1>9. CASE \E there \in Lists :
               /\ Listed(there) = {d \in Listed(offer.list) : inst[d].st # "gone"}
               /\ cmd'[q] = Fresh("accept", IF there = <<>> THEN "record" ELSE "load", there)
    BY <1>3, <1>9
  <1>10. CASE \E list \in Lists : StartTakeover(q, list) /\ cmd'[q] = Fresh("takeover", "load", list)
    BY <1>3, <1>10
  <1>11. CASE Write(q) /\ (cmd'[q] = Done(cmd[q]) \/ cmd'[q] = Carried(q))
    BY <1>6, <1>8, <1>11, WriteStep
  <1>12. ASSUME NEW c \in Coworkers, Cascade(q, c), cmd'[q] = Done(cmd[q]) \/ cmd'[q] = Rest(q, c)
         PROVE  Single(cmd'[q])
    BY <1>7, <1>8, <1>12, CascadeStep
  <1> QED
    BY <1>1, <1>2, <1>4, <1>5, <1>6, <1>9, <1>10, <1>11, <1>12, CommandSteps

LEMMA InHandIsNoMoreAhead ==
  ASSUME TypeInv, EarlyInv, OnceInv, NEW p \in Panes, cmd[p].pc = "cascade"
  PROVE  ~Ahead(p, InHand(p).on)
  <1>1. Moving(p)
    BY DEF Moving
  <1>2. 1 \in DOMAIN cmd[p].queue /\ InHand(p) = cmd[p].queue[1] /\ cmd[p].todo = <<>>
    BY <1>1, InHandOpen DEF EarlyInv, Accepting
  <1>3. DOMAIN cmd[p].todo = {}
    BY <1>2, EmptySeq
  <1> QED
    BY <1>2, <1>3 DEF Ahead, Due, OnceInv, Single

\* While a command moves dispatches only it touches the coworkers' files.
LEMMA OnlyOwnCascade ==
  ASSUME TypeInv, SerialInv, Next, ~Overlaps, NEW p \in Panes, Moving(p), NEW c \in Coworkers
  PROVE  cow'[c] = cow[c] \/ (Cascade(p, c) /\ cow'[c] = [cmd[p].cows[c] EXCEPT !.root = Route(p)])
  <1>1. ~FileStep
    BY FileQuiet DEF Quiet
  <1>2. ASSUME NEW q \in Panes, Cascade(q, c) PROVE q = p
    BY <1>2, CascadeStep DEF SerialInv
  <1> QED
    BY <1>1, <1>2, CoworkerSteps

LEMMA ReadInit == Init => ReadInv
  BY DEF Init, ReadInv, NoCmd, Moving

LEMMA ReadStays ==
  ASSUME TypeInv, EarlyInv, SerialInv, OnceInv, ReadInv, Next, ~Overlaps
  PROVE  ReadInv'
  <1> SUFFICES ASSUME NEW q \in Panes, Moving(q)'
               PROVE  /\ \A c \in cmd'[q].left : Parent[c] = InHand(q)'.on
                      /\ \A c \in Coworkers : Due(cmd'[q], Parent[c]) => cmd'[q].cows[c] = cow'[c]
    BY DEF ReadInv, Ahead
  <1> DEFINE n == cmd'[q]
  <1>0. n.pc \in {"move", "write", "cascade"} /\ InHand(q)' = Head(n.queue)
    BY DEF Moving, InHand
  <1> HIDE DEF n
  <1>1. Moving(q) => /\ \A c \in cmd[q].left : Parent[c] = InHand(q).on
                     /\ \A c \in Coworkers : Ahead(q, Parent[c]) => cmd[q].cows[c] = cow[c]
    BY DEF ReadInv
  <1>2. cmd[q].pc # "cascade" => cmd[q].left = {}
    BY DEF TypeInv, AtHome
  \* The rest follows from what becomes of the command.
  <1>3. ASSUME Moving(q), n.queue = cmd[q].queue, n.cows = cmd[q].cows,
               n.left \subseteq cmd[q].left,
               \A c \in Coworkers : Due(n, Parent[c]) => Ahead(q, Parent[c]),
               \A c \in Coworkers : cow'[c] = cow[c] \/ ~Ahead(q, Parent[c])
        PROVE  /\ \A c \in n.left : Parent[c] = InHand(q)'.on
               /\ \A c \in Coworkers : Due(n, Parent[c]) => n.cows[c] = cow'[c]
    BY <1>0, <1>1, <1>3 DEF InHand
  <1>4. ASSUME NEW c \in Coworkers, Moving(q) PROVE cow'[c] = cow[c] \/ ~Ahead(q, Parent[c])
    <2>1. CASE Cascade(q, c)
      <3>1. cmd[q].pc = "cascade" /\ c \in cmd[q].left
        BY <2>1, CascadeStep
      <3> QED
        BY <1>1, <1>4, <3>1, InHandIsNoMoreAhead
    <2> QED
      BY <1>4, <2>1, OnlyOwnCascade
  <1>5. CASE n = cmd[q]
    <2>1. Moving(q)
      BY <1>0, <1>5 DEF Moving
    <2> QED
      BY <1>3, <1>4, <1>5, <2>1 DEF Ahead, n
  <1>6. CASE Prove(q) /\ n = Proven(q)
    <2>1. cow' = cow /\ cmd[q].pc = "load"
      BY <1>6, ProveStep
    <2>2. n.cows = cow /\ n.left = {}
      BY <1>2, <1>6, <2>1, NextCommands
    <2> QED
      BY <2>1, <2>2 DEF n
  <1>7. CASE Compare(q) /\ n = Placing(q)
    <2>1. cow' = cow /\ cmd[q].pc = "move" /\ Moving(q)
      BY <1>7, CompareStep
    <2>2. n.queue = cmd[q].queue /\ n.cows = cmd[q].cows /\ n.left = cmd[q].left
      BY <1>7, NextCommands
    <2>3. \A c \in Coworkers : Due(n, Parent[c]) <=> Ahead(q, Parent[c])
      BY <1>7, <2>1, DueSame
    <2> QED
      BY <1>3, <2>1, <2>2, <2>3 DEF n
  <1>8. CASE Write(q) /\ n = Carried(q)
    <2>1. cow' = cow /\ Moving(q)
      BY <1>8, WriteStep
    <2>2. n.queue = cmd[q].queue /\ n.cows = cmd[q].cows /\ n.left = Followers(q)
      BY <1>8, NextCommands
    <2>3. \A c \in Coworkers : Due(n, Parent[c]) => Ahead(q, Parent[c])
      BY <1>8, <2>1, DueMoves
    <2>4. \A c \in n.left : Parent[c] = InHand(q)'.on
      BY <1>0, <2>2 DEF Followers, InHand
    <2> QED
      BY <1>1, <2>1, <2>2, <2>3, <2>4 DEF n
  <1>9. ASSUME Moving(q), n = Done(cmd[q]), \A c \in Coworkers : Due(n, Parent[c]) => Ahead(q, Parent[c])
        PROVE  /\ \A c \in n.left : Parent[c] = InHand(q)'.on
               /\ \A c \in Coworkers : Due(n, Parent[c]) => n.cows[c] = cow'[c]
    <2>1. n.left = {} /\ (n.pc = "move" => n.cows = cmd[q].cows) /\ n.pc \in {"move", "record", "idle"}
      BY <1>9, DoneNext
    <2> QED
      BY <1>0, <1>1, <1>4, <1>9, <2>1
  <1>10. CASE Write(q) /\ n = Done(cmd[q])
    <2>1. Moving(q)
      BY <1>10, WriteStep
    <2>2. \A c \in Coworkers : Due(n, Parent[c]) => Ahead(q, Parent[c])
      BY <1>10, <2>1, DueMoves
    <2> QED
      BY <1>9, <1>10, <2>1, <2>2 DEF n
  <1>11. ASSUME NEW b \in Coworkers, Cascade(q, b), n = Done(cmd[q])
         PROVE  /\ \A c \in n.left : Parent[c] = InHand(q)'.on
                /\ \A c \in Coworkers : Due(n, Parent[c]) => n.cows[c] = cow'[c]
    <2>1. Moving(q)
      BY <1>11, CascadeStep
    <2>2. \A c \in Coworkers : Due(n, Parent[c]) => Ahead(q, Parent[c])
      BY <1>11, <2>1, DueMoves
    <2> QED
      BY <1>9, <1>11, <2>1, <2>2
  <1>12. ASSUME NEW b \in Coworkers, Cascade(q, b), n = Rest(q, b)
         PROVE  /\ \A c \in n.left : Parent[c] = InHand(q)'.on
                /\ \A c \in Coworkers : Due(n, Parent[c]) => n.cows[c] = cow'[c]
    <2>1. Moving(q)
      BY <1>12, CascadeStep
    <2>2. n.queue = cmd[q].queue /\ n.cows = cmd[q].cows /\ n.left \subseteq cmd[q].left
      BY <1>12, RestCommand
    <2>3. \A c \in Coworkers : Due(n, Parent[c]) <=> Ahead(q, Parent[c])
      BY <1>12, DueSame
    <2> QED
      BY <1>3, <1>4, <2>1, <2>2, <2>3
  <1>13. \/ n = cmd[q] \/ (Prove(q) /\ n = Proven(q)) \/ (Compare(q) /\ n = Placing(q))
         \/ Write(q) /\ (n = Carried(q) \/ n = Done(cmd[q]))
         \/ \E b \in Coworkers : Cascade(q, b) /\ (n = Done(cmd[q]) \/ n = Rest(q, b))
    <2>1. n # NoCmd
      BY <1>0 DEF NoCmd
    <2>2. \A op \in {"accept", "takeover"}, pc \in {"load", "record"}, list \in Lists : n # Fresh(op, pc, list)
      BY <1>0, FreshCommand, ListsAreSequences
    <2>3. Load(q) => n # Skipped(q) /\ n # Taken(q)
      <3>1. Load(q) => cmd[q].pc = "load"
        BY DEF Load
      <3>2. Skipped(q).pc = cmd[q].pc /\ Taken(q).pc = cmd[q].pc
        BY NextCommands
      <3> QED
        BY <1>0, <3>1, <3>2
    <2>4. n # Recorder(q)
      BY <1>0, NextCommands
    <2> QED
      BY <2>1, <2>2, <2>3, <2>4, CommandSteps DEF n
  <1> QED
    BY <1>5, <1>6, <1>7, <1>8, <1>10, <1>11, <1>12, <1>13 DEF n

\* A command that has begun to write goes on to its end.
LEMMA HalfwaySteps ==
  ASSUME TypeInv, EarlyInv, Next, ~Kills, NEW p \in Panes, Halfway(p)
  PROVE  /\ at'[p] = at[p]
         /\ cmd'[p] = cmd[p] \/ Write(p) \/ \E c \in Coworkers : Cascade(p, c)
  <1>1. cmd \in [Panes -> Commands] /\ at \in [Panes -> 0..convs]
    BY DEF TypeInv, TypeOK
  <1>2. cmd[p].pc \in {"write", "cascade"} /\ cmd[p] # NoCmd
    BY DEF Halfway, NoCmd
  <1>3. IsOpen(p) /\ ~Mortal(p)
    BY <1>2, Busy DEF Mortal
  <1>4. CASE FileStep
    BY <1>4 DEF FileStep, Confirm, WrapUp, Repair, AskCoworker, WriteCoworker, RepairCoworker,
                WrapUpCoworker, Adopt, Change, Unmoved
  <1>5. CASE EndStep
    <2>1. PICK q \in Panes : Restart(q) \/ \E r \in Panes : Resume(q, r)
      BY <1>5 DEF EndStep
    <2>2. q # p /\ cmd'[p] = cmd[p]
      BY <1>1, <1>3, <2>1 DEF Restart, Resume, Killed
    <2> QED
      BY <1>1, <1>3, <2>1, <2>2 DEF Restart, Resume
  <1>6. CASE OfferStep
    BY <1>6 DEF OfferStep, Offer
  <1>7. CASE StartReceiver \/ Leave
    <2>1. StartReceiver => p # Receiver
      BY <1>3 DEF StartReceiver, EarlyInv, Early, IsOpen
    <2>2. Leave => p # Source
      BY <1>2, Busy DEF Leave, Bound, Handing
    <2> QED
      BY <1>1, <1>7, <2>1, <2>2 DEF StartReceiver, Leave, Untouched
  <1>8. CASE Lose
    BY <1>1, <1>3, <1>8 DEF Lose, ReceiverCloses, Killed
  <1>9. CASE CreateTab \/ OpenFails \/ Look \/ Prompt \/ PromptFails \/ WindowSees \/ WindowEnds \/ Win
    BY <1>9 DEF CreateTab, OpenFails, Look, Prompt, PromptFails, WindowSees, WindowEnds, Win
  <1>10. CASE SourceStep
    BY <1>7, <1>8, <1>9, <1>10 DEF SourceStep
  <1>11. ASSUME NEW q \in Panes, NEW n, StaysBut(q, n), q # p
         PROVE  at'[p] = at[p] /\ cmd'[p] = cmd[p]
    BY <1>1, <1>11 DEF StaysBut
  <1>12. CASE StartAccept
    <2>1. Receiver # p
      BY <1>2, <1>12 DEF StartAccept, Free
    <2> QED
      BY <1>11, <1>12, <2>1, AcceptStep
  <1>13. ASSUME NEW q \in Panes, NEW list \in Lists, StartTakeover(q, list)
         PROVE  at'[p] = at[p] /\ cmd'[p] = cmd[p]
    <2>1. q # p
      BY <1>2, <1>13 DEF StartTakeover, Free
    <2> QED
      BY <1>11, <1>13, <2>1, TakeoverStep
  <1>14. ASSUME NEW q \in Panes, Load(q) \/ Prove(q) \/ Compare(q) \/ Record(q)
         PROVE  at'[p] = at[p] /\ cmd'[p] = cmd[p]
    <2>1. q # p
      BY <1>2, <1>14 DEF Load, Prove, Compare, Record
    <2> QED
      BY <1>11, <1>14, <2>1, LoadStep, ProveStep, CompareStep, RecordStep
  <1>15. ASSUME NEW q \in Panes, Write(q)
         PROVE  at'[p] = at[p] /\ (cmd'[p] = cmd[p] \/ Write(p))
    BY <1>11, <1>15, WriteStep DEF StaysBut
  <1>16. ASSUME NEW q \in Panes, NEW c \in Coworkers, Cascade(q, c)
         PROVE  at'[p] = at[p] /\ (cmd'[p] = cmd[p] \/ Cascade(p, c))
    BY <1>11, <1>16, CascadeStep DEF StaysBut
  <1>17. CASE MoveStep
    BY <1>12, <1>13, <1>14, <1>15, <1>16, <1>17 DEF MoveStep, CommandStep
  <1> QED
    BY <1>4, <1>5, <1>6, <1>10, <1>17, NextSteps

LEMMA FollowInit == Init => FollowInv
  <1> SUFFICES ASSUME Init PROVE FollowInv
    OBVIOUS
  <1>1. \A p \in Panes : cmd[p].pc = "idle"
    BY DEF Init, NoCmd
  <1>2. \A c \in Coworkers : Alive(c) => cow[c].root = inst[Parent[c]].route
    BY DEF Init, Alive, None
  <1> QED
    BY <1>1, <1>2 DEF FollowInv, Carrying

LEMMA AdoptedGrows ==
  ASSUME TypeInv, SerialInv, Next, NEW d \in Dispatches, Adopted(d)
  PROVE  Adopted(d)'
  <1>1. Steps(d) \subseteq Steps(d)'
    BY StepsGrow
  <1> QED
    BY <1>1 DEF Adopted

\* Nothing is written, and what is being carried over goes on.
LEMMA FollowCalm ==
  ASSUME FollowInv, inst' = inst, cow' = cow,
         \A p \in Panes : cmd[p].pc = "cascade" => cmd'[p] = cmd[p] /\ at'[p] = at[p],
         \A p \in Panes : cmd'[p].pc = "cascade" => cmd'[p] = cmd[p]
  PROVE  FollowInv'
  <1>1. \A d : Adopted(d)' <=> Adopted(d)
    BY DEF Adopted, Steps
  <1>2. ASSUME NEW p \in Panes PROVE Carrying(p)'
    <2>1. cmd'[p].pc = "cascade" => /\ cmd'[p] = cmd[p] /\ Route(p)' = Route(p) /\ InHand(p)' = InHand(p)
                                    /\ Carrying(p)
      BY DEF FollowInv, Route, InHand
    <2> QED
      BY <1>1, <2>1 DEF Carrying, Alive
  <1>3. ASSUME NEW c \in Coworkers, Alive(c)', ~Adopted(Parent[c])',
               \A p \in Panes : cmd'[p].pc = "cascade" => InHand(p)'.on # Parent[c]
        PROVE  cow'[c].root = inst'[Parent[c]].route
    <2>1. \A p \in Panes : cmd[p].pc = "cascade" => InHand(p).on # Parent[c]
      BY <1>3 DEF InHand
    <2> QED
      BY <1>1, <1>3, <2>1 DEF FollowInv, Alive
  <1> QED
    BY <1>2, <1>3 DEF FollowInv

LEMMA Carriers ==
  ASSUME TypeInv, Next, NEW p \in Panes, cmd'[p].pc = "cascade"
  PROVE  \/ cmd'[p] = cmd[p]
         \/ Write(p) /\ cmd'[p] = Carried(p)
         \/ \E c \in Coworkers : Cascade(p, c) /\ cmd'[p] = Rest(p, c)
  <1> DEFINE n == cmd'[p]
  <1>1. n.pc = "cascade"
    OBVIOUS
  <1> HIDE DEF n
  <1>2. n # NoCmd
    BY <1>1 DEF NoCmd
  <1>3. \A op \in {"accept", "takeover"}, pc \in {"load", "record"}, list \in Lists : n # Fresh(op, pc, list)
    BY <1>1, FreshCommand, ListsAreSequences
  <1>4. Load(p) => n # Skipped(p) /\ n # Taken(p)
    <2>1. Load(p) => cmd[p].pc = "load"
      BY DEF Load
    <2>2. Skipped(p).pc = cmd[p].pc /\ Taken(p).pc = cmd[p].pc
      BY NextCommands
    <2> QED
      BY <1>1, <2>1, <2>2
  <1>5. n # Recorder(p) /\ n # Proven(p) /\ n # Placing(p)
    BY <1>1, NextCommands
  <1>6. Moving(p) => n # Done(cmd[p])
    BY <1>1, DoneNext
  <1> QED
    BY <1>2, <1>3, <1>4, <1>5, <1>6, CommandSteps, WriteStep, CascadeStep DEF n

\* Beside the moves: a coworker is written in time, or late.
LEMMA FollowFiles ==
  ASSUME TypeInv, SerialInv, FollowInv, Next, FileStep, ~Overlaps
  PROVE  FollowInv'
  <1>1. Quiet /\ cmd' = cmd
    BY FileQuiet
  <1>2. \A p \in Panes : cmd[p].pc # "cascade"
    BY <1>1 DEF Quiet, Moving
  <1>3. \A p \in Panes : Carrying(p)'
    BY <1>1, <1>2 DEF Carrying
  <1>4. ASSUME NEW c \in Coworkers, Alive(c)', ~Adopted(Parent[c])'
        PROVE  cow'[c].root = inst'[Parent[c]].route
    <2> DEFINE d == Parent[c]
    <2>1. d \in Dispatches /\ ~Adopted(d)
      BY <1>4, AdoptedGrows
    <2>2. Alive(c) => cow[c].root = inst[d].route
      BY <1>2, <2>1 DEF FollowInv
    <2>3. inst'[d].route = inst[d].route
      <3>1. ASSUME NEW r, NEW e, Steps(d)' = Steps(d) \cup {e}, e.how = "adopt" PROVE FALSE
        BY <1>4, <3>1 DEF Adopted
      <3>2. \A p \in Panes : ~Write(p)
        BY <1>2, WriteStep, <1>1 DEF Quiet
      <3>3. CASE \E how \in {"accept", "takeover", "adopt"}, r \in RouteRecs :
                   /\ Steps(d)' = Steps(d) \cup {[how |-> how, before |-> inst[d].route, after |-> r]}
                   /\ how = "adopt"
        <4>1. PICK r \in RouteRecs : Steps(d)' = Steps(d) \cup {[how |-> "adopt", before |-> inst[d].route, after |-> r]}
          BY <3>3
        <4> DEFINE e == [how |-> "adopt", before |-> inst[d].route, after |-> r]
        <4>2. e.how = "adopt"
          OBVIOUS
        <4> HIDE DEF e
        <4> QED
          BY <3>1, <4>1, <4>2 DEF e
      <3> QED
        BY <2>1, <3>2, <3>3, StepsGrow
    <2>4. CASE cow'[c] = cow[c]
      BY <1>4, <2>2, <2>3, <2>4 DEF Alive
    <2>5. CASE cow'[c] = [st |-> "asked", root |-> inst[d].route, late |-> FALSE, repairs |-> 0]
      BY <1>4, <2>5 DEF Alive
    <2>6. CASE cow'[c].root = cow[c].root /\ (Alive(c) \/ cow[c].root = inst[d].route)
      BY <2>2, <2>3, <2>6
    <2>7. \A p \in Panes : ~Cascade(p, c)
      BY <1>2, CascadeStep
    <2> QED
      BY <1>4, <2>4, <2>5, <2>6, <2>7, CoworkerSteps DEF Alive
  <1> QED
    BY <1>3, <1>4 DEF FollowInv

\* Every coworker of the dispatch in hand is carried over with it.
LEMMA AllFollow ==
  ASSUME TypeInv, EarlyInv, SerialInv, OnceInv, ReadInv, FollowInv, NEW p \in Panes, cmd[p].pc = "write",
         NEW c \in Coworkers, Parent[c] = InHand(p).on, Alive(c), ~Adopted(Parent[c])
  PROVE  c \in Followers(p)
  <1>1. Moving(p)
    BY DEF Moving
  <1>2. \A q \in Panes : cmd[q].pc # "cascade"
    BY <1>1 DEF SerialInv, Moving
  <1>3. cow[c].root = inst[Parent[c]].route
    BY <1>2 DEF FollowInv
  <1>4. 1 \in DOMAIN cmd[p].queue /\ InHand(p) = cmd[p].queue[1]
    BY <1>1, InHandOpen
  <1>5. Ahead(p, Parent[c])
    BY <1>4 DEF Ahead, Due
  <1>6. cmd[p].cows[c] = cow[c]
    BY <1>1, <1>5 DEF ReadInv
  <1>7. cow[c].st = "open"
    BY DEF Alive
  <1>8. inst[Parent[c]] = InHand(p).was
    BY DEF SerialInv, AsLoaded
  <1> QED
    BY <1>3, <1>6, <1>7, <1>8 DEF Followers

LEMMA FollowWrite ==
  ASSUME TypeInv, EarlyInv, SerialInv, OnceInv, ReadInv, FollowInv, Next, ~Overlaps,
         NEW p \in Panes, Write(p)
  PROVE  FollowInv'
  <1>0. PICK d \in Dispatches : InHand(p).on = d
    BY WriteStep, InHandOpen, Queues
  <1>1. /\ cmd[p].pc = "write" /\ Moving(p) /\ cow' = cow
        /\ inst' = [inst EXCEPT ![d] = Moved(InHand(p).was, cmd[p].op, Route(p))]
        /\ \/ StaysBut(p, Done(cmd[p])) /\ Followers(p) = {}
           \/ StaysBut(p, Carried(p))
    BY <1>0, WriteStep
  <1>2. inst \in [Dispatches -> Files] /\ cmd \in [Panes -> Commands] /\ d \in Dispatches
        /\ InHand(p).was \in Files
    BY <1>0, <1>1, InHandOpen, Queues DEF TypeInv, TypeOK
  <1>3. \A q \in Panes : cmd[q].pc # "cascade"
    BY <1>1 DEF SerialInv, Moving
  <1>4. at' = at /\ \A q \in Panes \ {p} : cmd'[q] = cmd[q]
    BY <1>1, <1>2 DEF StaysBut
  <1>5. ASSUME NEW c \in Coworkers, Parent[c] = d, Alive(c), ~Adopted(d)' PROVE c \in Followers(p)
    <2>1. ~Adopted(d)
      BY <1>2, <1>5, AdoptedGrows
    <2> QED
      BY <1>0, <1>1, <1>5, <2>1, AllFollow
  <1>6. ASSUME NEW e \in Dispatches, e # d PROVE inst'[e] = inst[e] /\ (Adopted(e)' <=> Adopted(e))
    <2>1. inst'[e] = inst[e]
      BY <1>1, <1>2, <1>6
    <2> QED
      BY <2>1 DEF Adopted, Steps
  <1>7. inst'[d].route = Route(p)
    BY <1>1, <1>2, MovedRoute
  <1>8. Moving(p) /\ Done(cmd[p]).pc # "cascade"
    BY <1>1, DoneNext
  <1>9. CASE StaysBut(p, Carried(p))
    <2>1. cmd'[p] = Carried(p)
      BY <1>2, <1>9 DEF StaysBut
    <2>2. Carried(p).pc = "cascade" /\ Carried(p).queue = cmd[p].queue /\ Carried(p).left = Followers(p)
      BY NextCommands
    <2>3. cmd'[p].pc = "cascade" /\ InHand(p)' = InHand(p) /\ cmd'[p].left = Followers(p) /\ Route(p)' = Route(p)
      BY <1>4, <2>1, <2>2 DEF InHand, Route
    <2>4. Carrying(p)'
      BY <1>0, <1>1, <1>5, <1>7, <2>3 DEF Carrying, Alive
    <2>5. \A q \in Panes : Carrying(q)'
      BY <1>3, <1>4, <2>4 DEF Carrying
    <2>6. ASSUME NEW c \in Coworkers, Alive(c)', ~Adopted(Parent[c])',
                 \A q \in Panes : cmd'[q].pc = "cascade" => InHand(q)'.on # Parent[c]
          PROVE  cow'[c].root = inst'[Parent[c]].route
      <3>1. Parent[c] # d
        BY <1>0, <2>3, <2>6
      <3>2. Parent[c] \in Dispatches
        OBVIOUS
      <3>3. inst'[Parent[c]] = inst[Parent[c]] /\ ~Adopted(Parent[c])
        BY <1>6, <2>6, <3>1, <3>2
      <3> QED
        BY <1>1, <1>3, <2>6, <3>3 DEF FollowInv, Alive
    <2> QED
      BY <2>5, <2>6 DEF FollowInv
  <1>10. CASE StaysBut(p, Done(cmd[p])) /\ Followers(p) = {}
    <2>1. cmd'[p] = Done(cmd[p])
      BY <1>2, <1>10 DEF StaysBut
    <2>2. \A q \in Panes : cmd'[q].pc # "cascade"
      BY <1>3, <1>4, <1>8, <2>1
    <2>3. ASSUME NEW c \in Coworkers, Alive(c)', ~Adopted(Parent[c])'
          PROVE  cow'[c].root = inst'[Parent[c]].route
      <3>1. Alive(c)
        BY <1>1, <2>3 DEF Alive
      <3>2. Parent[c] # d
        BY <1>5, <1>10, <2>3, <3>1
      <3>3. Parent[c] \in Dispatches
        OBVIOUS
      <3>4. inst'[Parent[c]] = inst[Parent[c]] /\ ~Adopted(Parent[c])
        BY <1>6, <2>3, <3>2, <3>3
      <3> QED
        BY <1>1, <1>3, <3>1, <3>4 DEF FollowInv
    <2> QED
      BY <2>2, <2>3 DEF FollowInv, Carrying
  <1> QED
    BY <1>1, <1>9, <1>10

LEMMA FollowCascade ==
  ASSUME TypeInv, EarlyInv, SerialInv, OnceInv, ReadInv, FollowInv, Next, ~Overlaps,
         NEW p \in Panes, NEW b \in Coworkers, Cascade(p, b)
  PROVE  FollowInv'
  <1>0. PICK d \in Dispatches : InHand(p).on = d
    BY CascadeStep, InHandOpen, Queues
  <1>1. /\ cmd[p].pc = "cascade" /\ Moving(p) /\ b \in cmd[p].left
        /\ inst' = inst /\ cow' = [cow EXCEPT ![b] = [cmd[p].cows[b] EXCEPT !.root = Route(p)]]
        /\ \/ StaysBut(p, Done(cmd[p])) /\ cmd[p].left = {b}
           \/ StaysBut(p, Rest(p, b))
    BY CascadeStep
  <1>2. /\ cow \in [Coworkers -> CoworkerFiles] /\ cmd \in [Panes -> Commands]
        /\ d \in Dispatches /\ Parent[b] = d
    BY <1>0, <1>1, InHandOpen, Queues DEF TypeInv, TypeOK, ReadInv
  <1>3. cmd[p].cows[b].st = "open" /\ cmd[p].cows[b] \in CoworkerFiles
    BY <1>1, SoundCommands DEF Sound, Commands
  <1>4. cow[b].st = "open"
    BY <1>1, <1>3 DEF SerialInv
  <1>a. cow[b].late = cmd[p].cows[b].late
    BY <1>1, <1>3 DEF SerialInv
  <1>5. cow'[b].root = Route(p) /\ (Alive(b)' => Alive(b)) /\ \A c \in Coworkers \ {b} : cow'[c] = cow[c]
    BY <1>1, <1>2, <1>3, <1>4, <1>a DEF CoworkerFiles, None, Alive
  <1>6. at' = at /\ \A q \in Panes \ {p} : cmd'[q] = cmd[q] /\ cmd[q].pc # "cascade"
    BY <1>1, <1>2 DEF StaysBut, SerialInv, Moving
  <1>7. \A e : Adopted(e)' <=> Adopted(e)
    BY <1>1 DEF Adopted, Steps
  <1>8. \A c \in Coworkers : Alive(c)' => Alive(c)
    BY <1>5 DEF Alive
  <1>9. inst[d].route = Route(p) /\ \A c \in Coworkers :
          Parent[c] = d /\ Alive(c) /\ c \notin cmd[p].left /\ ~Adopted(d) => cow[c].root = Route(p)
    BY <1>0, <1>1 DEF FollowInv, Carrying
  <1>10. ASSUME NEW c \in Coworkers, Alive(c)', ~Adopted(Parent[c])', Parent[c] # d
         PROVE  cow'[c].root = inst'[Parent[c]].route
    <2>1. \A q \in Panes : cmd[q].pc = "cascade" => InHand(q).on # Parent[c]
      BY <1>0, <1>6, <1>10
    <2>2. c # b /\ Alive(c) /\ ~Adopted(Parent[c])
      BY <1>2, <1>7, <1>8, <1>10
    <2> QED
      BY <1>1, <1>5, <2>1, <2>2 DEF FollowInv
  <1>11. ASSUME NEW c \in Coworkers, Alive(c)', ~Adopted(d)', Parent[c] = d, c = b \/ c \notin cmd[p].left
         PROVE  cow'[c].root = Route(p)
    BY <1>5, <1>7, <1>8, <1>9, <1>11
  <1>12. CASE StaysBut(p, Rest(p, b))
    <2>1. cmd'[p] = Rest(p, b)
      BY <1>2, <1>12 DEF StaysBut
    <2>2. Rest(p, b).pc = "cascade" /\ Rest(p, b).queue = cmd[p].queue /\ Rest(p, b).left = cmd[p].left \ {b}
      BY <1>1, RestCommand
    <2>3. cmd'[p].pc = "cascade" /\ InHand(p)' = InHand(p) /\ cmd'[p].left = cmd[p].left \ {b} /\ Route(p)' = Route(p)
      BY <1>6, <2>1, <2>2 DEF InHand, Route
    <2>4. Carrying(p)'
      BY <1>0, <1>1, <1>9, <1>11, <2>3 DEF Carrying
    <2>5. \A q \in Panes : Carrying(q)'
      BY <1>6, <2>4 DEF Carrying
    <2>6. ASSUME NEW c \in Coworkers, Alive(c)', ~Adopted(Parent[c])',
                 \A q \in Panes : cmd'[q].pc = "cascade" => InHand(q)'.on # Parent[c]
          PROVE  cow'[c].root = inst'[Parent[c]].route
      BY <1>0, <1>10, <2>3, <2>6
    <2> QED
      BY <2>5, <2>6 DEF FollowInv
  <1>13. CASE StaysBut(p, Done(cmd[p])) /\ cmd[p].left = {b}
    <2>1. cmd'[p] = Done(cmd[p])
      BY <1>2, <1>13 DEF StaysBut
    <2>2. \A q \in Panes : cmd'[q].pc # "cascade"
      BY <1>1, <1>6, <2>1, DoneNext
    <2>3. ASSUME NEW c \in Coworkers, Alive(c)', ~Adopted(Parent[c])'
          PROVE  cow'[c].root = inst'[Parent[c]].route
      <3>1. CASE Parent[c] # d
        BY <1>10, <2>3, <3>1
      <3>2. CASE Parent[c] = d
        BY <1>1, <1>9, <1>11, <1>13, <2>3, <3>2
      <3> QED
        BY <3>1, <3>2
    <2> QED
      BY <2>2, <2>3 DEF FollowInv, Carrying
  <1> QED
    BY <1>1, <1>12, <1>13

LEMMA FollowStays ==
  ASSUME TypeInv, EarlyInv, SerialInv, OnceInv, ReadInv, FollowInv, Next, ~Overlaps, ~Kills
  PROVE  FollowInv'
  <1>1. CASE ~FileStep /\ (\A p \in Panes : ~Write(p)) /\ (\A p \in Panes, c \in Coworkers : ~Cascade(p, c))
    <2>1. \A d \in Dispatches : inst'[d] = inst[d]
      BY <1>1, DispatchSteps DEF FileStep
    <2>2. \A c \in Coworkers : cow'[c] = cow[c]
      BY <1>1, CoworkerSteps
    <2>3. inst' = inst /\ cow' = cow
      <3>1. inst' \in [Dispatches -> Files] /\ cow' \in [Coworkers -> CoworkerFiles]
        BY TypeStays DEF TypeInv, TypeOK
      <3>2. inst \in [Dispatches -> Files] /\ cow \in [Coworkers -> CoworkerFiles]
        BY DEF TypeInv, TypeOK
      <3> QED
        BY <2>1, <2>2, <3>1, <3>2
    <2>4. \A p \in Panes : cmd[p].pc = "cascade" => cmd'[p] = cmd[p] /\ at'[p] = at[p]
      BY <1>1, HalfwaySteps DEF Halfway
    <2>5. \A p \in Panes : cmd'[p].pc = "cascade" => cmd'[p] = cmd[p]
      BY <1>1, Carriers
    <2> QED
      BY <2>3, <2>4, <2>5, FollowCalm
  <1> QED
    BY <1>1, FollowFiles, FollowWrite, FollowCascade

\* As long as no other command writes between a move's comparison and its write, and no
\* move is killed between a dispatch and its coworkers: outside a move's own dispatch
\* every coworker whose file was written while its parent's route was the one it names
\* has its parent's main route for its root route, however many dispatches,
\* coworkers, handoffs, takeovers and restarts there are.
THEOREM CoworkersFollowAlways == ASSUME ~Overlaps, ~Kills PROVE Spec => []CoworkersFollow
  <1>1. TypeInv /\ EarlyInv /\ [Next]_vars => EarlyInv'
    BY EarlyStays DEF vars, EarlyInv, Early, Accepting, Moving
  <1>2. TypeInv /\ OnceInv /\ [Next]_vars => OnceInv'
    <2> SUFFICES ASSUME TypeInv, OnceInv, [Next]_vars PROVE OnceInv'
      OBVIOUS
    <2>1. CASE UNCHANGED vars
      BY <2>1 DEF vars, OnceInv, Single, NoRepeats
    <2> QED
      BY <2>1, OnceStays
  <1>3. TypeInv /\ EarlyInv /\ SerialInv /\ OnceInv /\ ReadInv /\ [Next]_vars => ReadInv'
    <2> SUFFICES ASSUME TypeInv, EarlyInv, SerialInv, OnceInv, ReadInv, [Next]_vars PROVE ReadInv'
      OBVIOUS
    <2>1. CASE UNCHANGED vars
      BY <2>1 DEF vars, ReadInv, Moving, InHand, Ahead
    <2> QED
      BY <2>1, ReadStays
  <1>4. TypeInv /\ EarlyInv /\ SerialInv /\ OnceInv /\ ReadInv /\ FollowInv /\ [Next]_vars => FollowInv'
    <2> SUFFICES ASSUME TypeInv, EarlyInv, SerialInv, OnceInv, ReadInv, FollowInv, [Next]_vars PROVE FollowInv'
      OBVIOUS
    <2>1. CASE UNCHANGED vars
      BY <2>1, FollowCalm DEF vars
    <2> QED
      BY <2>1, FollowStays
  <1>5. FollowInv => CoworkersFollow
    <2> SUFFICES ASSUME FollowInv, NEW c \in Coworkers, cow[c].st = "open",
                        ~cow[c].late, \A s \in Steps(Parent[c]) : s.how # "adopt",
                        \A p \in Panes : Halfway(p) => InHand(p).on # Parent[c]
                 PROVE  cow[c].root = inst[Parent[c]].route
      BY DEF CoworkersFollow
    <2>1. Alive(c) /\ ~Adopted(Parent[c]) /\ \A p \in Panes : cmd[p].pc = "cascade" => InHand(p).on # Parent[c]
      BY DEF Alive, Adopted, Halfway
    <2> QED
      BY <2>1 DEF FollowInv
  <1> QED
    BY <1>1, <1>2, <1>3, <1>4, <1>5, EarlyInit, OnceInit, ReadInit, FollowInit, TypeAlways, SerialAlways,
       PTL DEF Spec
=============================================================================
