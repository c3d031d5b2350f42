---------------------------- MODULE RenewalProofs ----------------------------
(***************************************************************************)
(* Theorems about Renewal beside Messages, for every number of sessions,   *)
(* every set of dispatches and every set of questions.                     *)
(***************************************************************************)
EXTENDS Messages, TLAPS

(***************************************************************************)
(* Types                                                                   *)
(***************************************************************************)
Hooks == [pc : HookPoints \cup {"none"}, rec : Records, from : Sessions \cup {None}, snap : SUBSET Paths]

LEMMA RecordValues ==
  /\ NoRecord \in Records
  /\ \A r \in Records, s \in Sessions :
       /\ [NoRecord EXCEPT !.st = "pending", !.by = s] \in Records
       /\ Consumed(r, s) \in Records
       /\ Continued(r) \in Sessions \cup {None}
  BY DEF NoRecord, Records, Consumed, Continued

LEMMA HookValues ==
  /\ NoHook \in Hooks /\ NoHook.pc = "none" /\ NoHook.snap = {}
  BY RecordValues DEF NoHook, Hooks

LEMMA SessionValues == 0 \in Sessions /\ Sessions \subseteq Nat
  BY RenewalAssumption DEF Sessions

\* A record that may be claimed names whom it continues, so an adopting hook knows it.
Adopting == {"check", "read", "move", "lineage", "carry", "drop", "rekey"}
Known(r) ==
  /\ r.st = "pending" => r.by \in Sessions
  /\ r.st = "consumed" => r.claimant \in Sessions

FromKnown ==
  /\ Known(record)
  /\ \A s \in Sessions :
       /\ hook[s].pc = "consume" => Known(hook[s].rec) /\ hook[s].rec.st # "none"
       /\ hook[s].pc \in Adopting => hook[s].from \in Sessions

LEMMA TypeInit == Init => TypeOK
  <1> SUFFICES ASSUME Init PROVE TypeOK
    OBVIOUS
  <1>1. record \in Records /\ hook \in [Sessions -> Hooks]
    BY RecordValues, HookValues DEF Init
  <1> QED
    BY <1>1, SessionValues DEF Init, TypeOK, Hooks

LEMMA TypePane == TypeOK /\ PaneStep /\ UNCHANGED ledger => TypeOK'
  <1> SUFFICES ASSUME TypeOK, PaneStep, UNCHANGED ledger PROVE TypeOK'
    OBVIOUS
  <1> USE DEF TypeOK
  <1>n. StartsNext => last' \in Sessions /\ hook' \in [Sessions -> Hooks]
    <2> SUFFICES ASSUME StartsNext PROVE last' \in Sessions /\ hook' \in [Sessions -> Hooks]
      OBVIOUS
    <2>1. last + 1 \in Sessions /\ last' = last + 1
      BY RenewalAssumption DEF StartsNext, Sessions
    <2>2. [hook[last + 1] EXCEPT !.pc = "begin"] \in Hooks
      BY <2>1 DEF Hooks, HookPoints
    <2>3. hook' = [hook EXCEPT ![last + 1] = [hook[last + 1] EXCEPT !.pc = "begin"]]
      BY DEF StartsNext
    <2> QED
      BY <2>1, <2>2, <2>3 DEF Hooks
  <1>1. CASE TurnStarts
    BY <1>1 DEF TurnStarts
  <1>2. CASE Grows
    BY <1>2 DEF Grows
  <1>3. CASE Stop
    <2>1. record' \in Records
      <3>1. Confirmed \in Records
        BY DEF Confirmed, Records
      <3>2. /\ [Confirmed EXCEPT !.settled = @ \/ Exempt] \in Records
            /\ [Confirmed EXCEPT !.reported = TRUE] \in Records
        BY <3>1 DEF Records, Exempt, Mine
      <3> QED
        BY <1>3, <3>1, <3>2 DEF Stop
    <2>2. turn' \in {turn, "idle"} /\ blocked' \in {"no", "renew", "report"}
      BY <1>3 DEF Stop, Allow, Block
    <2> QED
      BY <1>3, <2>1, <2>2 DEF Stop
  <1>4. CASE Renew
    <2>1. record' \in Records
      BY <1>4, RecordValues DEF Renew, Written
    <2>2. line' \subseteq Sessions
      BY <1>4 DEF Renew, Written
    <2> QED
      BY <1>4, <2>1, <2>2 DEF Renew, Written, Deliverer
  <1>5. CASE Clear
    BY <1>5, <1>n DEF Clear, StartsNext, Hooks
  <1>6. CASE Deliver
    BY <1>6, <1>n DEF Deliver, StartsNext, Hooks
  <1>7. CASE GiveUp
    BY <1>7 DEF GiveUp
  <1>8. CASE Continue
    BY <1>8 DEF Continue
  <1>9. ASSUME NEW i \in Paths, Dispatch(i) \/ TakenOver(i) PROVE TypeOK'
    BY <1>9 DEF Dispatch, TakenOver
  <1> QED
    BY <1>1, <1>2, <1>3, <1>4, <1>5, <1>6, <1>7, <1>8, <1>9 DEF PaneStep

LEMMA TypeHook == \A s \in Sessions : TypeOK /\ FromKnown /\ (HookStep(s) \/ HookDies(s)) => TypeOK'
  <1> SUFFICES ASSUME NEW s \in Sessions, TypeOK, FromKnown, HookStep(s) \/ HookDies(s) PROVE TypeOK'
    OBVIOUS
  <1> USE DEF TypeOK, Rest
  <1>h. hook \in [Sessions -> Hooks] /\ hook[s] \in Hooks /\ hook[s].from \in Sessions \cup {None}
    BY DEF Hooks
  <1>a. \A pc \in HookPoints : Advance(s, pc) => hook' \in [Sessions -> Hooks]
    <2> SUFFICES ASSUME NEW pc \in HookPoints, Advance(s, pc) PROVE hook' \in [Sessions -> Hooks]
      OBVIOUS
    <2>1. [hook[s] EXCEPT !.pc = pc] \in Hooks
      BY <1>h DEF Hooks
    <2>2. hook' = [hook EXCEPT ![s] = [hook[s] EXCEPT !.pc = pc]]
      BY DEF Advance
    <2> QED
      BY <1>h, <2>1, <2>2
  <1>e. EndHook(s) => hook' \in [Sessions -> Hooks] /\ turn' \in {"starting", "idle", "busy"}
    BY <1>h, HookValues DEF EndHook
  <1>s. hook' \in [Sessions -> Hooks] => hook' \in
          [Sessions -> [pc : HookPoints \cup {"none"}, rec : Records, from : Sessions \cup {None}, snap : SUBSET Paths]]
    BY DEF Hooks
  <1>p. {"begin", "consume", "check", "read", "move", "lineage", "carry", "drop", "rekey"} = HookPoints
    BY DEF HookPoints
  <1>1. CASE HookLooks(s)
    <2>1. [hook[s] EXCEPT !.pc = "consume", !.rec = record] \in Hooks
      BY <1>h, <1>p DEF Hooks
    <2>2. CASE hook' = [hook EXCEPT ![s] = [hook[s] EXCEPT !.pc = "consume", !.rec = record]] /\ UNCHANGED turn
      BY <1>1, <1>h, <1>s, <2>1, <2>2 DEF HookLooks
    <2>3. CASE EndHook(s)
      BY <1>1, <1>e, <1>s, <2>3 DEF HookLooks
    <2> QED
      BY <1>1, <2>2, <2>3 DEF HookLooks
  <1>2. CASE HookConsumes(s)
    <2>1. record' \in Records /\ Continued(record') \in Sessions \cup {None}
      BY <1>2, <1>h, RecordValues DEF HookConsumes, Hooks
    <2>2. [NoHook EXCEPT !.pc = "check", !.from = Continued(record')] \in Hooks
      BY <1>p, <2>1, HookValues DEF Hooks
    <2>3. hook' \in [Sessions -> Hooks]
      BY <1>2, <1>h, <2>2 DEF HookConsumes
    <2> QED
      BY <1>2, <1>s, <2>1, <2>3 DEF HookConsumes
  <1>3. CASE HookChecks(s)
    BY <1>3, <1>a, <1>e, <1>p, <1>s DEF HookChecks
  <1>4. CASE HookReads(s)
    <2> DEFINE found == {i \in Paths : route[i] = hook[s].from}
               pc == IF found = {} THEN "lineage" ELSE "move"
    <2>1. [hook[s] EXCEPT !.snap = found, !.pc = pc] \in Hooks
      BY <1>h, <1>p DEF Hooks
    <2>2. hook' = [hook EXCEPT ![s] = [hook[s] EXCEPT !.snap = found, !.pc = pc]]
      BY <1>4 DEF HookReads
    <2>3. hook' \in [Sessions -> Hooks]
      BY <1>h, <2>1, <2>2
    <2> QED
      BY <1>4, <1>s, <2>3 DEF HookReads
  <1>5. ASSUME NEW i \in Paths, HookMoves(s, i) PROVE TypeOK'
    <2> DEFINE pc == IF hook[s].snap = {i} THEN "lineage" ELSE "move"
    <2>1. [hook[s] EXCEPT !.snap = @ \ {i}, !.pc = pc] \in Hooks
      BY <1>h, <1>p DEF Hooks
    <2>2. hook' = [hook EXCEPT ![s] = [hook[s] EXCEPT !.snap = @ \ {i}, !.pc = pc]]
      BY <1>5 DEF HookMoves
    <2>3. hook' \in [Sessions -> Hooks]
      BY <1>h, <2>1, <2>2
    <2> QED
      BY <1>5, <1>s, <2>3 DEF HookMoves
  <1>6. CASE HookAppendsLineage(s)
    <2>1. hook' \in [Sessions -> Hooks]
      BY <1>6, <1>a, <1>p DEF HookAppendsLineage
    <2> QED
      BY <1>6, <1>h, <1>s, <2>1 DEF HookAppendsLineage
  <1>7. CASE HookCarries(s)
    <2>1. hook' \in [Sessions -> Hooks]
      BY <1>7, <1>a, <1>p DEF HookCarries
    <2>2. ledger' \in [Sessions -> SUBSET Questions]
      <3>1. hook[s].from \in Sessions
        BY <1>7 DEF HookCarries, FromKnown, Adopting
      <3> QED
        BY <1>7, <3>1 DEF HookCarries
    <2> QED
      BY <1>7, <1>s, <2>1, <2>2 DEF HookCarries
  <1>8. CASE HookDrops(s)
    <2>1. hook' \in [Sessions -> Hooks]
      BY <1>8, <1>a, <1>p DEF HookDrops
    <2> QED
      BY <1>8, <1>s, <2>1 DEF HookDrops
  <1>9. CASE HookRekeys(s)
    <2>1. entry' \subseteq Sessions
      BY <1>9 DEF HookRekeys
    <2> QED
      BY <1>9, <1>e, <1>s, <2>1 DEF HookRekeys
  <1>10. CASE HookDies(s)
    <2>1. hook' \in [Sessions -> Hooks]
      BY <1>10, <1>h, HookValues DEF HookDies
    <2> QED
      BY <1>10, <1>s, <2>1 DEF HookDies
  <1> QED
    BY <1>1, <1>2, <1>3, <1>4, <1>5, <1>6, <1>7, <1>8, <1>9, <1>10 DEF HookStep

LEMMA KnownInit == Init => FromKnown
  BY DEF Init, FromKnown, Known, NoRecord, NoHook, Adopting

LEMMA KnownPane == TypeOK /\ FromKnown /\ PaneStep => FromKnown'
  <1> SUFFICES ASSUME TypeOK, FromKnown, PaneStep PROVE FromKnown'
    OBVIOUS
  <1>h. hook \in [Sessions -> Hooks] /\ last \in Sessions /\ record \in Records
    BY DEF TypeOK, Hooks
  <1>1. CASE StartsNext /\ UNCHANGED record
    <2>1. last + 1 \in Sessions
      BY <1>1, RenewalAssumption DEF StartsNext, Sessions, TypeOK
    <2>2. \A s \in Sessions \ {last + 1} : hook'[s] = hook[s]
      BY <1>1, <1>h DEF StartsNext
    <2>3. hook'[last + 1].pc = "begin"
      BY <1>1, <1>h, <2>1 DEF StartsNext, Hooks
    <2> QED
      BY <1>1, <2>2, <2>3 DEF FromKnown, Adopting
  <1>2. CASE Renew
    <2>1. record'.st = "pending" /\ record'.by = last /\ UNCHANGED hook
      BY <1>2 DEF Renew, Written, NoRecord
    <2> QED
      BY <1>h, <2>1 DEF FromKnown, Known
  <1>3. CASE Stop
    <2>1. Confirmed.st = record.st /\ Confirmed.by = record.by /\ Confirmed.claimant = record.claimant
          /\ Confirmed \in Records
      BY <1>h DEF Confirmed, Records
    <2>2. record'.st = record.st /\ record'.by = record.by /\ record'.claimant = record.claimant
      BY <1>3, <2>1 DEF Stop, Records
    <2>3. UNCHANGED hook
      BY <1>3 DEF Stop
    <2> QED
      BY <2>2, <2>3 DEF FromKnown, Known
  <1>4. CASE UNCHANGED <<record, hook>>
    BY <1>4 DEF FromKnown
  <1> QED
    BY <1>1, <1>2, <1>3, <1>4 DEF PaneStep, TurnStarts, Grows, Clear, Deliver, StartsNext, GiveUp, Continue,
       Dispatch, TakenOver

LEMMA KnownHook == \A s \in Sessions : TypeOK /\ FromKnown /\ (HookStep(s) \/ HookDies(s)) => FromKnown'
  <1> SUFFICES ASSUME NEW s \in Sessions, TypeOK, FromKnown, HookStep(s) \/ HookDies(s) PROVE FromKnown'
    OBVIOUS
  <1>h. hook \in [Sessions -> Hooks] /\ record \in Records
    BY DEF TypeOK, Hooks
  <1> USE DEF FromKnown, Adopting
  <1>o. \A t \in Sessions \ {s} : hook'[t] = hook[t]
    BY <1>h DEF HookStep, HookLooks, HookConsumes, HookChecks, HookReads, HookMoves, HookAppendsLineage,
       HookCarries, HookDrops, HookRekeys, HookDies, EndHook, Advance
  <1>1. CASE HookLooks(s)
    <2>1. CASE Claimable(record, s)
      <3>1. hook'[s].pc = "consume" /\ hook'[s].rec = record /\ UNCHANGED record
        BY <1>1, <1>h, <2>1 DEF HookLooks, Hooks
      <3> QED
        BY <1>o, <2>1, <3>1 DEF Claimable
    <2>2. CASE ~Claimable(record, s)
      BY <1>1, <1>h, <1>o, <2>2, HookValues DEF HookLooks, EndHook
    <2> QED
      BY <2>1, <2>2
  <1>2. CASE HookConsumes(s)
    <2>1. hook[s].rec \in Records /\ Known(hook[s].rec) /\ hook[s].rec.st \in {"pending", "consumed"}
      BY <1>2, <1>h DEF HookConsumes, Hooks, Records
    <2>2. record' = Consumed(hook[s].rec, s)
      BY <1>2 DEF HookConsumes
    <2>3. /\ record'.st = "consumed" /\ record'.claimant = s /\ record'.by = hook[s].rec.by
          /\ record'.from = IF hook[s].rec.st = "consumed" THEN hook[s].rec.claimant ELSE hook[s].rec.from
      BY <2>1, <2>2 DEF Consumed, Records
    <2>4. Continued(record') \in Sessions
      BY <2>1, <2>3, RenewalAssumption DEF Continued, Known, Records
    <2>5. hook'[s].pc = "check" /\ hook'[s].from = Continued(record')
      BY <1>2, <1>h DEF HookConsumes, NoHook
    <2> QED
      BY <1>o, <2>3, <2>4, <2>5 DEF Known
  <1>3. CASE UNCHANGED record /\ (hook'[s].pc \in Adopting => hook[s].pc \in Adopting /\ hook'[s].from = hook[s].from)
             /\ hook'[s].pc # "consume"
    BY <1>o, <1>3
  <1>4. ASSUME hook'[s] = NoHook, UNCHANGED record PROVE FromKnown'
    BY <1>o, <1>4, HookValues
  <1>5. CASE HookChecks(s)
    BY <1>5, <1>h, <1>3, <1>4 DEF HookChecks, Advance, EndHook, Rest, Hooks
  <1>6. CASE HookReads(s)
    BY <1>6, <1>h, <1>3 DEF HookReads, Hooks
  <1>7. CASE \E i \in Paths : HookMoves(s, i)
    BY <1>7, <1>h, <1>3 DEF HookMoves, Hooks
  <1>8. CASE HookAppendsLineage(s)
    BY <1>8, <1>h, <1>3 DEF HookAppendsLineage, Advance, Hooks
  <1>9. CASE HookCarries(s) \/ HookDrops(s)
    BY <1>9, <1>h, <1>3 DEF HookCarries, HookDrops, Advance, Hooks
  <1>10. CASE HookRekeys(s) \/ HookDies(s)
    BY <1>10, <1>h, <1>4 DEF HookRekeys, HookDies, EndHook
  <1> QED
    BY <1>1, <1>2, <1>5, <1>6, <1>7, <1>8, <1>9, <1>10 DEF HookStep

\* Messages change nothing of the pane but its ledger.
LEMMA MessagesApart ==
  \A m \in Questions : MTypeOK /\ MessageStep(m) => MTypeOK' /\ UNCHANGED pvars
  <1> SUFFICES ASSUME NEW m \in Questions, MTypeOK, MessageStep(m) PROVE MTypeOK' /\ UNCHANGED pvars
    OBVIOUS
  <1> USE DEF MTypeOK, Pass, StaysPut
  <1>p. UNCHANGED pvars
    BY DEF MessageStep, Resolve, Prompt, RecordDelivery, RecordUndelivered, SenderDies, Answer, Append
  <1>l. ledger' \in [Sessions -> SUBSET Questions] /\ peerBook' \subseteq Questions
    <2>1. CASE Append(m)
      BY <2>1 DEF Append, TypeOK
    <2>2. CASE UNCHANGED <<ledger, peerBook>>
      BY <2>2 DEF TypeOK
    <2> QED
      BY <2>1, <2>2 DEF MessageStep, Resolve, Prompt, RecordDelivery, RecordUndelivered, SenderDies, Answer
  <1>t. TypeOK'
    BY <1>p, <1>l DEF TypeOK, pvars
  <1> DEFINE Pcs == {"no", "checked", "prompted", "refused", "sent", "undelivered", "lost", "answered"}
             Msgs == [pc : Pcs, src : Sessions \cup {None, Peer}, tgt : Sessions \cup {None, Peer}]
  <1>m. \A pc \in Pcs : Pass(m, pc) => msg' \in [Questions -> Msgs]
    OBVIOUS
  <1>r. Resolve(m) => msg' \in [Questions -> Msgs]
    <2>1. Addressees \subseteq Sessions
      BY DEF Addressees, TypeOK
    <2>2. ASSUME NEW s \in Sessions, NEW pc \in {"checked", "refused"},
                 msg' = [msg EXCEPT ![m] = [pc |-> pc, src |-> Peer, tgt |-> s]]
          PROVE  msg' \in [Questions -> Msgs]
      BY <2>2
    <2>3. msg' = [msg EXCEPT ![m] = [pc |-> "checked", src |-> last, tgt |-> Peer]] => msg' \in [Questions -> Msgs]
      BY DEF TypeOK
    <2> QED
      BY <2>1, <2>2, <2>3 DEF Resolve
  <1>n. msg' \in [Questions -> Msgs]
    BY <1>m, <1>r DEF MessageStep, Prompt, RecordDelivery, RecordUndelivered, SenderDies, Answer
  <1> QED
    BY <1>l, <1>n, <1>p, <1>t

TypeInv == MTypeOK /\ FromKnown

LEMMA TypeStep == TypeInv /\ [Next]_vars => TypeInv'
  <1> SUFFICES ASSUME TypeInv, [Next]_vars PROVE TypeInv'
    OBVIOUS
  <1> USE DEF TypeInv, MTypeOK
  <1>1. CASE PaneStep /\ UNCHANGED <<ledger, mvars>>
    BY <1>1, TypePane, KnownPane DEF mvars
  <1>2. ASSUME NEW s \in Sessions, (HookStep(s) \/ HookDies(s)) /\ UNCHANGED mvars PROVE TypeInv'
    BY <1>2, TypeHook, KnownHook DEF mvars
  <1>3. ASSUME NEW m \in Questions, MessageStep(m) PROVE TypeInv'
    <2>1. MTypeOK' /\ UNCHANGED pvars
      BY <1>3, MessagesApart
    <2> QED
      BY <2>1 DEF pvars, FromKnown
  <1>4. CASE UNCHANGED vars
    BY <1>4 DEF vars, pvars, mvars, TypeOK, FromKnown
  <1> QED
    BY <1>1, <1>2, <1>3, <1>4 DEF Next

LEMMA TypeInvHolds == Spec => []TypeInv
  <1>1. MInit => TypeInv
    <2>1. MInit => Init
      BY DEF MInit
    <2> QED
      BY <2>1, TypeInit, KnownInit DEF MInit, TypeInv, MTypeOK
  <1> QED
    BY <1>1, TypeStep, PTL DEF Spec

\* The shapes of the record, the hooks, the routes, the ledgers and the messages.
THEOREM TypesHold == Spec => []MTypeOK
  BY TypeInvHolds, PTL DEF TypeInv

(***************************************************************************)
(* One hook at a time.  When a session starts only once the hook of the    *)
(* one before it is over, only the last session's hook runs, while it      *)
(* starts; nothing else writes the record meanwhile.                       *)
(***************************************************************************)
OneHook ==
  /\ \A s \in Sessions : Running(s) => s = last /\ turn = "starting"
  /\ \A s \in Sessions : hook[s].pc = "consume" => hook[s].rec = record /\ Claimable(record, s)
  /\ \A s \in Sessions : hook[s].pc \in Adopting =>
       /\ record.st = "consumed" /\ record.claimant = s /\ ~record.confirmed
       /\ hook[s].from = Continued(record)
  /\ record.st = "none" => ~record.confirmed /\ record.claimant = None
  /\ record.st = "pending" => /\ record.from = None /\ record.claimant = None /\ ~record.confirmed
                              /\ record.by <= last
  /\ record.st = "consumed" => record.claimant <= last

LEMMA PointsAreRunning == Adopting \subseteq HookPoints /\ "begin" \in HookPoints /\ "consume" \in HookPoints
  /\ HookPoints = {"begin", "consume"} \cup Adopting /\ "none" \notin HookPoints
  BY DEF Adopting, HookPoints

LEMMA OneHookInit == Init => OneHook
  BY PointsAreRunning DEF Init, OneHook, NoHook, NoRecord, Running, HookPoints, Adopting

\* What the guard may change of the record.
LEMMA StopRecord ==
  ASSUME TypeOK, Stop
  PROVE  /\ record' \in Records /\ record'.st = record.st /\ record'.by = record.by
         /\ record'.claimant = record.claimant /\ record'.from = record.from
         /\ record'.confirmed # record.confirmed => record.claimant = last
         /\ turn = "busy" /\ turn' \in {"idle", "busy"}
         /\ UNCHANGED <<last, over, dl, hook, route, pred, entry, line>>
  <1>r. record \in Records
    BY DEF TypeOK
  <1>1. /\ Confirmed \in Records /\ Confirmed.st = record.st /\ Confirmed.by = record.by
        /\ Confirmed.claimant = record.claimant /\ Confirmed.from = record.from
        /\ Confirmed.confirmed # record.confirmed => record.claimant = last
    BY <1>r DEF Confirmed, Mine, Records
  <1>2. \A b \in BOOLEAN : /\ [Confirmed EXCEPT !.settled = b] \in Records
                           /\ [Confirmed EXCEPT !.reported = b] \in Records
    BY <1>1 DEF Records
  <1>3. (Confirmed.settled \/ Exempt) \in BOOLEAN
    OBVIOUS
  <1>4. \/ record' = record \/ record' = Confirmed \/ record' = [Confirmed EXCEPT !.reported = TRUE]
        \/ record' = [Confirmed EXCEPT !.settled = Confirmed.settled \/ Exempt]
    BY DEF Stop
  <1>5. /\ record' \in Records /\ record'.st = record.st /\ record'.by = record.by
        /\ record'.claimant = record.claimant /\ record'.from = record.from
        /\ record'.confirmed # record.confirmed => record.claimant = last
    <2>1. CASE record' = record \/ record' = Confirmed
      BY <1>r, <1>1, <2>1
    <2>2. CASE record' = [Confirmed EXCEPT !.reported = TRUE]
      BY <1>1, <1>2, <2>2 DEF Records
    <2>3. CASE record' = [Confirmed EXCEPT !.settled = Confirmed.settled \/ Exempt]
      <3>1. PICK b \in BOOLEAN : record' = [Confirmed EXCEPT !.settled = b]
        BY <1>3, <2>3
      <3> QED
        BY <1>1, <1>2, <3>1 DEF Records
    <2> QED
      BY <1>4, <2>1, <2>2, <2>3
  <1>6. turn = "busy" /\ UNCHANGED <<last, over, dl, hook, route, pred, entry, line>>
    BY DEF Stop
  <1>7. turn' \in {"idle", turn}
    BY DEF Stop, Allow, Block
  <1> QED
    BY <1>5, <1>6, <1>7

LEMMA OneHookPane == ~Overlap /\ TypeOK /\ FromKnown /\ OneHook /\ PaneStep => OneHook'
  <1> SUFFICES ASSUME ~Overlap, TypeOK, FromKnown, OneHook, PaneStep PROVE OneHook'
    OBVIOUS
  <1>h. hook \in [Sessions -> Hooks] /\ last \in Sessions /\ record \in Records /\ Sessions \subseteq Nat
    BY SessionValues DEF TypeOK, Hooks
  <1> USE PointsAreRunning DEF Running
  <1>1. CASE StartsNext /\ UNCHANGED record
    <2>1. last + 1 \in Sessions /\ last' = last + 1 /\ turn' = "starting"
      BY <1>1, RenewalAssumption DEF StartsNext, Sessions, TypeOK
    <2>2. \A s \in Sessions \ {last + 1} : hook'[s] = hook[s]
      BY <1>1, <1>h DEF StartsNext
    <2>3. hook'[last + 1].pc = "begin"
      BY <1>1, <1>h, <2>1 DEF StartsNext, Hooks
    <2>4. \A s \in Sessions : ~Running(s)
      BY <1>1 DEF StartsNext, OneHook
    <2>5. \A s \in Sessions : s <= last => s <= last'
      BY <1>h, <2>1
    <2>6. \A s \in Sessions : hook'[s].pc \in HookPoints => s = last' /\ hook'[s].pc = "begin"
      BY <2>1, <2>2, <2>3, <2>4
    <2>7. "begin" \notin Adopting
      BY DEF Adopting
    <2> QED
      BY <1>1, <2>1, <2>5, <2>6, <2>7 DEF OneHook, FromKnown, Known, Records
  <1>2. CASE Renew
    <2>1. /\ record' = [NoRecord EXCEPT !.st = "pending", !.by = last] /\ UNCHANGED <<hook, last, turn>>
          /\ turn = "busy"
      BY <1>2 DEF Renew, Written
    <2>2. \A s \in Sessions : ~Running(s)
      BY <2>1 DEF OneHook
    <2>3. /\ record'.st = "pending" /\ record'.by = last /\ record'.from = None
          /\ record'.claimant = None /\ ~record'.confirmed
      BY <2>1 DEF NoRecord
    <2> QED
      BY <1>h, <2>1, <2>2, <2>3 DEF OneHook
  <1>3. CASE Stop
    <2>1. \A s \in Sessions : ~Running(s)
      BY <1>3 DEF Stop, OneHook
    <2> QED
      BY <1>3, <1>h, <2>1, StopRecord, RenewalAssumption DEF OneHook
  <1>4. CASE UNCHANGED <<record, hook, last>> /\ (turn = "starting" => turn' = "starting")
    BY <1>4 DEF OneHook, Continued, Claimable
  <1> QED
    BY <1>1, <1>2, <1>3, <1>4 DEF PaneStep, TurnStarts, Grows, Clear, Deliver, StartsNext, GiveUp, Continue,
       Dispatch, TakenOver

LEMMA OneHookHook ==
  \A s \in Sessions : TypeOK /\ FromKnown /\ OneHook /\ (HookStep(s) \/ HookDies(s)) => OneHook'
  <1> SUFFICES ASSUME NEW s \in Sessions, TypeOK, FromKnown, OneHook, HookStep(s) \/ HookDies(s) PROVE OneHook'
    OBVIOUS
  <1>h. hook \in [Sessions -> Hooks] /\ record \in Records /\ last \in Sessions /\ Sessions \subseteq Nat
    BY SessionValues DEF TypeOK, Hooks
  <1> USE PointsAreRunning DEF Running
  <1>d. HookDies(s) => hook[s].pc \in HookPoints
    BY RenewalAssumption DEF HookDies
  <1>l. /\ s = last /\ hook[s].pc \in HookPoints /\ UNCHANGED last
        /\ \A t \in Sessions \ {s} : hook'[t] = hook[t] /\ ~Running(t)
    BY <1>h, <1>d DEF HookStep, HookLooks, HookConsumes, HookChecks, HookReads, HookMoves, HookAppendsLineage,
       HookCarries, HookDrops, HookRekeys, HookDies, EndHook, Advance, Rest, HookPoints, OneHook
  <1>t. turn = "starting"
    BY <1>l DEF OneHook
  <1>1. CASE HookLooks(s) /\ Claimable(record, s)
    <2>1. hook'[s].pc = "consume" /\ hook'[s].rec = record /\ UNCHANGED <<record, turn>>
      BY <1>1, <1>h DEF HookLooks, Hooks
    <2>2. "consume" \notin Adopting
      BY DEF Adopting
    <2> QED
      BY <1>1, <1>l, <1>t, <2>1, <2>2 DEF OneHook
  <1>2. CASE HookConsumes(s)
    <2>1. hook[s].rec = record /\ Claimable(record, s)
      BY <1>2 DEF HookConsumes, OneHook
    <2>2. record' = Consumed(record, s) /\ UNCHANGED turn
      BY <1>2, <2>1 DEF HookConsumes
    <2>3. record'.st = "consumed" /\ record'.claimant = s /\ ~record'.confirmed
      BY <1>h, <2>2 DEF Consumed, Records
    <2>4. hook'[s].pc = "check" /\ hook'[s].from = Continued(record')
      BY <1>2, <1>h DEF HookConsumes, NoHook
    <2>5. "check" \in Adopting /\ s <= last
      BY <1>l, <1>h DEF Adopting
    <2> QED
      BY <1>l, <1>t, <2>2, <2>3, <2>4, <2>5 DEF OneHook
  <1>3. CASE /\ UNCHANGED <<record, turn>>
             /\ hook[s].pc \in Adopting /\ hook'[s].pc \in Adopting /\ hook'[s].from = hook[s].from
    <2>1. "consume" \notin Adopting
      BY DEF Adopting
    <2> QED
      BY <1>3, <1>l, <1>t, <2>1 DEF OneHook, Continued
  <1>4. ASSUME hook'[s] = NoHook, UNCHANGED record PROVE OneHook'
    BY <1>4, <1>l, HookValues DEF OneHook, Adopting
  <1>5. CASE HookLooks(s) /\ ~Claimable(record, s)
    BY <1>5, <1>h, <1>4 DEF HookLooks, EndHook
  <1>6. CASE HookChecks(s)
    <2>1. CASE Advance(s, "read") /\ UNCHANGED turn
      BY <1>6, <2>1, <1>h, <1>3 DEF HookChecks, Advance, Hooks, Adopting
    <2>2. CASE EndHook(s)
      BY <1>6, <2>2, <1>h, <1>4 DEF HookChecks, EndHook
    <2> QED
      BY <1>6, <2>1, <2>2 DEF HookChecks
  <1>7. CASE HookReads(s)
    BY <1>7, <1>h, <1>3 DEF HookReads, Hooks, Adopting
  <1>8. CASE \E i \in Paths : HookMoves(s, i)
    BY <1>8, <1>h, <1>3 DEF HookMoves, Hooks, Adopting
  <1>9. CASE HookAppendsLineage(s)
    BY <1>9, <1>h, <1>3 DEF HookAppendsLineage, Advance, Hooks, Adopting
  <1>10. CASE HookCarries(s) \/ HookDrops(s)
    BY <1>10, <1>h, <1>3 DEF HookCarries, HookDrops, Advance, Hooks, Adopting
  <1>11. CASE HookRekeys(s) \/ HookDies(s)
    BY <1>11, <1>h, <1>4 DEF HookRekeys, HookDies, EndHook
  <1> QED
    BY <1>1, <1>2, <1>5, <1>6, <1>7, <1>8, <1>9, <1>10, <1>11 DEF HookStep

(***************************************************************************)
(* Routes.  A route that names a session of the line is with the session   *)
(* that holds the record, or with the one whose routes its hook is about   *)
(* to move.  A hook that is killed, or refuses the pane, before it has     *)
(* moved them leaves them behind, hence Orderly.                           *)
(***************************************************************************)
Orderly ==
  /\ ~Overlap /\ Validations = {TRUE}
  /\ HookDeaths \cap {"check", "read", "move"} = {}

Holder == IF record.st = "pending" THEN record.by ELSE record.claimant

LineInv ==
  /\ \A t \in line : t <= last
  /\ \A i \in Paths : route[i] \in Sessions => route[i] <= last
  /\ record.st = "none" => line = {0}
  /\ record.st # "none" /\ last \in line => Holder = last
  /\ \A s \in Sessions : hook[s].pc \in {"begin", "consume"} => s \notin line /\ \A i \in Paths : route[i] # s

\* Where a route of the line may be, as far as the hook of the holder has come.
Placed(i) ==
  IF hook[Holder].pc \in {"check", "read"} THEN route[i] = hook[Holder].from
  ELSE IF hook[Holder].pc = "move" THEN route[i] = Holder \/ i \in hook[Holder].snap
  ELSE route[i] = Holder

AllPlaced == record.st # "none" => \A i \in Paths : route[i] \in line => Placed(i)

RouteInv == MTypeOK /\ FromKnown /\ OneHook /\ LineInv /\ AllPlaced

LEMMA RouteTypes ==
  ASSUME RouteInv
  PROVE  /\ hook \in [Sessions -> Hooks] /\ record \in Records /\ last \in Sessions /\ Sessions \subseteq Nat
         /\ route \in [Paths -> Sessions \cup {None, Elsewhere}] /\ line \subseteq Sessions
         /\ None \notin Sessions /\ Elsewhere \notin Sessions
         /\ record.st \in {"none", "pending", "consumed"}
         /\ record.st # "none" => Holder \in Sessions /\ Holder <= last
         /\ record.st = "pending" => hook[Holder].pc \notin Adopting
  <1>1. record \in Records /\ record.st \in {"none", "pending", "consumed"}
    BY DEF RouteInv, MTypeOK, TypeOK, Records
  <1> QED
    BY <1>1, SessionValues, RenewalAssumption
    DEF RouteInv, MTypeOK, TypeOK, Hooks, Holder, FromKnown, Known, OneHook

LEMMA RoutePane == Orderly /\ RouteInv /\ PaneStep => LineInv' /\ AllPlaced'
  <1> SUFFICES ASSUME Orderly, RouteInv, PaneStep PROVE LineInv' /\ AllPlaced'
    OBVIOUS
  <1>h. /\ hook \in [Sessions -> Hooks] /\ record \in Records /\ last \in Sessions /\ Sessions \subseteq Nat
        /\ route \in [Paths -> Sessions \cup {None, Elsewhere}] /\ line \subseteq Sessions
        /\ Elsewhere \notin Sessions
        /\ record.st # "none" => Holder \in Sessions /\ Holder <= last
    BY RouteTypes
  <1>o. OneHook /\ LineInv /\ AllPlaced
    BY DEF RouteInv
  <1>1. CASE StartsNext /\ UNCHANGED <<record, route, line>>
    <2>1. /\ last + 1 \in Sessions /\ last' = last + 1
          /\ \A s \in Sessions \ {last + 1} : hook'[s] = hook[s]
      BY <1>1, <1>h, RenewalAssumption DEF StartsNext, Sessions
    <2>2. last + 1 \notin line /\ \A i \in Paths : route[i] # last + 1
      BY <1>h, <1>o, <2>1 DEF LineInv
    <2>3. record.st # "none" => Holder' = Holder /\ hook'[Holder] = hook[Holder]
      <3>1. Holder' = Holder
        BY <1>1 DEF Holder
      <3> HIDE DEF Holder
      <3>2. record.st # "none" => Holder \in Sessions \ {last + 1}
        BY <1>h
      <3> QED
        BY <2>1, <3>1, <3>2
    <2>4. AllPlaced'
      <3> SUFFICES ASSUME record'.st # "none", NEW i \in Paths, route'[i] \in line' PROVE Placed(i)'
        BY DEF AllPlaced
      <3>1. record.st # "none" /\ Placed(i)
        BY <1>1, <1>o DEF AllPlaced
      <3> QED
        BY <1>1, <2>3, <3>1 DEF Placed
    <2>5. (\A t \in line' : t <= last') /\ \A i \in Paths : route'[i] \in Sessions => route'[i] <= last'
      <3>1. \A t \in Sessions : t <= last => t <= last'
        BY <1>h, <2>1
      <3> QED
        BY <1>1, <1>h, <1>o, <3>1 DEF LineInv
    <2>6. last' \notin line'
      BY <1>1, <2>1, <2>2
    <2>7. \A s \in Sessions : hook'[s].pc \in {"begin", "consume"} =>
            s \notin line' /\ \A i \in Paths : route'[i] # s
      BY <1>1, <1>o, <2>1, <2>2 DEF LineInv
    <2> QED
      BY <1>1, <1>o, <2>4, <2>5, <2>6, <2>7 DEF LineInv
  <1>2. CASE Renew
    <2>1. /\ record'.st = "pending" /\ record'.by = last /\ UNCHANGED <<hook, last, route>>
          /\ line' = IF last \in line THEN line ELSE {last}
          /\ turn = "busy"
      BY <1>2 DEF Renew, Written, NoRecord
    <2>2. \A s \in Sessions : ~Running(s)
      BY <1>o, <2>1 DEF OneHook
    <2>3. \A s \in Sessions : hook[s].pc \notin {"begin", "consume", "check", "read", "move"}
      BY <2>2 DEF Running, HookPoints
    <2>4. Holder' = last
      BY <2>1 DEF Holder
    <2>5. \A i \in Paths : route[i] \in line' => route[i] = last
      <3>1. CASE last \notin line
        BY <2>1, <3>1
      <3>2. CASE last \in line /\ record.st = "none"
        BY <1>o, <2>1, <3>2 DEF LineInv
      <3>3. CASE last \in line /\ record.st # "none"
        BY <1>h, <1>o, <2>1, <2>3, <3>3 DEF LineInv, AllPlaced, Placed
      <3> QED
        BY <3>1, <3>2, <3>3
    <2>6. AllPlaced'
      BY <1>h, <2>1, <2>3, <2>4, <2>5 DEF AllPlaced, Placed
    <2>7. \A t \in line' : t <= last
      BY <1>h, <1>o, <2>1 DEF LineInv
    <2> QED
      BY <1>o, <2>1, <2>3, <2>4, <2>6, <2>7 DEF LineInv
  <1>3. CASE Stop
    <2>1. record'.st = record.st /\ Holder' = Holder /\ UNCHANGED <<last, hook, route, line>>
      BY <1>3, StopRecord DEF Holder, RouteInv, MTypeOK
    <2> QED
      BY <1>o, <2>1 DEF LineInv, AllPlaced, Placed
  <1>4. ASSUME NEW i \in Paths, Dispatch(i) PROVE LineInv' /\ AllPlaced'
    <2>1. /\ UNCHANGED <<record, last, hook, line>> /\ route'[i] = last /\ turn = "busy"
          /\ \A j \in Paths \ {i} : route'[j] = route[j]
      BY <1>4, <1>h DEF Dispatch
    <2>2. \A s \in Sessions : hook[s].pc \notin {"begin", "consume", "check", "read", "move"}
      BY <1>o, <2>1 DEF OneHook, Running, HookPoints
    <2>3. AllPlaced'
      BY <1>h, <1>o, <2>1, <2>2 DEF AllPlaced, Placed, LineInv, Holder
    <2>4. \A j \in Paths : route'[j] \in Sessions => route'[j] <= last
      BY <1>h, <1>o, <2>1 DEF LineInv
    <2> QED
      BY <1>o, <2>1, <2>2, <2>3, <2>4 DEF LineInv, Holder
  <1>5. ASSUME NEW i \in Paths, TakenOver(i) PROVE LineInv' /\ AllPlaced'
    <2>1. /\ UNCHANGED <<record, last, hook, line>> /\ route'[i] = Elsewhere
          /\ \A j \in Paths \ {i} : route'[j] = route[j]
      BY <1>5, <1>h DEF TakenOver
    <2>2. \A j \in Paths : route'[j] \in Sessions => j # i /\ route'[j] = route[j]
      BY <1>h, <2>1
    <2>3. AllPlaced'
      BY <1>h, <1>o, <2>1, <2>2 DEF AllPlaced, Placed, Holder
    <2>4. \A s \in Sessions : hook'[s].pc \in {"begin", "consume"} =>
            s \notin line' /\ \A j \in Paths : route'[j] # s
      BY <1>o, <2>1, <2>2 DEF LineInv
    <2> QED
      BY <1>o, <2>1, <2>2, <2>3, <2>4 DEF LineInv, Holder
  <1>6. CASE UNCHANGED <<record, last, hook, route, line>>
    BY <1>o, <1>6 DEF LineInv, AllPlaced, Placed, Holder
  <1> QED
    BY <1>1, <1>2, <1>3, <1>4, <1>5, <1>6 DEF PaneStep, TurnStarts, Grows, Clear, Deliver, StartsNext, GiveUp,
       Continue

LEMMA RouteHook ==
  \A s \in Sessions : Orderly /\ RouteInv /\ (HookStep(s) \/ HookDies(s)) => LineInv' /\ AllPlaced'
  <1> SUFFICES ASSUME NEW s \in Sessions, Orderly, RouteInv, HookStep(s) \/ HookDies(s)
               PROVE  LineInv' /\ AllPlaced'
    OBVIOUS
  <1>h. /\ hook \in [Sessions -> Hooks] /\ record \in Records /\ last \in Sessions /\ Sessions \subseteq Nat
        /\ route \in [Paths -> Sessions \cup {None, Elsewhere}] /\ line \subseteq Sessions
        /\ None \notin Sessions
        /\ record.st # "none" => Holder \in Sessions
        /\ record.st = "pending" => hook[Holder].pc \notin Adopting
    BY RouteTypes
  <1>o. OneHook /\ LineInv /\ AllPlaced
    BY DEF RouteInv
  <1>d. HookDies(s) => hook[s].pc \in HookPoints \ {"check", "read", "move"}
    BY RenewalAssumption DEF HookDies, Orderly
  <1>l. /\ s = last /\ hook[s].pc \in HookPoints /\ UNCHANGED last
        /\ \A t \in Sessions \ {s} : hook'[t] = hook[t] /\ hook[t].pc \notin HookPoints
    <2>1. hook[s].pc \in HookPoints
      BY <1>d DEF HookStep, HookLooks, HookConsumes, HookChecks, HookReads, HookMoves, HookAppendsLineage,
         HookCarries, HookDrops, HookRekeys, HookPoints
    <2>2. UNCHANGED last /\ \A t \in Sessions \ {s} : hook'[t] = hook[t]
      BY <1>h DEF HookStep, HookLooks, HookConsumes, HookChecks, HookReads, HookMoves, HookAppendsLineage,
         HookCarries, HookDrops, HookRekeys, HookDies, EndHook, Advance, Rest
    <2> QED
      BY <1>o, <2>1, <2>2 DEF OneHook, Running
  \* A step that moves no route, of a hook past its moves or short of its claim.
  <1>q. ASSUME UNCHANGED <<record, route, line>>, hook[s].pc \notin {"check", "read", "move"},
               hook'[s].pc \notin {"begin", "check", "read", "move"}, hook'[s].pc = "consume" => hook[s].pc = "begin"
        PROVE  LineInv' /\ AllPlaced'
    <2>1. Holder' = Holder
      BY <1>q DEF Holder
    <2>2. AllPlaced'
      BY <1>h, <1>l, <1>o, <1>q, <2>1 DEF AllPlaced, Placed
    <2> QED
      BY <1>l, <1>o, <1>q, <2>1, <2>2 DEF LineInv
  <1>1. CASE HookLooks(s)
    BY <1>1, <1>h, <1>q, HookValues DEF HookLooks, EndHook, Hooks
  <1>2. CASE HookConsumes(s)
    <2>1. hook[s].pc = "consume" /\ hook[s].rec = record /\ Claimable(record, s)
      BY <1>2, <1>o DEF HookConsumes, OneHook
    <2>2. record' = Consumed(record, s) /\ line' = line \cup {s} /\ UNCHANGED route
      BY <1>2, <2>1 DEF HookConsumes
    <2>3. record'.st = "consumed" /\ Holder' = s
      BY <1>h, <2>2 DEF Consumed, Records, Holder
    <2>4. hook'[s].pc = "check" /\ hook'[s].from = Continued(record')
      BY <1>2, <1>h DEF HookConsumes, NoHook
    <2>5. record.st # "none" /\ Continued(record') = Holder
      <3>1. record'.by = record.by
            /\ record'.from = IF record.st = "consumed" THEN record.claimant ELSE record.from
        BY <1>h, <2>2 DEF Consumed, Records
      <3> QED
        BY <1>h, <1>o, <2>1, <3>1 DEF Continued, Holder, Claimable, OneHook
    <2>6. Holder # s
      BY <2>1 DEF Claimable, Holder
    <2>7. hook[Holder].pc \notin {"check", "read", "move"}
      BY <1>h, <1>l, <2>5, <2>6 DEF HookPoints
    <2>8. \A i \in Paths : route[i] \in line => route[i] = Holder
      BY <1>o, <2>5, <2>7 DEF AllPlaced, Placed
    <2>9. \A i \in Paths : route[i] # s
      BY <1>o, <2>1 DEF LineInv
    <2>10. AllPlaced'
      BY <2>2, <2>3, <2>4, <2>5, <2>8, <2>9 DEF AllPlaced, Placed
    <2>11. \A t \in Sessions : hook'[t].pc \notin {"begin", "consume"}
      BY <1>l, <2>4 DEF HookPoints
    <2>12. \A t \in line' : t <= last'
      BY <1>h, <1>l, <1>o, <2>2 DEF LineInv
    <2> QED
      BY <1>l, <1>o, <2>2, <2>3, <2>10, <2>11, <2>12 DEF LineInv
  <1>a. hook[s].pc \in Adopting => record.st = "consumed" /\ Holder = s /\ hook[s].from = Continued(record)
    BY <1>o DEF OneHook, Holder
  <1>3. CASE HookChecks(s)
    <2>1. hook[s].pc = "check" /\ Advance(s, "read") /\ UNCHANGED <<record, route, line>>
      BY <1>3 DEF HookChecks, Orderly
    <2>2. hook'[s].pc = "read" /\ hook'[s].from = hook[s].from
      BY <1>h, <2>1 DEF Advance, Hooks
    <2>3. Holder = s /\ Holder' = s
      BY <1>a, <2>1 DEF Adopting, Holder
    <2>4. AllPlaced'
      BY <1>o, <2>1, <2>2, <2>3 DEF AllPlaced, Placed
    <2> QED
      BY <1>l, <1>o, <2>1, <2>2, <2>3, <2>4 DEF LineInv
  <1>4. CASE HookReads(s)
    <2> DEFINE found == {i \in Paths : route[i] = hook[s].from}
    <2>1. /\ hook[s].pc = "read" /\ UNCHANGED <<record, route, line>>
          /\ hook'[s].snap = found /\ hook'[s].pc = IF found = {} THEN "lineage" ELSE "move"
      BY <1>4, <1>h DEF HookReads, Hooks
    <2>2. Holder = s /\ Holder' = s /\ record.st = "consumed"
      BY <1>a, <2>1 DEF Adopting, Holder
    <2>3. \A i \in Paths : route[i] \in line => i \in found
      BY <1>o, <2>1, <2>2 DEF AllPlaced, Placed
    <2> HIDE DEF found
    <2>4. AllPlaced'
      BY <2>1, <2>2, <2>3 DEF AllPlaced, Placed
    <2> QED
      BY <1>l, <1>o, <2>1, <2>2, <2>4 DEF LineInv
  <1>5. ASSUME NEW i \in Paths, HookMoves(s, i) PROVE LineInv' /\ AllPlaced'
    <2>1. /\ hook[s].pc = "move" /\ i \in hook[s].snap /\ UNCHANGED <<record, line>>
          /\ route'[i] = s /\ \A j \in Paths \ {i} : route'[j] = route[j]
          /\ hook'[s].snap = hook[s].snap \ {i}
          /\ hook'[s].pc = IF hook[s].snap = {i} THEN "lineage" ELSE "move"
      BY <1>5, <1>h DEF HookMoves, Hooks
    <2>2. Holder = s /\ Holder' = s /\ record.st = "consumed"
      BY <1>a, <2>1 DEF Adopting, Holder
    <2>3. AllPlaced'
      BY <1>o, <2>1, <2>2 DEF AllPlaced, Placed
    <2>4. \A j \in Paths : route'[j] \in Sessions => route'[j] <= last'
      BY <1>h, <1>l, <1>o, <2>1 DEF LineInv
    <2>5. \A t \in Sessions : hook'[t].pc \notin {"begin", "consume"}
      BY <1>l, <2>1 DEF HookPoints
    <2> QED
      BY <1>l, <1>o, <2>1, <2>2, <2>3, <2>4, <2>5 DEF LineInv
  <1>6. CASE HookAppendsLineage(s)
    BY <1>6, <1>h, <1>q DEF HookAppendsLineage, Advance, Hooks
  <1>7. CASE HookCarries(s) \/ HookDrops(s)
    BY <1>7, <1>h, <1>q DEF HookCarries, HookDrops, Advance, Hooks
  <1>8. CASE HookRekeys(s)
    BY <1>8, <1>h, <1>q, HookValues DEF HookRekeys, EndHook
  <1>9. CASE HookDies(s)
    BY <1>9, <1>d, <1>h, <1>q, HookValues DEF HookDies
  <1> QED
    BY <1>1, <1>2, <1>3, <1>4, <1>5, <1>6, <1>7, <1>8, <1>9 DEF HookStep

LEMMA RouteInvInit == MInit => RouteInv
  <1> SUFFICES ASSUME MInit PROVE RouteInv
    OBVIOUS
  <1>1. LineInv /\ AllPlaced
    BY RenewalAssumption, SessionValues DEF MInit, Init, LineInv, AllPlaced, NoRecord, NoHook
  <1> QED
    BY <1>1, TypeInit, KnownInit, OneHookInit DEF MInit, RouteInv, MTypeOK

LEMMA RouteInvStep == Orderly /\ RouteInv /\ [Next]_vars => RouteInv'
  <1> SUFFICES ASSUME Orderly, RouteInv, [Next]_vars PROVE RouteInv'
    OBVIOUS
  <1>t. TypeInv /\ TypeInv'
    BY TypeStep DEF RouteInv, TypeInv
  <1> USE DEF RouteInv, TypeInv, MTypeOK
  <1>1. CASE PaneStep
    BY <1>1, <1>t, OneHookPane, RoutePane DEF Orderly
  <1>2. ASSUME NEW s \in Sessions, HookStep(s) \/ HookDies(s) PROVE RouteInv'
    BY <1>2, <1>t, OneHookHook, RouteHook
  <1>3. CASE UNCHANGED pvars
    BY <1>3, <1>t DEF pvars, OneHook, LineInv, AllPlaced, Placed, Holder, Running, Claimable, Continued
  <1> QED
    BY <1>1, <1>2, <1>3, MessagesApart DEF Next, vars

\* Every route that names a session continued follows to the session that stays, for a pane
\* whose hooks run one at a time and get to move the routes (adopt_renewed_session).
THEOREM RoutesFollowAlways == ASSUME Orderly PROVE Spec => []RoutesFollow
  <1>1. RouteInv => RoutesFollow
    <2> SUFFICES ASSUME RouteInv, record.confirmed, NEW i \in Paths, route[i] \in line
                 PROVE  route[i] = record.claimant
      BY DEF RoutesFollow
    <2>1. record.st = "consumed" /\ Holder = record.claimant
      BY RouteTypes DEF RouteInv, OneHook, Holder
    <2>2. Holder \in Sessions /\ hook[Holder].pc \notin {"check", "read", "move"}
      BY <2>1, RouteTypes DEF RouteInv, OneHook, Adopting
    <2> QED
      BY <2>1, <2>2 DEF RouteInv, AllPlaced, Placed
  <1> QED
    BY <1>1, RouteInvInit, RouteInvStep, PTL DEF Spec

(***************************************************************************)
(* Takeovers.  What a hook has read and not yet written is with a session  *)
(* of the pane, as long as no takeover comes between the read and the      *)
(* write, so no write brings a route back from another pane.               *)
(***************************************************************************)
SnapInv ==
  /\ \A s \in Sessions : Running(s) => s <= last
  /\ \A s \in Sessions : hook[s].pc # "move" => hook[s].snap = {}
  /\ \A s \in Sessions : \A i \in hook[s].snap : route[i] # Elsewhere

LEMMA SnapPane == Apart /\ TypeOK /\ SnapInv /\ PaneStep => SnapInv'
  <1> SUFFICES ASSUME Apart, TypeOK, SnapInv, PaneStep PROVE SnapInv'
    OBVIOUS
  <1>h. /\ hook \in [Sessions -> Hooks] /\ last \in Sessions /\ Sessions \subseteq Nat
        /\ route \in [Paths -> Sessions \cup {None, Elsewhere}]
        /\ Elsewhere \notin Sessions
    BY SessionValues, RenewalAssumption DEF TypeOK, Hooks
  <1>1. CASE StartsNext /\ UNCHANGED route
    <2>1. /\ last + 1 \in Sessions /\ last' = last + 1
          /\ \A s \in Sessions \ {last + 1} : hook'[s] = hook[s]
          /\ hook'[last + 1].snap = hook[last + 1].snap
      BY <1>1, <1>h, RenewalAssumption DEF StartsNext, Sessions, Hooks
    <2>2. ~Running(last + 1)
      BY <1>h, <2>1 DEF SnapInv
    <2>3. hook'[last + 1].snap = {}
      BY <2>1, <2>2 DEF SnapInv, Running, HookPoints
    <2>4. \A s \in Sessions : s <= last => s <= last'
      BY <1>h, <2>1
    <2>5. \A s \in Sessions : hook'[s].pc \in HookPoints => s <= last'
      BY <1>h, <2>1, <2>4 DEF SnapInv, Running
    <2> QED
      BY <1>1, <1>h, <2>1, <2>3, <2>5 DEF SnapInv, Running
  <1>2. ASSUME NEW i \in Paths, Dispatch(i) PROVE SnapInv'
    BY <1>2, <1>h DEF Dispatch, SnapInv, Running
  <1>3. ASSUME NEW i \in Paths, TakenOver(i) PROVE SnapInv'
    <2>1. \A s \in Sessions : i \notin hook[s].snap
      BY <1>3 DEF TakenOver, SnapInv, Running, HookPoints
    <2>2. UNCHANGED <<hook, last>> /\ \A j \in Paths \ {i} : route'[j] = route[j]
      BY <1>3, <1>h DEF TakenOver
    <2>3. \A s \in Sessions : hook[s].snap \subseteq Paths
      BY <1>h DEF Hooks
    <2> QED
      BY <2>1, <2>2, <2>3 DEF SnapInv, Running
  <1>4. CASE UNCHANGED <<last, hook, route>>
    BY <1>4 DEF SnapInv, Running
  <1> QED
    BY <1>1, <1>2, <1>3, <1>4 DEF PaneStep, TurnStarts, Grows, Stop, Renew, Clear, Deliver, StartsNext, GiveUp,
       Continue

LEMMA SnapHook ==
  \A s \in Sessions : TypeOK /\ FromKnown /\ SnapInv /\ (HookStep(s) \/ HookDies(s)) => SnapInv'
  <1> SUFFICES ASSUME NEW s \in Sessions, TypeOK, FromKnown, SnapInv, HookStep(s) \/ HookDies(s) PROVE SnapInv'
    OBVIOUS
  <1>h. /\ hook \in [Sessions -> Hooks] /\ last \in Sessions /\ Elsewhere \notin Sessions
        /\ route \in [Paths -> Sessions \cup {None, Elsewhere}]
    BY RenewalAssumption DEF TypeOK, Hooks
  <1>1. UNCHANGED last /\ \A t \in Sessions \ {s} : hook'[t] = hook[t]
    BY <1>h DEF HookStep, HookLooks, HookConsumes, HookChecks, HookReads, HookMoves, HookAppendsLineage,
       HookCarries, HookDrops, HookRekeys, HookDies, EndHook, Advance, Rest
  <1>2. hook[s].pc \in HookPoints /\ s <= last
    <2>1. hook[s].pc \in HookPoints
      BY RenewalAssumption DEF HookStep, HookLooks, HookConsumes, HookChecks, HookReads, HookMoves,
         HookAppendsLineage, HookCarries, HookDrops, HookRekeys, HookDies, HookPoints
    <2> QED
      BY <2>1 DEF SnapInv, Running
  <1>q. ASSUME UNCHANGED route, hook'[s].snap = {} PROVE SnapInv'
    BY <1>1, <1>2, <1>q DEF SnapInv, Running
  <1>3. CASE HookLooks(s) \/ HookConsumes(s) \/ HookRekeys(s) \/ HookDies(s)
    <2>1. UNCHANGED route
      BY <1>3 DEF HookLooks, HookConsumes, HookRekeys, HookDies
    <2>2. hook'[s].snap = {}
      <3>1. CASE HookLooks(s)
        BY <1>h, <3>1, HookValues DEF HookLooks, EndHook, Hooks, SnapInv
      <3>2. CASE HookConsumes(s)
        BY <1>h, <3>2 DEF HookConsumes, NoHook
      <3>3. CASE HookRekeys(s) \/ HookDies(s)
        BY <1>h, <3>3, HookValues DEF HookRekeys, HookDies, EndHook
      <3> QED
        BY <1>3, <3>1, <3>2, <3>3
    <2> QED
      BY <1>q, <2>1, <2>2
  <1>4. CASE HookChecks(s)
    BY <1>4, <1>h, <1>q, HookValues DEF HookChecks, EndHook, Advance, Hooks, SnapInv
  <1>5. CASE HookAppendsLineage(s) \/ HookCarries(s) \/ HookDrops(s)
    BY <1>5, <1>h, <1>q DEF HookAppendsLineage, HookCarries, HookDrops, Advance, Hooks, SnapInv
  <1>6. CASE HookReads(s)
    <2> DEFINE found == {i \in Paths : route[i] = hook[s].from}
    <2>1. /\ UNCHANGED route /\ hook'[s].snap = found
          /\ hook'[s].pc = IF found = {} THEN "lineage" ELSE "move"
      BY <1>6, <1>h DEF HookReads, Hooks
    <2>2. \A i \in found : route[i] # Elsewhere
      BY <1>6, <1>h DEF HookReads, FromKnown, Adopting
    <2> HIDE DEF found
    <2> QED
      BY <1>1, <1>2, <2>1, <2>2 DEF SnapInv, Running
  <1>7. ASSUME NEW i \in Paths, HookMoves(s, i) PROVE SnapInv'
    <2>1. /\ route'[i] = s /\ \A j \in Paths \ {i} : route'[j] = route[j]
          /\ hook'[s].snap = hook[s].snap \ {i}
          /\ hook'[s].pc = IF hook[s].snap = {i} THEN "lineage" ELSE "move"
      BY <1>7, <1>h DEF HookMoves, Hooks
    <2>2. \A t \in Sessions : hook[t].snap \subseteq Paths
      BY <1>h DEF Hooks
    <2>3. \A t \in Sessions : \A j \in hook'[t].snap : route'[j] # Elsewhere
      BY <1>1, <1>h, <2>1, <2>2 DEF SnapInv
    <2>4. hook'[s].pc # "move" => hook'[s].snap = {}
      BY <2>1
    <2> QED
      BY <1>1, <1>2, <2>3, <2>4 DEF SnapInv, Running
  <1> QED
    BY <1>3, <1>4, <1>5, <1>6, <1>7 DEF HookStep

LEMMA SnapStep == Apart /\ TypeInv /\ SnapInv /\ [Next]_vars => SnapInv'
  <1> SUFFICES ASSUME Apart, TypeInv, SnapInv, [Next]_vars PROVE SnapInv'
    OBVIOUS
  <1> USE DEF TypeInv, MTypeOK
  <1>1. CASE UNCHANGED pvars
    BY <1>1 DEF pvars, SnapInv, Running
  <1> QED
    BY <1>1, SnapPane, SnapHook, MessagesApart DEF Next, vars

LEMMA ElsewhereStep ==
  Apart /\ TypeInv /\ SnapInv /\ [Next]_vars => [\A i \in Paths : route[i] = Elsewhere => route'[i] = Elsewhere]_route
  <1> SUFFICES ASSUME Apart, TypeInv, SnapInv, [Next]_vars, NEW j \in Paths, route[j] = Elsewhere
               PROVE  route'[j] = Elsewhere
    OBVIOUS
  <1>h. Elsewhere \notin Sessions /\ Elsewhere # None /\ route \in [Paths -> Sessions \cup {None, Elsewhere}]
    BY RenewalAssumption DEF TypeInv, MTypeOK, TypeOK
  <1>1. CASE PaneStep
    <2>1. UNCHANGED route \/ \E i \in Paths : Dispatch(i) \/ TakenOver(i)
      BY <1>1 DEF PaneStep, TurnStarts, Grows, Stop, Renew, Clear, Deliver, StartsNext, GiveUp, Continue
    <2> QED
      BY <1>h, <2>1 DEF Dispatch, TakenOver
  <1>2. ASSUME NEW s \in Sessions, HookStep(s) \/ HookDies(s) PROVE route'[j] = Elsewhere
    <2>1. UNCHANGED route \/ \E i \in Paths : HookMoves(s, i)
      BY <1>2 DEF HookStep, HookLooks, HookConsumes, HookChecks, HookReads, HookAppendsLineage,
         HookCarries, HookDrops, HookRekeys, HookDies
    <2>2. ASSUME NEW i \in Paths, HookMoves(s, i) PROVE route'[j] = Elsewhere
      <3>1. i # j
        BY <2>2 DEF HookMoves, SnapInv
      <3> QED
        BY <1>h, <2>2, <3>1 DEF HookMoves
    <2> QED
      BY <2>1, <2>2
  <1>3. CASE UNCHANGED pvars
    BY <1>3 DEF pvars
  <1> QED
    BY <1>1, <1>2, <1>3, MessagesApart DEF Next, vars, TypeInv

\* A route that a takeover gave to another pane is never brought back by a renewal, if no
\* takeover comes between the read and the write of the hook (adopt_renewed_session).
THEOREM StaysElsewhereAlways == ASSUME Apart PROVE Spec => StaysElsewhere
  <1>1. MInit => SnapInv
    BY HookValues DEF MInit, Init, SnapInv, Running, NoHook, HookPoints
  <1>2. Spec => []SnapInv
    BY <1>1, SnapStep, TypeInvHolds, PTL DEF Spec
  <1> QED
    BY <1>2, ElsewhereStep, TypeInvHolds, PTL DEF Spec, StaysElsewhere

(***************************************************************************)
(* The deliverer's clear.  While the deliverer waits, its record is there  *)
(* for the next session: a session that claims it takes no turn before the *)
(* clear, so it cannot confirm the claim.                                  *)
(***************************************************************************)
Waiting ==
  dl = "wait" =>
    /\ record.st # "none"
    /\ record.st = "consumed" => ~record.confirmed /\ turn # "busy"

ClearInv == OneHook /\ Waiting

LEMMA WaitingPane == Swift /\ TypeOK /\ ClearInv /\ PaneStep => Waiting'
  <1> SUFFICES ASSUME Swift, TypeOK, ClearInv, PaneStep PROVE Waiting'
    OBVIOUS
  <1>1. CASE Stop
    BY <1>1, StopRecord DEF ClearInv, Waiting
  <1>2. CASE Renew
    BY <1>2 DEF Renew, Written, NoRecord, Waiting
  <1>3. CASE TurnStarts
    BY <1>3 DEF TurnStarts, Ahead, ClearInv, Waiting
  <1>4. CASE Deliver \/ GiveUp \/ Continue
    BY <1>4 DEF Deliver, GiveUp, Continue, Waiting
  <1>5. CASE Clear
    BY <1>5 DEF Clear, StartsNext, ClearInv, Waiting
  <1>6. CASE Grows \/ \E i \in Paths : Dispatch(i) \/ TakenOver(i)
    BY <1>6 DEF Grows, Dispatch, TakenOver, ClearInv, Waiting
  <1> QED
    BY <1>1, <1>2, <1>3, <1>4, <1>5, <1>6 DEF PaneStep

LEMMA WaitingHook ==
  \A s \in Sessions : TypeOK /\ ClearInv /\ (HookStep(s) \/ HookDies(s)) => Waiting'
  <1> SUFFICES ASSUME NEW s \in Sessions, TypeOK, ClearInv, HookStep(s) \/ HookDies(s) PROVE Waiting'
    OBVIOUS
  <1>1. CASE HookConsumes(s)
    <2>1. turn = "starting" /\ UNCHANGED <<turn, dl>> /\ hook[s].rec = record
      BY <1>1, PointsAreRunning DEF HookConsumes, Rest, ClearInv, OneHook, Running
    <2>2. record' = Consumed(record, s) /\ record \in Records
      BY <1>1, <2>1 DEF HookConsumes, TypeOK
    <2>3. record'.st = "consumed" /\ ~record'.confirmed
      BY <2>2 DEF Consumed, Records
    <2> QED
      BY <2>1, <2>3 DEF Waiting
  <1>2. CASE UNCHANGED <<record, dl>> /\ (turn' = turn \/ turn' = "idle")
    BY <1>2 DEF ClearInv, Waiting
  <1> QED
    BY <1>1, <1>2 DEF HookStep, HookLooks, HookChecks, HookReads, HookMoves, HookAppendsLineage,
       HookCarries, HookDrops, HookRekeys, HookDies, EndHook, Rest

LEMMA ClearStep == Swift /\ ~Overlap /\ TypeInv /\ ClearInv /\ [Next]_vars => ClearInv'
  <1> SUFFICES ASSUME Swift, ~Overlap, TypeInv, ClearInv, [Next]_vars PROVE ClearInv'
    OBVIOUS
  <1> USE DEF TypeInv, MTypeOK
  <1>1. CASE PaneStep
    BY <1>1, OneHookPane, WaitingPane DEF ClearInv
  <1>2. ASSUME NEW s \in Sessions, HookStep(s) \/ HookDies(s) PROVE ClearInv'
    BY <1>2, OneHookHook, WaitingHook DEF ClearInv
  <1>3. CASE UNCHANGED pvars
    BY <1>3 DEF pvars, ClearInv, Waiting, OneHook, Running, Claimable, Continued
  <1> QED
    BY <1>1, <1>2, <1>3, MessagesApart DEF Next, vars

LEMMA ClaimedStep ==
  TypeInv /\ ClearInv /\ [Next]_vars =>
    [dl = "wait" /\ dl' = "settle" => Claimable(record, last')]_<<dl, last>>
  <1> SUFFICES ASSUME TypeInv, ClearInv, [Next]_vars, dl = "wait", dl' = "settle"
               PROVE  Claimable(record, last')
    OBVIOUS
  <1>h. last \in Nat /\ record \in Records /\ Known(record) /\ Sessions \subseteq Nat
    BY SessionValues DEF TypeInv, MTypeOK, TypeOK, FromKnown
  <1>1. Deliver
    <2>1. ~UNCHANGED dl
      OBVIOUS
    <2>2. ASSUME NEW s \in Sessions, HookStep(s) \/ HookDies(s) PROVE UNCHANGED dl
      BY <2>2 DEF HookStep, HookLooks, HookConsumes, HookChecks, HookReads, HookMoves, HookAppendsLineage,
         HookCarries, HookDrops, HookRekeys, HookDies, Rest
    <2>3. PaneStep
      BY <2>1, <2>2, MessagesApart DEF Next, vars, pvars, TypeInv
    <2> QED
      BY <2>1, <2>3 DEF PaneStep, TurnStarts, Grows, Stop, Renew, Deliverer, Clear, GiveUp, Continue,
         Dispatch, TakenOver
  <1>2. last' = last + 1
    BY <1>1 DEF Deliver, StartsNext
  <1>3. record.st = "pending" \/ (record.st = "consumed" /\ ~record.confirmed)
    BY <1>h DEF ClearInv, Waiting, Records
  <1>4. CASE record.st = "pending"
    <2>1. record.by \in Nat /\ record.by <= last
      BY <1>h, <1>4 DEF Known, ClearInv, OneHook
    <2>2. record.by # last + 1
      BY <1>h, <2>1
    <2> QED
      BY <1>2, <1>4, <2>2 DEF Claimable
  <1>5. CASE record.st = "consumed" /\ ~record.confirmed
    <2>1. record.claimant \in Nat /\ record.claimant <= last
      BY <1>h, <1>5 DEF Known, ClearInv, OneHook
    <2>2. record.claimant # last + 1
      BY <1>h, <2>1
    <2> QED
      BY <1>2, <1>5, <2>2 DEF Claimable
  <1> QED
    BY <1>3, <1>4, <1>5

\* The deliverer only clears a pane whose record the session it starts may claim
\* (deliver-renewal.py), if it is ahead of the pane's next turn and hooks do not overlap.
THEOREM ClearIsClaimedAlways == ASSUME Swift, ~Overlap PROVE Spec => ClearIsClaimed
  <1>1. MInit => ClearInv
    <2>1. MInit => Init /\ Waiting
      BY DEF MInit, Init, Waiting
    <2> QED
      BY <2>1, OneHookInit DEF ClearInv
  <1>2. Spec => []ClearInv
    BY <1>1, ClearStep, TypeInvHolds, PTL DEF Spec
  <1> QED
    BY <1>2, ClaimedStep, TypeInvHolds, PTL DEF Spec, ClearIsClaimed

(***************************************************************************)
(* Questions.  The session that stays descends from every session of the   *)
(* line, and what was submitted to one of them is on its ledger, or on the *)
(* one its hook is about to carry.  A hook that is killed before it has    *)
(* written the lineage and carried the ledger leaves both behind, and a    *)
(* send that is overtaken by the carrying writes to a ledger nobody reads  *)
(* again, hence CarriesAll.                                                *)
(***************************************************************************)
CarriesAll == Orderly /\ SendsPromptly /\ HookDeaths \cap {"lineage", "carry"} = {}

Unlinked == {"check", "read", "move", "lineage"}
Arriving == Unlinked \cup {"carry"}

LEMMA LineageHasSelf == \A s \in Sessions : s \in Lineage(s)
  BY DEF Lineage

\* A session continues whatever its predecessor continues.
LEMMA LineageGoesBack ==
  ASSUME NEW s \in Sessions, NEW t \in Sessions, pred[s] = t
  PROVE  Lineage(t) \subseteq Lineage(s)
  <1> SUFFICES ASSUME NEW u \in Sessions, u \in Lineage(t), NEW S \in SUBSET Sessions, s \in S, KeepsPredecessors(S)
               PROVE  u \in S
    BY DEF Lineage
  <1>1. t \in S
    BY RenewalAssumption DEF KeepsPredecessors
  <1> QED
    BY <1>1 DEF Lineage

\* A line added to the lineage file takes nobody out of a lineage.
LEMMA LineageGrows ==
  ASSUME \A t \in Sessions : pred[t] # None => pred'[t] = pred[t]
  PROVE  \A s \in Sessions : Lineage(s) \subseteq Lineage(s)'
  <1> SUFFICES ASSUME NEW s \in Sessions, NEW u \in Sessions, u \in Lineage(s),
                      NEW S \in SUBSET Sessions, s \in S, KeepsPredecessors(S)'
               PROVE  u \in S
    BY DEF Lineage
  <1>1. KeepsPredecessors(S)
    BY DEF KeepsPredecessors
  <1> QED
    BY <1>1 DEF Lineage

\* The record's holder and the session its hook continues are of the line; a session has no
\* predecessor before its hook has written one.
Heir ==
  /\ record.st # "none" => Holder \in line
  /\ \A s \in Sessions : hook[s].pc \in Adopting => hook[s].from \in line /\ hook[s].from # s
  /\ \A s \in Sessions : s > last \/ hook[s].pc \in {"begin", "consume"} \cup Unlinked => pred[s] = None

\* The line is the lineage of the holder, or of the session its hook has yet to name.
Descends ==
  \A s, t \in Sessions :
    /\ hook[s].pc \in Unlinked /\ hook[s].from = t => line \ {s} \subseteq Lineage(t)
    /\ record.st # "none" /\ Holder = s /\ hook[s].pc \notin Unlinked => line \subseteq Lineage(s)

HeirInv == RouteInv /\ Heir /\ Descends

\* What a step of a hook comes to, when hooks run one at a time and get as far as the ledger.
Passes(s) ==
  /\ UNCHANGED <<record, line, pred, ledger>>
  /\ \/ hook[s].pc \notin Arriving /\ hook'[s].pc \in {"consume", "none"}
        /\ (hook'[s].pc = "consume" => hook[s].pc = "begin")
     \/ hook[s].pc \in Unlinked /\ hook'[s].pc \in Unlinked /\ hook'[s].from = hook[s].from
Claims(s) ==
  /\ UNCHANGED <<pred, ledger>> /\ hook[s].pc = "consume" /\ hook'[s].pc = "check"
  /\ record.st # "none" /\ record'.st = "consumed"
  /\ Holder # s /\ Holder' = s /\ hook'[s].from = Holder
  /\ s \notin line /\ line' = line \cup {s}
Links(s) ==
  /\ UNCHANGED <<record, line, ledger>> /\ hook[s].pc = "lineage" /\ hook'[s].from = hook[s].from
  /\ pred' = [pred EXCEPT ![s] = hook[s].from]
  /\ hook'[s].pc = IF ledger[hook[s].from] = {} THEN "rekey" ELSE "carry"
Carries(s) ==
  /\ UNCHANGED <<record, line, pred>> /\ hook[s].pc = "carry" /\ hook'[s].pc = "drop"
  /\ hook'[s].from = hook[s].from
  /\ ledger' = [ledger EXCEPT ![s] = @ \cup ledger[hook[s].from]]
Drops(s) ==
  /\ UNCHANGED <<record, line, pred>> /\ hook[s].pc = "drop" /\ hook'[s].pc = "rekey"
  /\ hook'[s].from = hook[s].from
  /\ ledger' = [ledger EXCEPT ![hook[s].from] = {}]

LEMMA HookCases ==
  ASSUME NEW s \in Sessions, CarriesAll, RouteInv, HookStep(s) \/ HookDies(s)
  PROVE  /\ s = last /\ UNCHANGED last /\ hook[s].pc \in HookPoints
         /\ \A t \in Sessions \ {s} : hook'[t] = hook[t] /\ hook[t].pc \notin HookPoints
         /\ Passes(s) \/ Claims(s) \/ Links(s) \/ Carries(s) \/ Drops(s)
  <1>h. /\ hook \in [Sessions -> Hooks] /\ record \in Records /\ last \in Sessions
        /\ record.st # "none" => Holder \in Sessions
    BY RouteTypes
  <1>o. OneHook /\ LineInv
    BY DEF RouteInv
  <1>d. HookDies(s) => hook[s].pc \in {"begin", "consume", "drop", "rekey"}
    BY RenewalAssumption DEF HookDies, CarriesAll, Orderly, HookPoints
  <1>l. /\ s = last /\ hook[s].pc \in HookPoints /\ UNCHANGED last
        /\ \A t \in Sessions \ {s} : hook'[t] = hook[t] /\ hook[t].pc \notin HookPoints
    <2>1. hook[s].pc \in HookPoints
      BY <1>d DEF HookStep, HookLooks, HookConsumes, HookChecks, HookReads, HookMoves, HookAppendsLineage,
         HookCarries, HookDrops, HookRekeys, HookPoints
    <2>2. UNCHANGED last /\ \A t \in Sessions \ {s} : hook'[t] = hook[t]
      BY <1>h DEF HookStep, HookLooks, HookConsumes, HookChecks, HookReads, HookMoves, HookAppendsLineage,
         HookCarries, HookDrops, HookRekeys, HookDies, EndHook, Advance, Rest
    <2> QED
      BY <1>o, <2>1, <2>2 DEF OneHook, Running
  <1> USE DEF Unlinked, Arriving
  <1>1. CASE HookLooks(s)
    BY <1>1, <1>h, <1>l, HookValues DEF HookLooks, EndHook, Hooks, Passes
  <1>2. CASE HookConsumes(s)
    <2>1. hook[s].pc = "consume" /\ hook[s].rec = record /\ Claimable(record, s)
      BY <1>2, <1>o DEF HookConsumes, OneHook
    <2>2. record' = Consumed(record, s) /\ line' = line \cup {s} /\ UNCHANGED <<pred, ledger>>
      BY <1>2, <2>1 DEF HookConsumes
    <2>3. record'.st = "consumed" /\ Holder' = s
      BY <1>h, <2>2 DEF Consumed, Records, Holder
    <2>4. hook'[s].pc = "check" /\ hook'[s].from = Continued(record')
      BY <1>2, <1>h DEF HookConsumes, NoHook
    <2>5. record.st # "none" /\ Continued(record') = Holder
      <3>1. record'.by = record.by
            /\ record'.from = IF record.st = "consumed" THEN record.claimant ELSE record.from
        BY <1>h, <2>2 DEF Consumed, Records
      <3> QED
        BY <1>h, <1>o, <2>1, <3>1, RenewalAssumption DEF Continued, Holder, Claimable, OneHook
    <2>6. Holder # s /\ s \notin line
      BY <1>o, <2>1 DEF Claimable, Holder, LineInv
    <2> QED
      BY <1>l, <2>1, <2>2, <2>3, <2>4, <2>5, <2>6 DEF Claims
  <1>3. CASE HookChecks(s)
    BY <1>3, <1>h, <1>l DEF HookChecks, CarriesAll, Orderly, Advance, Hooks, Passes
  <1>4. CASE HookReads(s)
    BY <1>4, <1>h, <1>l DEF HookReads, Hooks, Passes
  <1>5. CASE \E i \in Paths : HookMoves(s, i)
    BY <1>5, <1>h, <1>l DEF HookMoves, Hooks, Passes
  <1>6. CASE HookAppendsLineage(s)
    BY <1>6, <1>h, <1>l DEF HookAppendsLineage, Advance, Hooks, Links
  <1>7. CASE HookCarries(s)
    BY <1>7, <1>h, <1>l DEF HookCarries, Advance, Hooks, Carries
  <1>8. CASE HookDrops(s)
    BY <1>8, <1>h, <1>l DEF HookDrops, Advance, Hooks, Drops
  <1>9. CASE HookRekeys(s)
    BY <1>9, <1>h, <1>l, HookValues DEF HookRekeys, EndHook, Passes
  <1>10. CASE HookDies(s)
    BY <1>10, <1>d, <1>h, <1>l, HookValues DEF HookDies, Passes
  <1> QED
    BY <1>1, <1>2, <1>3, <1>4, <1>5, <1>6, <1>7, <1>8, <1>9, <1>10 DEF HookStep

\* A step that leaves the lineage, the line and the record's holder keeps whom the line
\* descends to.
LEMMA DescendsKept ==
  ASSUME RouteInv, Descends, UNCHANGED <<line, pred>>,
         record'.st # "none" => record.st # "none" /\ Holder' = Holder,
         \A t \in Sessions : hook'[t] = hook[t] \/ (hook'[t].pc \notin Unlinked /\ hook[t].pc \notin Unlinked)
  PROVE  Descends'
  <1> SUFFICES ASSUME NEW s \in Sessions, NEW t \in Sessions
               PROVE  /\ hook'[s].pc \in Unlinked /\ hook'[s].from = t => line' \ {s} \subseteq Lineage(t)'
                      /\ record'.st # "none" /\ Holder' = s /\ hook'[s].pc \notin Unlinked
                           => line' \subseteq Lineage(s)'
    BY DEF Descends
  <1>1. Lineage(t) \subseteq Lineage(t)' /\ Lineage(s) \subseteq Lineage(s)'
    BY LineageGrows
  <1>2. hook'[s].pc \in Unlinked => hook[s].pc \in Unlinked /\ hook'[s].from = hook[s].from
    OBVIOUS
  <1>3. hook'[s].pc \notin Unlinked => hook[s].pc \notin Unlinked
    OBVIOUS
  <1> QED
    BY <1>1, <1>2, <1>3 DEF Descends

LEMMA HeirPane == Orderly /\ HeirInv /\ PaneStep => Heir' /\ Descends'
  <1> SUFFICES ASSUME Orderly, HeirInv, PaneStep PROVE Heir' /\ Descends'
    OBVIOUS
  <1>h. /\ hook \in [Sessions -> Hooks] /\ record \in Records /\ last \in Sessions /\ Sessions \subseteq Nat
        /\ line \subseteq Sessions
        /\ record.st # "none" => Holder \in Sessions /\ Holder <= last
        /\ OneHook /\ LineInv /\ Heir /\ Descends /\ RouteInv
    BY RouteTypes DEF HeirInv, RouteInv
  <1>1. CASE StartsNext /\ UNCHANGED <<record, line, pred>>
    <2>1. /\ last + 1 \in Sessions /\ last' = last + 1
          /\ \A s \in Sessions \ {last + 1} : hook'[s] = hook[s]
          /\ hook'[last + 1].pc = "begin" /\ hook'[last + 1].from = hook[last + 1].from
      BY <1>1, <1>h, RenewalAssumption DEF StartsNext, Sessions, Hooks
    <2>2. hook[last + 1].pc \notin HookPoints
      BY <1>h, <2>1 DEF OneHook, Running
    <2>3. \A s \in Sessions : s > last' => s > last
      BY <1>h, <2>1
    <2>4. last + 1 > last
      BY <1>h
    <2>5. Heir'
      <3>1. record'.st # "none" => Holder' \in line'
        BY <1>1, <1>h DEF Heir, Holder
      <3>2. \A s \in Sessions : hook'[s].pc \in Adopting => hook'[s].from \in line' /\ hook'[s].from # s
        BY <1>1, <1>h, <2>1 DEF Heir, Adopting
      <3>3. \A s \in Sessions : s > last' \/ hook'[s].pc \in {"begin", "consume"} \cup Unlinked => pred'[s] = None
        BY <1>1, <1>h, <2>1, <2>3, <2>4 DEF Heir
      <3> QED
        BY <3>1, <3>2, <3>3 DEF Heir
    <2>6. Descends'
      <3>1. \A t \in Sessions : hook'[t] = hook[t] \/ (hook'[t].pc \notin Unlinked /\ hook[t].pc \notin Unlinked)
        BY <2>1, <2>2 DEF Unlinked, HookPoints
      <3>2. record'.st = record.st /\ Holder' = Holder
        BY <1>1 DEF Holder
      <3> QED
        BY <1>1, <1>h, <3>1, <3>2, DescendsKept
    <2> QED
      BY <2>5, <2>6
  <1>2. CASE Renew
    <2>1. /\ record'.st = "pending" /\ record'.by = last /\ UNCHANGED <<hook, last, pred>>
          /\ line' = IF last \in line THEN line ELSE {last}
          /\ turn = "busy"
      BY <1>2 DEF Renew, Written, NoRecord
    <2>2. \A s \in Sessions : hook[s].pc \notin HookPoints
      BY <1>h, <2>1 DEF OneHook, Running
    <2>3. Holder' = last /\ last \in line'
      BY <2>1 DEF Holder
    <2>4. \A s \in Sessions : hook[s].pc \notin Adopting /\ hook[s].pc \notin Unlinked
      BY <2>2, PointsAreRunning DEF Unlinked, HookPoints
    <2>5. Heir'
      BY <1>h, <2>1, <2>3, <2>4 DEF Heir
    <2>6. last \in Lineage(last)
      BY <1>h, LineageHasSelf
    <2>7. line' \subseteq Lineage(last)
      <3>1. CASE last \notin line
        BY <2>1, <2>6, <3>1
      <3>2. CASE last \in line /\ record.st = "none"
        BY <1>h, <2>1, <2>6, <3>2 DEF LineInv
      <3>3. CASE last \in line /\ record.st # "none"
        BY <1>h, <2>1, <2>4, <3>3 DEF LineInv, Descends
      <3> QED
        BY <3>1, <3>2, <3>3
    <2>8. Descends'
      <3> SUFFICES ASSUME NEW s \in Sessions, s = last PROVE line' \subseteq Lineage(s)'
        BY <2>1, <2>3, <2>4 DEF Descends
      <3>1. Lineage(s) \subseteq Lineage(s)'
        BY <2>1, LineageGrows
      <3> QED
        BY <2>7, <3>1
    <2> QED
      BY <2>5, <2>8
  <1>3. CASE Stop
    <2>1. record'.st = record.st /\ Holder' = Holder /\ UNCHANGED <<last, hook, pred, line>>
      BY <1>3, <1>h, StopRecord DEF Holder, RouteInv, MTypeOK
    <2> QED
      BY <1>h, <2>1, DescendsKept DEF Heir
  <1>4. CASE UNCHANGED <<record, last, hook, pred, line>>
    <2>1. record'.st = record.st /\ Holder' = Holder
      BY <1>4 DEF Holder
    <2> QED
      BY <1>h, <1>4, <2>1, DescendsKept DEF Heir
  <1> QED
    BY <1>1, <1>2, <1>3, <1>4 DEF PaneStep, TurnStarts, Grows, Clear, Deliver, StartsNext, GiveUp,
       Continue, Dispatch, TakenOver

LEMMA HeirHook ==
  \A s \in Sessions : CarriesAll /\ HeirInv /\ (HookStep(s) \/ HookDies(s)) => Heir' /\ Descends'
  <1> SUFFICES ASSUME NEW s \in Sessions, CarriesAll, HeirInv, HookStep(s) \/ HookDies(s)
               PROVE  Heir' /\ Descends'
    OBVIOUS
  <1>h. /\ hook \in [Sessions -> Hooks] /\ record \in Records /\ last \in Sessions /\ Sessions \subseteq Nat
        /\ line \subseteq Sessions /\ pred \in [Sessions -> Sessions \cup {None}] /\ None \notin Sessions
        /\ record.st # "none" => Holder \in Sessions
        /\ OneHook /\ LineInv /\ Heir /\ Descends /\ RouteInv
    BY RouteTypes DEF HeirInv, RouteInv, MTypeOK, TypeOK
  <1>l. /\ s = last /\ UNCHANGED last /\ hook[s].pc \in HookPoints
        /\ \A t \in Sessions \ {s} : hook'[t] = hook[t] /\ hook[t].pc \notin HookPoints
        /\ Passes(s) \/ Claims(s) \/ Links(s) \/ Carries(s) \/ Drops(s)
    BY <1>h, HookCases
  <1>p. /\ Unlinked \subseteq Adopting /\ Adopting \subseteq HookPoints /\ "consume" \notin Adopting
        /\ "none" \notin Adopting
    BY DEF Unlinked, Adopting, HookPoints
  <1>a. hook[s].pc \in Adopting => record.st = "consumed" /\ Holder = s /\ hook[s].from \in Sessions
    BY <1>h DEF OneHook, Holder, RouteInv, FromKnown
  \* A step that leaves the lineage file, and keeps the hook on its side of writing it.
  <1>q. ASSUME UNCHANGED <<record, line, pred>>,
               hook'[s].pc \in Adopting => hook[s].pc \in Adopting /\ hook'[s].from = hook[s].from,
               hook'[s].pc \in Unlinked <=> hook[s].pc \in Unlinked,
               hook'[s].pc \in {"begin", "consume"} => hook[s].pc \in {"begin", "consume"}
        PROVE  Heir' /\ Descends'
    <2>1. Holder' = Holder
      BY <1>q DEF Holder
    <2>2. Heir'
      BY <1>h, <1>l, <1>q, <2>1 DEF Heir
    <2>3. \A t \in Sessions : Lineage(t) \subseteq Lineage(t)'
      BY <1>q, LineageGrows
    <2>4. Descends'
      <3> SUFFICES ASSUME NEW t \in Sessions, NEW u \in Sessions
                   PROVE  /\ hook'[t].pc \in Unlinked /\ hook'[t].from = u => line' \ {t} \subseteq Lineage(u)'
                          /\ record'.st # "none" /\ Holder' = t /\ hook'[t].pc \notin Unlinked
                               => line' \subseteq Lineage(t)'
        BY DEF Descends
      <3>1. /\ hook'[t].pc \in Unlinked => hook[t].pc \in Unlinked /\ hook'[t].from = hook[t].from
            /\ hook'[t].pc \notin Unlinked => hook[t].pc \notin Unlinked
        BY <1>l, <1>p, <1>q
      <3> QED
        BY <1>h, <1>q, <2>1, <2>3, <3>1 DEF Descends
    <2> QED
      BY <2>2, <2>4
  <1>1. CASE Passes(s)
    BY <1>1, <1>p, <1>q DEF Passes, Arriving, Unlinked, Adopting
  <1>2. CASE Claims(s)
    <2>1. /\ record.st # "none" /\ record'.st = "consumed" /\ Holder # s /\ Holder' = s
          /\ hook[s].pc = "consume" /\ hook'[s].pc = "check" /\ hook'[s].from = Holder
          /\ line' = line \cup {s} /\ UNCHANGED pred
      BY <1>2 DEF Claims
    <2>2. Heir'
      BY <1>h, <1>l, <1>p, <2>1 DEF Heir, Unlinked
    <2>3. \A t \in Sessions : Lineage(t) \subseteq Lineage(t)'
      BY <2>1, LineageGrows
    <2>4. hook[Holder].pc \notin Unlinked
      BY <1>h, <1>l, <1>p, <2>1
    <2>5. \A t \in Sessions : t = Holder => line \subseteq Lineage(t)
      BY <1>h, <2>1, <2>4 DEF Descends
    <2>6. Descends'
      <3> SUFFICES ASSUME NEW t \in Sessions, t = Holder PROVE line' \ {s} \subseteq Lineage(t)'
        BY <1>l, <1>p, <2>1 DEF Descends, Unlinked
      <3> QED
        BY <2>1, <2>3, <2>5
    <2> QED
      BY <2>2, <2>6
  <1>3. CASE Links(s)
    <2>1. /\ UNCHANGED <<record, line>> /\ hook[s].pc = "lineage" /\ hook'[s].from = hook[s].from
          /\ pred'[s] = hook[s].from /\ \A t \in Sessions \ {s} : pred'[t] = pred[t]
          /\ hook'[s].pc \in {"rekey", "carry"}
      BY <1>3, <1>h DEF Links
    <2>2. hook[s].pc \in Adopting /\ hook'[s].pc \in Adopting /\ hook'[s].pc \notin Unlinked
          /\ hook[s].pc \in Unlinked /\ hook'[s].pc \notin {"begin", "consume"}
      BY <2>1 DEF Adopting, Unlinked
    <2>3. Holder' = Holder /\ Holder = s /\ hook[s].from \in Sessions
      BY <1>a, <2>1, <2>2 DEF Holder
    <2>4. pred[s] = None
      BY <1>h, <2>2 DEF Heir
    <2>5. Heir'
      <3>1. \A t \in Sessions : t > last' \/ hook'[t].pc \in {"begin", "consume"} \cup Unlinked => t # s
        BY <1>h, <1>l, <2>2
      <3> QED
        BY <1>h, <1>l, <2>1, <2>2, <2>3, <3>1 DEF Heir
    <2>6. \A t \in Sessions : Lineage(t) \subseteq Lineage(t)'
      <3>1. \A t \in Sessions : pred[t] # None => pred'[t] = pred[t]
        BY <2>1, <2>4
      <3> QED
        BY <3>1, LineageGrows
    <2>7. line \subseteq Lineage(s)'
      <3>1. PICK g \in Sessions : g = hook[s].from
        BY <2>3
      <3>2. line \ {s} \subseteq Lineage(g)
        BY <1>h, <2>2, <3>1 DEF Descends
      <3>3. pred'[s] = g
        BY <2>1, <3>1
      <3>4. Lineage(g)' \subseteq Lineage(s)'
        <4> SUFFICES ASSUME NEW u \in Sessions, u \in Lineage(g)',
                            NEW S \in SUBSET Sessions, s \in S, KeepsPredecessors(S)'
                     PROVE  u \in S
          BY DEF Lineage
        <4>1. g \in S
          BY <3>3, <1>h DEF KeepsPredecessors
        <4> QED
          BY <4>1 DEF Lineage
      <3>5. s \in Lineage(s)'
        BY DEF Lineage
      <3> QED
        BY <2>6, <3>2, <3>4, <3>5
    <2>8. Descends'
      <3>1. \A t \in Sessions : hook'[t].pc \notin Unlinked
        BY <1>l, <1>p, <2>2
      <3> QED
        BY <2>1, <2>3, <2>7, <3>1 DEF Descends
    <2> QED
      BY <2>5, <2>8
  <1>4. CASE Carries(s) \/ Drops(s)
    BY <1>4, <1>q DEF Carries, Drops, Adopting, Unlinked
  <1> QED
    BY <1>l, <1>1, <1>2, <1>3, <1>4

LEMMA HeirInit == MInit => HeirInv
  <1> SUFFICES ASSUME MInit PROVE HeirInv
    OBVIOUS
  <1>1. Heir /\ Descends
    BY RenewalAssumption, SessionValues DEF MInit, Init, Heir, Descends, NoRecord, NoHook, Adopting, Unlinked
  <1> QED
    BY <1>1, RouteInvInit DEF HeirInv

LEMMA HeirStep == CarriesAll /\ HeirInv /\ [Next]_vars => HeirInv'
  <1> SUFFICES ASSUME CarriesAll, HeirInv, [Next]_vars PROVE HeirInv'
    OBVIOUS
  <1>r. RouteInv'
    BY RouteInvStep DEF HeirInv, CarriesAll
  <1>1. CASE PaneStep
    BY <1>1, <1>r, HeirPane DEF HeirInv, CarriesAll
  <1>2. ASSUME NEW s \in Sessions, HookStep(s) \/ HookDies(s) PROVE HeirInv'
    BY <1>2, <1>r, HeirHook DEF HeirInv
  <1>3. CASE UNCHANGED pvars
    <2>1. UNCHANGED <<record, hook, last, line, pred>> /\ Holder' = Holder
      BY <1>3 DEF pvars, Holder
    <2> QED
      BY <1>r, <2>1, DescendsKept DEF HeirInv, Heir
  <1> QED
    BY <1>1, <1>2, <1>3, MessagesApart DEF Next, vars, HeirInv, RouteInv

(***************************************************************************)
(* Where a question is while its session is renewed.                       *)
(***************************************************************************)
\* A question that was accepted for delivery goes to a session that has started, or to the
\* peer.
KnownEnds ==
  \A m \in Questions : msg[m].pc \in {"checked", "prompted", "sent"} =>
    IF Inbound(m) THEN msg[m].tgt \in Sessions /\ msg[m].tgt <= last
    ELSE msg[m].src \in Sessions /\ msg[m].tgt = Peer

\* One under way to a session of the line writes to the holder's ledger, or to the one its
\* hook has yet to carry.
OnTheWay ==
  \A m \in Questions :
    msg[m].pc \in {"checked", "prompted"} /\ Inbound(m) /\ record.st # "none" /\ msg[m].tgt \in line =>
      msg[m].tgt = Holder \/ (hook[Holder].pc \in Arriving /\ msg[m].tgt = hook[Holder].from)

\* One that is out is on the peer's ledger, or on the one its session's successors read.
Booked ==
  \A m \in Questions : msg[m].pc = "sent" =>
    /\ ~Inbound(m) => m \in peerBook
    /\ Inbound(m) /\ record.st # "none" /\ msg[m].tgt \in line =>
         m \in ledger[Holder] \/ (hook[Holder].pc \in Arriving /\ m \in ledger[hook[Holder].from])
    /\ Inbound(m) /\ msg[m].tgt = last /\ (record.st = "none" \/ last \notin line) => m \in ledger[last]

BookInv == HeirInv /\ KnownEnds /\ OnTheWay /\ Booked

LEMMA BookTypes ==
  ASSUME BookInv
  PROVE  /\ hook \in [Sessions -> Hooks] /\ record \in Records /\ last \in Sessions /\ Sessions \subseteq Nat
         /\ line \subseteq Sessions /\ ledger \in [Sessions -> SUBSET Questions]
         /\ record.st # "none" => Holder \in Sessions /\ Holder <= last
         /\ OneHook /\ LineInv /\ Heir /\ RouteInv /\ HeirInv
         /\ KnownEnds /\ OnTheWay /\ Booked
         /\ msg \in [Questions -> [pc : {"no", "checked", "prompted", "refused", "sent", "undelivered", "lost", "answered"},
                                   src : Sessions \cup {None, Peer}, tgt : Sessions \cup {None, Peer}]]
         /\ Peer \notin Sessions /\ Peer # None /\ None \notin Sessions
  BY RouteTypes, MessagesAssumption, RenewalAssumption DEF BookInv, HeirInv, RouteInv, MTypeOK, TypeOK

LEMMA BookPane ==
  Orderly /\ BookInv /\ PaneStep /\ UNCHANGED <<ledger, mvars>> => KnownEnds' /\ OnTheWay' /\ Booked'
  <1> SUFFICES ASSUME Orderly, BookInv, PaneStep, UNCHANGED <<ledger, mvars>>
               PROVE  KnownEnds' /\ OnTheWay' /\ Booked'
    OBVIOUS
  <1>h. /\ hook \in [Sessions -> Hooks] /\ record \in Records /\ last \in Sessions /\ Sessions \subseteq Nat
        /\ line \subseteq Sessions
        /\ record.st # "none" => Holder \in Sessions /\ Holder <= last
        /\ OneHook /\ LineInv /\ KnownEnds /\ OnTheWay /\ Booked /\ RouteInv
    BY BookTypes
  <1>u. UNCHANGED <<msg, peerBook, ledger>> /\ \A m \in Questions : Inbound(m)' = Inbound(m)
    BY DEF mvars, Inbound
  <1>1. CASE StartsNext /\ UNCHANGED <<record, line>>
    <2>1. /\ last + 1 \in Sessions /\ last' = last + 1
          /\ \A s \in Sessions \ {last + 1} : hook'[s] = hook[s]
      BY <1>1, <1>h, RenewalAssumption DEF StartsNext, Sessions
    <2>2. \A n \in Sessions : n <= last => n <= last' /\ n # last'
      BY <1>h, <2>1
    <2>3. KnownEnds'
      BY <1>h, <1>u, <2>2 DEF KnownEnds
    <2>4. Holder' = Holder /\ (record.st # "none" => hook'[Holder] = hook[Holder])
      <3>1. Holder' = Holder
        BY <1>1 DEF Holder
      <3> HIDE DEF Holder
      <3> QED
        BY <1>h, <2>1, <2>2, <3>1
    <2>5. OnTheWay'
      BY <1>1, <1>h, <1>u, <2>4 DEF OnTheWay
    <2>6. Booked'
      BY <1>1, <1>h, <1>u, <2>2, <2>4 DEF Booked, KnownEnds
    <2> QED
      BY <2>3, <2>5, <2>6
  <1>2. CASE Renew
    <2>1. /\ record'.st = "pending" /\ Holder' = last /\ UNCHANGED <<hook, last>>
          /\ line' = IF last \in line THEN line ELSE {last}
          /\ turn = "busy"
      BY <1>2 DEF Renew, Written, NoRecord, Holder
    <2>2. \A s \in Sessions : hook[s].pc \notin Arriving
      BY <1>h, <2>1 DEF OneHook, Running, Arriving, Unlinked, HookPoints
    <2>3. last \in line /\ record.st # "none" => Holder = last
      BY <1>h DEF LineInv
    <2>4. record.st = "none" => line = {0}
      BY <1>h DEF LineInv
    <2>5. KnownEnds'
      BY <1>u, <1>h, <2>1 DEF KnownEnds
    <2>6. OnTheWay'
      BY <1>h, <1>u, <2>1, <2>2, <2>3, <2>4 DEF OnTheWay
    <2>7. Booked'
      <3> SUFFICES ASSUME NEW m \in Questions, msg'[m].pc = "sent"
                   PROVE  /\ ~Inbound(m)' => m \in peerBook'
                          /\ Inbound(m)' /\ msg'[m].tgt \in line' => m \in ledger'[last]
                          /\ last' \in line'
        BY <2>1 DEF Booked
      <3> QED
        BY <1>h, <1>u, <2>1, <2>2, <2>3, <2>4 DEF Booked
    <2> QED
      BY <2>5, <2>6, <2>7
  <1>3. CASE record'.st = record.st /\ Holder' = Holder /\ UNCHANGED <<last, hook, line>>
    BY <1>3, <1>h, <1>u DEF KnownEnds, OnTheWay, Booked
  <1>4. CASE Stop
    BY <1>3, <1>4, <1>h, StopRecord DEF Holder, RouteInv, MTypeOK
  <1>5. CASE UNCHANGED <<record, last, hook, line>>
    BY <1>3, <1>5 DEF Holder
  <1> QED
    BY <1>1, <1>2, <1>4, <1>5 DEF PaneStep, TurnStarts, Grows, Clear, Deliver, StartsNext, GiveUp,
       Continue, Dispatch, TakenOver

LEMMA BookHook ==
  \A s \in Sessions :
    CarriesAll /\ BookInv /\ ((HookStep(s) /\ InTime(s)) \/ HookDies(s)) /\ UNCHANGED mvars
      => KnownEnds' /\ OnTheWay' /\ Booked'
  <1> SUFFICES ASSUME NEW s \in Sessions, CarriesAll, BookInv, (HookStep(s) /\ InTime(s)) \/ HookDies(s),
                      UNCHANGED mvars
               PROVE  KnownEnds' /\ OnTheWay' /\ Booked'
    OBVIOUS
  <1>h. /\ hook \in [Sessions -> Hooks] /\ record \in Records /\ last \in Sessions /\ Sessions \subseteq Nat
        /\ line \subseteq Sessions /\ ledger \in [Sessions -> SUBSET Questions]
        /\ record.st # "none" => Holder \in Sessions
        /\ OneHook /\ LineInv /\ Heir /\ RouteInv /\ KnownEnds /\ OnTheWay /\ Booked
    BY BookTypes
  <1>u. UNCHANGED <<msg, peerBook>> /\ \A m \in Questions : Inbound(m)' = Inbound(m)
    BY DEF mvars, Inbound
  <1>l. /\ s = last /\ UNCHANGED last /\ hook[s].pc \in HookPoints
        /\ \A t \in Sessions \ {s} : hook'[t] = hook[t] /\ hook[t].pc \notin HookPoints
        /\ Passes(s) \/ Claims(s) \/ Links(s) \/ Carries(s) \/ Drops(s)
    BY <1>h, HookCases
  <1>p. Unlinked \subseteq Arriving /\ Arriving \subseteq Adopting /\ Adopting \subseteq HookPoints
    BY DEF Unlinked, Arriving, Adopting, HookPoints
  <1>a. hook[s].pc \in Adopting => /\ record.st = "consumed" /\ Holder = s
                                   /\ hook[s].from \in Sessions /\ hook[s].from # s /\ s \in line
    BY <1>h DEF OneHook, Holder, RouteInv, FromKnown, Heir
  <1>k. KnownEnds'
    BY <1>h, <1>u, <1>l DEF KnownEnds
  <1>i. hook[s].pc \in {"lineage", "carry"} /\ HookStep(s) =>
          \A m \in Questions : msg[m].pc \in {"checked", "prompted"} /\ Inbound(m) => msg[m].tgt # hook[s].from
    BY DEF CarriesAll, Orderly, InTime, Carrying, InFlight, HookDies
  <1>d. hook[s].pc \in {"lineage", "carry"} => HookStep(s)
    BY DEF CarriesAll, HookDies
  <1>1. CASE Passes(s)
    <2>1. UNCHANGED <<record, line, ledger>> /\ Holder' = Holder
      BY <1>1 DEF Passes, Holder
    <2>2. \A t \in Sessions : hook[t].pc \in Arriving => hook'[t].pc \in Arriving /\ hook'[t].from = hook[t].from
      BY <1>1, <1>l, <1>p DEF Passes
    <2> QED
      BY <1>h, <1>k, <1>l, <1>u, <2>1, <2>2 DEF OnTheWay, Booked
  <1>2. CASE Claims(s)
    <2>1. /\ UNCHANGED ledger
          /\ record.st # "none" /\ record'.st = "consumed" /\ Holder # s /\ Holder' = s
          /\ hook'[s].pc = "check" /\ hook'[s].from = Holder
          /\ line' = line \cup {s} /\ s \notin line
      BY <1>2 DEF Claims
    <2>2. hook[Holder].pc \notin Arriving /\ hook'[s].pc \in Arriving
      BY <1>h, <1>l, <1>p, <2>1 DEF Arriving, Unlinked
    <2>3. OnTheWay'
      BY <1>h, <1>u, <2>1, <2>2 DEF OnTheWay
    <2>4. Booked'
      BY <1>h, <1>l, <1>u, <2>1, <2>2 DEF Booked
    <2> QED
      BY <1>k, <2>3, <2>4
  <1>3. CASE Links(s)
    <2>1. /\ UNCHANGED <<record, line, ledger>> /\ Holder' = Holder /\ Holder = s /\ record.st # "none"
          /\ hook[s].pc \in {"lineage"} /\ hook'[s].from = hook[s].from
          /\ hook'[s].pc = IF ledger[hook[s].from] = {} THEN "rekey" ELSE "carry"
      BY <1>3, <1>a DEF Links, Holder, Adopting
    <2>2. OnTheWay'
      BY <1>d, <1>h, <1>i, <1>u, <2>1 DEF OnTheWay
    <2>3. Booked'
      BY <1>h, <1>l, <1>u, <2>1 DEF Booked, Arriving, Unlinked
    <2> QED
      BY <1>k, <2>2, <2>3
  <1>4. CASE Carries(s)
    <2>1. /\ UNCHANGED <<record, line>> /\ Holder' = Holder /\ Holder = s /\ record.st # "none"
          /\ hook[s].pc = "carry" /\ s \in line
          /\ ledger'[s] = ledger[s] \cup ledger[hook[s].from]
      BY <1>4, <1>a, <1>h DEF Carries, Holder, Adopting
    <2>2. OnTheWay'
      BY <1>d, <1>h, <1>i, <1>u, <2>1 DEF OnTheWay
    <2>3. Booked'
      BY <1>h, <1>l, <1>u, <2>1 DEF Booked
    <2> QED
      BY <1>k, <2>2, <2>3
  <1>5. CASE Drops(s)
    <2>1. /\ UNCHANGED <<record, line>> /\ Holder' = Holder /\ Holder = s /\ record.st # "none"
          /\ hook[s].pc = "drop" /\ s \in line
          /\ ledger'[s] = ledger[s]
      BY <1>5, <1>a, <1>h DEF Drops, Holder, Adopting
    <2>2. hook[s].pc \notin Arriving
      BY <2>1 DEF Arriving, Unlinked
    <2>3. OnTheWay'
      BY <1>h, <1>u, <2>1, <2>2 DEF OnTheWay
    <2>4. Booked'
      BY <1>h, <1>l, <1>u, <2>1, <2>2 DEF Booked
    <2> QED
      BY <1>k, <2>3, <2>4
  <1> QED
    BY <1>l, <1>1, <1>2, <1>3, <1>4, <1>5

\* A ledger only grows by what a send writes to it.
LEMMA AppendGrows ==
  ASSUME BookInv, NEW m \in Questions, Append(m)
  PROVE  /\ peerBook \subseteq peerBook' /\ \A t \in Sessions : ledger[t] \subseteq ledger'[t]
         /\ ~Inbound(m) => m \in peerBook'
         /\ Inbound(m) /\ msg[m].tgt \in Sessions => m \in ledger'[msg[m].tgt]
  BY BookTypes DEF Append

LEMMA BookMessage == \A m \in Questions : BookInv /\ MessageStep(m) => KnownEnds' /\ OnTheWay' /\ Booked'
  <1> SUFFICES ASSUME NEW m \in Questions, BookInv, MessageStep(m) PROVE KnownEnds' /\ OnTheWay' /\ Booked'
    OBVIOUS
  <1> DEFINE Pcs == {"no", "checked", "prompted", "refused", "sent", "undelivered", "lost", "answered"}
  <1>h. /\ last \in Sessions /\ Sessions \subseteq Nat /\ line \subseteq Sessions
        /\ record.st # "none" => Holder \in Sessions
        /\ LineInv /\ KnownEnds /\ OnTheWay /\ Booked
        /\ msg \in [Questions -> [pc : Pcs, src : Sessions \cup {None, Peer}, tgt : Sessions \cup {None, Peer}]]
        /\ Peer \notin Sessions /\ Peer # None
    BY BookTypes
  <1>p. UNCHANGED pvars /\ Holder' = Holder
    <2>1. UNCHANGED pvars
      BY MessagesApart DEF BookInv, HeirInv, RouteInv
    <2> QED
      BY <2>1 DEF pvars, Holder
  <1>g. peerBook \subseteq peerBook' /\ \A t \in Sessions : ledger[t] \subseteq ledger'[t]
    <2>1. CASE Append(m)
      BY <2>1, AppendGrows
    <2>2. CASE UNCHANGED <<ledger, peerBook>>
      BY <2>2
    <2> QED
      BY <2>1, <2>2 DEF MessageStep, Resolve, Prompt, RecordDelivery, RecordUndelivered, SenderDies, Answer, StaysPut
  <1>f. record.st # "none" /\ hook[Holder].pc \in Arriving => hook[Holder].from \in Sessions
    BY BookTypes DEF RouteInv, FromKnown, Arriving, Unlinked, Adopting
  <1>n. \A n \in Questions \ {m} : msg'[n] = msg[n]
    BY <1>h DEF MessageStep, Resolve, Prompt, RecordDelivery, RecordUndelivered, SenderDies, Answer, Pass
  \* What the other questions have is theirs still, so it is enough to look at this one.
  <1>q. SUFFICES
          /\ msg'[m].pc \in {"checked", "prompted", "sent"} =>
               IF Inbound(m)' THEN msg'[m].tgt \in Sessions /\ msg'[m].tgt <= last
               ELSE msg'[m].src \in Sessions /\ msg'[m].tgt = Peer
          /\ msg'[m].pc \in {"checked", "prompted"} /\ Inbound(m)' /\ record.st # "none" /\ msg'[m].tgt \in line =>
               msg'[m].tgt = Holder \/ (hook[Holder].pc \in Arriving /\ msg'[m].tgt = hook[Holder].from)
          /\ msg'[m].pc = "sent" =>
               /\ ~Inbound(m)' => m \in peerBook'
               /\ Inbound(m)' /\ record.st # "none" /\ msg'[m].tgt \in line =>
                    m \in ledger'[Holder] \/ (hook[Holder].pc \in Arriving /\ m \in ledger'[hook[Holder].from])
               /\ Inbound(m)' /\ msg'[m].tgt = last /\ (record.st = "none" \/ last \notin line) => m \in ledger'[last]
    <2>1. KnownEnds'
      BY <1>h, <1>n, <1>p, <1>q DEF KnownEnds, Inbound, pvars
    <2>2. OnTheWay'
      BY <1>h, <1>n, <1>p, <1>q DEF OnTheWay, Inbound, pvars
    <2>3. Booked'
      <3> SUFFICES ASSUME NEW n \in Questions, msg'[n].pc = "sent"
                   PROVE  /\ ~Inbound(n)' => n \in peerBook'
                          /\ Inbound(n)' /\ record.st # "none" /\ msg'[n].tgt \in line =>
                               n \in ledger'[Holder] \/ (hook[Holder].pc \in Arriving /\ n \in ledger'[hook[Holder].from])
                          /\ Inbound(n)' /\ msg'[n].tgt = last /\ (record.st = "none" \/ last \notin line)
                               => n \in ledger'[last]
        BY <1>p DEF Booked, pvars
      <3>1. CASE n = m
        BY <1>q, <3>1
      <3>2. CASE n # m
        <4>1. msg'[n] = msg[n] /\ Inbound(n)' = Inbound(n)
          BY <1>n, <3>2 DEF Inbound
        <4> QED
          BY <1>f, <1>g, <1>h, <4>1 DEF Booked
      <3> QED
        BY <3>1, <3>2
    <2> QED
      BY <2>1, <2>2, <2>3
  <1>1. CASE Resolve(m)
    <2>1. msg'[m].pc \in {"checked", "refused"}
          /\ \/ msg'[m].src = Peer /\ msg'[m].tgt \in Sessions /\ (msg'[m].pc = "checked" => msg'[m].tgt = last)
             \/ msg'[m].src = last /\ msg'[m].tgt = Peer
      <3>1. Addressees \subseteq Sessions
        BY BookTypes DEF Addressees, RouteInv, MTypeOK, TypeOK
      <3> QED
        BY <1>1, <1>h, <3>1 DEF Resolve
    <2>2. record.st # "none" /\ last \in line => Holder = last
      BY <1>h DEF LineInv
    <2> QED
      BY <1>h, <2>1, <2>2 DEF Inbound
  <1>2. CASE Prompt(m) \/ SenderDies(m) \/ Answer(m)
    <2>1. /\ msg'[m].src = msg[m].src /\ msg'[m].tgt = msg[m].tgt
          /\ msg'[m].pc # "sent" /\ (msg'[m].pc \in {"checked", "prompted"} => msg[m].pc \in {"checked", "prompted"})
      BY <1>2, <1>h DEF Prompt, SenderDies, Answer, Pass
    <2> QED
      BY <1>h, <2>1 DEF Inbound, KnownEnds, OnTheWay
  <1>3. CASE RecordDelivery(m)
    <2>1. /\ msg'[m].src = msg[m].src /\ msg'[m].tgt = msg[m].tgt
          /\ msg'[m].pc = "sent" /\ msg[m].pc = "prompted" /\ Append(m)
      BY <1>3, <1>h DEF RecordDelivery, Pass
    <2>2. Inbound(m)' = Inbound(m)
      BY <2>1 DEF Inbound
    <2>3. IF Inbound(m) THEN msg[m].tgt \in Sessions /\ msg[m].tgt <= last
          ELSE msg[m].src \in Sessions /\ msg[m].tgt = Peer
      BY <1>h, <2>1 DEF KnownEnds
    <2>4. /\ ~Inbound(m) => m \in peerBook'
          /\ Inbound(m) => m \in ledger'[msg[m].tgt]
      BY <2>1, <2>3, AppendGrows
    <2>5. Inbound(m) /\ record.st # "none" /\ msg[m].tgt \in line =>
            msg[m].tgt = Holder \/ (hook[Holder].pc \in Arriving /\ msg[m].tgt = hook[Holder].from)
      BY <1>h, <2>1 DEF OnTheWay
    <2> QED
      BY <2>1, <2>2, <2>3, <2>4, <2>5
  <1>4. CASE RecordUndelivered(m)
    <2>1. msg'[m].pc = "undelivered"
      BY <1>4, <1>h DEF RecordUndelivered, Pass
    <2> QED
      BY <2>1
  <1> QED
    BY <1>1, <1>2, <1>3, <1>4 DEF MessageStep

LEMMA BookInit == MInit => BookInv
  <1> SUFFICES ASSUME MInit PROVE BookInv
    OBVIOUS
  <1>1. \A m \in Questions : msg[m].pc = "no"
    BY DEF MInit
  <1> QED
    BY <1>1, HeirInit DEF BookInv, KnownEnds, OnTheWay, Booked

LEMMA BookStep == CarriesAll /\ BookInv /\ [Next]_vars => BookInv'
  <1> SUFFICES ASSUME CarriesAll, BookInv, [Next]_vars PROVE BookInv'
    OBVIOUS
  <1>r. HeirInv'
    BY HeirStep DEF BookInv
  <1>1. CASE PaneStep /\ UNCHANGED <<ledger, mvars>>
    BY <1>1, <1>r, BookPane DEF BookInv, CarriesAll
  <1>2. ASSUME NEW s \in Sessions, ((HookStep(s) /\ InTime(s)) \/ HookDies(s)) /\ UNCHANGED mvars PROVE BookInv'
    BY <1>2, <1>r, BookHook DEF BookInv
  <1>3. ASSUME NEW m \in Questions, MessageStep(m) PROVE BookInv'
    BY <1>3, <1>r, BookMessage DEF BookInv
  <1>4. CASE UNCHANGED vars
    <2>1. /\ UNCHANGED <<record, last, hook, line, ledger, msg, peerBook>> /\ Holder' = Holder
          /\ \A m \in Questions : Inbound(m)' = Inbound(m)
      BY <1>4 DEF vars, pvars, mvars, Holder, Inbound
    <2> QED
      BY <1>r, <2>1 DEF BookInv, KnownEnds, OnTheWay, Booked
  <1> QED
    BY <1>1, <1>2, <1>3, <1>4 DEF Next

\* Once a renewed session has reached its own Stop, a reply is accepted to every question
\* that reached a session it continues, and to every one such a session asked, for a pane
\* whose hooks run one at a time and get as far as the ledger, and whose senders are not
\* overtaken by them (validate_peer_reply, _carry_message_ledger).
THEOREM AnswerableAlways == ASSUME CarriesAll PROVE Spec => []Answerable
  <1>1. BookInv => Answerable
    <2> SUFFICES ASSUME BookInv, record.confirmed, record.claimant = last, NEW m \in Questions,
                        msg[m].pc = "sent", {msg[m].src, msg[m].tgt} \cap line # {}
                 PROVE  Accepted(m)
      BY DEF Answerable
    <2>h. /\ last \in Sessions /\ line \subseteq Sessions /\ Peer \notin Sessions
          /\ OneHook /\ KnownEnds /\ Booked /\ Heir /\ record.st \in {"none", "pending", "consumed"}
      BY BookTypes, RouteTypes
    <2>1. record.st = "consumed" /\ Holder = last
      BY <2>h DEF OneHook, Holder
    <2>2. hook[last].pc \notin Adopting /\ hook[last].pc \notin Unlinked /\ hook[last].pc \notin Arriving
      BY <2>h DEF OneHook, Adopting, Arriving, Unlinked
    <2>3. line \subseteq Lineage(last)
      BY <2>h, <2>1, <2>2 DEF BookInv, HeirInv, Descends
    <2>4. CASE Inbound(m)
      <3>1. msg[m].tgt \in line
        BY <2>4, <2>h DEF Inbound
      <3>2. m \in ledger[last]
        BY <2>1, <2>2, <2>4, <2>h, <3>1 DEF Booked
      <3> QED
        BY <2>3, <2>4, <3>1, <3>2 DEF Accepted
    <2>5. CASE ~Inbound(m)
      <3>1. msg[m].src \in line /\ m \in peerBook
        BY <2>5, <2>h DEF KnownEnds, Booked
      <3> QED
        BY <2>3, <2>5, <3>1 DEF Accepted
    <2> QED
      BY <2>4, <2>5
  <1> QED
    BY <1>1, BookInit, BookStep, PTL DEF Spec
=============================================================================
