------------------------------- MODULE Messages -------------------------------
(***************************************************************************)
(* Questions between the orchestrator of a pane that is renewed (Renewal)   *)
(* and a peer in another pane (orchestrator.py send, messages.py): a sender *)
(* resolves and validates its target, prompts it, and then records the      *)
(* message in the ledger of the session it resolved; an answer is accepted  *)
(* when the answering session's own ledger holds the question and the       *)
(* lineages of both ends lead to the pair that was recorded.                *)
(***************************************************************************)
EXTENDS Renewal

CONSTANTS
  Peer,            \* the peer's session: it is not renewed
  SendsPromptly    \* whether a send is over before the ledger it writes to is carried

ASSUME MessagesAssumption ==
  /\ Peer \notin Sessions \cup {None, Elsewhere} /\ SendsPromptly \in BOOLEAN

VARIABLES
  msg,      \* each question: how far its send is, between which sessions
  peerBook  \* the ledger of the peer

mvars == <<msg, peerBook>>
vars == <<pvars, ledger, mvars>>

MInit ==
  /\ Init
  /\ msg = [m \in Questions |-> [pc |-> "no", src |-> None, tgt |-> None]]
  /\ peerBook = {}

InFlight(m) == msg[m].pc \in {"checked", "prompted", "refused"}
Pass(m, pc) == msg' = [msg EXCEPT ![m].pc = pc]
StaysPut == UNCHANGED <<pvars, ledger, peerBook>>

\* Asked by the peer, or by the session in the pane.
Inbound(m) == msg[m].src = Peer

\* directory: the registered sessions and, registered or not, the live agent of the pane.
Addressees == entry \cup {last}

\* resolve_target: a session id matches one row, the pane's id every session that ran in it;
\* of several matches the live one is meant.
Matched == {{s} : s \in Addressees} \cup {Addressees}
Meant(rows) == IF Cardinality(rows) = 1 THEN rows ELSE rows \cap {last}

\* The target is resolved and its session validated: one that is no longer live is told from
\* the rest only now, and its message is recorded undelivered.  A message that was not
\* accepted may be sent again.
Resolve(m) ==
  /\ msg[m].pc \in {"no", "undelivered"}
  /\ \/ \E rows \in Matched, s \in Addressees :
          /\ s \in Meant(rows)
          /\ msg' = [msg EXCEPT ![m] = [pc |-> IF s = last THEN "checked" ELSE "refused", src |-> Peer, tgt |-> s]]
     \/ turn = "busy" /\ msg' = [msg EXCEPT ![m] = [pc |-> "checked", src |-> last, tgt |-> Peer]]
  /\ StaysPut

\* A pane that waits on interactive input refuses the prompt; nothing reaches it.
Prompt(m) ==
  /\ msg[m].pc = "checked"
  /\ Pass(m, "prompted") \/ Pass(m, "refused")
  /\ StaysPut

Append(m) ==
  /\ IF Inbound(m) THEN ledger' = [ledger EXCEPT ![msg[m].tgt] = @ \cup {m}] /\ UNCHANGED peerBook
     ELSE peerBook' = peerBook \cup {m} /\ UNCHANGED ledger
  /\ UNCHANGED pvars

RecordDelivery(m) == msg[m].pc = "prompted" /\ Pass(m, "sent") /\ Append(m)
RecordUndelivered(m) == msg[m].pc = "refused" /\ Pass(m, "undelivered") /\ Append(m)

\* A sender killed after the prompt: the question is out and no ledger knows it.
SenderDies(m) == Inbound(m) /\ msg[m].pc = "prompted" /\ Pass(m, "lost") /\ StaysPut

\* validate_peer_reply, for the pane's session and for the peer.
Accepted(m) ==
  IF Inbound(m) THEN m \in ledger[last] /\ msg[m].tgt \in Lineage(last)
  ELSE m \in peerBook /\ msg[m].src \in Lineage(last)

Answer(m) ==
  /\ msg[m].pc = "sent" /\ (Inbound(m) => turn = "busy")
  /\ Accepted(m)
  /\ Pass(m, "answered")
  /\ StaysPut

\* The pane's turn does not end while a send of its own is under way.
Sending == \E m \in Questions : InFlight(m) /\ ~Inbound(m)
Carrying(s) == hook[s].pc \in {"carry", "lineage"}

MessageStep(m) ==
  \/ Resolve(m) \/ Prompt(m) \/ RecordDelivery(m) \/ RecordUndelivered(m) \/ SenderDies(m) \/ Answer(m)

\* No send to the session being continued is under way when its ledger is carried.
InTime(s) ==
  SendsPromptly /\ Carrying(s) => \A m \in Questions : InFlight(m) /\ Inbound(m) => msg[m].tgt # hook[s].from

Next ==
  \/ PaneStep /\ (~Sending \/ (turn' = turn /\ last' = last)) /\ UNCHANGED <<ledger, mvars>>
  \/ \E s \in Sessions : ((HookStep(s) /\ InTime(s)) \/ HookDies(s)) /\ UNCHANGED mvars
  \/ \E m \in Questions : MessageStep(m)

Spec == MInit /\ [][Next]_vars

\* Sends and hooks run on; a turn, however many sends it makes, ends; a deliverer polls, and a
\* pane that is idle again and again is cleared at last.
Fairness ==
  /\ \A m \in Questions : WF_vars(Prompt(m) \/ RecordDelivery(m) \/ RecordUndelivered(m))
  /\ \A s \in Sessions : WF_vars(HookStep(s) /\ InTime(s) /\ UNCHANGED mvars)
  /\ SF_vars(Stop /\ ~Sending /\ UNCHANGED <<ledger, mvars>>)
  /\ SF_vars(Deliver /\ UNCHANGED <<ledger, mvars>>)
  /\ WF_vars(Continue /\ UNCHANGED <<ledger, mvars>>)

FairSpec == Spec /\ Fairness

\* The shapes of the messages.
MTypeOK ==
  /\ TypeOK
  /\ msg \in [Questions -> [pc : {"no", "checked", "prompted", "refused", "sent", "undelivered", "lost", "answered"},
                            src : Sessions \cup {None, Peer}, tgt : Sessions \cup {None, Peer}]]
  /\ peerBook \subseteq Questions

\* "peer questions it asked or received before the clear stay answerable": what was
\* submitted to, or by, a session that the confirmed session continues has a reply that
\* would be accepted.
Answerable ==
  record.confirmed /\ record.claimant = last =>
    \A m \in Questions :
      msg[m].pc = "sent" /\ {msg[m].src, msg[m].tgt} \cap line # {} => Accepted(m)
=============================================================================
