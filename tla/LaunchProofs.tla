---------------------------- MODULE LaunchProofs ----------------------------
(***************************************************************************)
(* Theorems about Launch, for every number of attempts, prompts and        *)
(* faults.                                                                 *)
(***************************************************************************)
EXTENDS Launch, SequenceTheorems, TLAPS

(***************************************************************************)
(* Types                                                                   *)
(***************************************************************************)
InHand == {"start", "gate", "prompt", "read", "bind", "receipt"}

\* What the launcher's variables hold at each of its steps.
RunInv ==
  /\ run.pc \in InHand => run.pane \in Panes
  /\ run.pc \in {"split", "start", "gate", "prompt"} => run.prompts > 0
  /\ run.keep => run.pc = "record" /\ run.pane \in Panes /\ ~run.retry
  /\ run.delivered => run.pane \in Panes /\ run.pc \in {"bind", "receipt", "record", "unlink", "confirm"}
  /\ run.retry => run.pc \in {"close", "record"} /\ ~run.delivered

TypeInv == TypeOK /\ RunInv

RunOK == run \in RunRecs /\ run.pane \in {NoPane} \cup Panes /\ RunInv

\* What the launcher leaves behind in files and panes.
StoreOK ==
  /\ kind \in Kinds
  /\ inst \in InstRecs
  /\ failure \in [spent : SUBSET Nat, left : SUBSET Panes]
  /\ receipt \in [pane : Nat, sid : Nat]
  /\ pane \in Seq(PaneRecs)
  /\ used \subseteq Nat
  /\ minted \in Nat
  /\ faults \in 0..MaxFaults
  /\ died \in Nat
  /\ refused \in Nat

LEMMA TypeParts == TypeInv <=> RunOK /\ StoreOK
  BY DEF TypeInv, TypeOK, RunOK, StoreOK

\* One record of the sequence is replaced.
Rewritten(i, r) ==
  /\ pane' \in Seq(PaneRecs)
  /\ Len(pane') = Len(pane)
  /\ \A j \in Panes : pane'[j] = IF j = i THEN r ELSE pane[j]

LEMMA RewritePane ==
  ASSUME pane \in Seq(PaneRecs), NEW i \in Panes, NEW r \in PaneRecs,
         pane' = [pane EXCEPT ![i] = r]
  PROVE  Rewritten(i, r)
  BY ExceptSeq DEF Rewritten, Panes

LEMMA PaneTyped == ASSUME TypeOK PROVE \A j \in Panes : pane[j] \in PaneRecs
  BY LenProperties DEF TypeOK, Panes

\* The agent of a pane comes up.
Booted(r, gate) == [r EXCEPT !.st = "agent", !.sid = Given, !.gate = gate]

LEMMA RecordTyped ==
  ASSUME NEW r \in PaneRecs, NEW gate \in {"none", "blocked", "hooks"}, Given \in Nat
  PROVE  /\ Booted(r, gate) \in PaneRecs
         /\ Booted(r, gate).told = r.told
         /\ Booted(r, gate).sid = Given
         /\ Booted(r, gate).stuck = r.stuck
         /\ \A st \in {"shell", "agent", "closed"} : [r EXCEPT !.st = st] \in PaneRecs
         /\ [r EXCEPT !.gate = gate] \in PaneRecs
         /\ [r EXCEPT !.told = @ + 1] \in PaneRecs
         /\ [r EXCEPT !.stuck = TRUE] \in PaneRecs
<1>1. Booted(r, gate) \in PaneRecs
  BY DEF PaneRecs, Booted
<1>2. /\ Booted(r, gate).told = r.told /\ Booted(r, gate).sid = Given
      /\ Booted(r, gate).stuck = r.stuck
  BY DEF PaneRecs, Booted
<1>3. \A st \in {"shell", "agent", "closed"} : [r EXCEPT !.st = st] \in PaneRecs
  BY DEF PaneRecs
<1>4. [r EXCEPT !.gate = gate] \in PaneRecs
  BY DEF PaneRecs
<1>5. [r EXCEPT !.told = @ + 1] \in PaneRecs
  BY DEF PaneRecs
<1>6. [r EXCEPT !.stuck = TRUE] \in PaneRecs
  BY DEF PaneRecs
<1>7. QED
  BY <1>1, <1>2, <1>3, <1>4, <1>5, <1>6

LEMMA GivenTyped == ASSUME TypeOK PROVE Given \in Nat
  BY DEF TypeOK, RunRecs, Given

LEMMA BootMoves ==
  ASSUME TypeInv, At("start"), NEW gate \in {"none", "blocked", "hooks"}, Boot(gate)
  PROVE  Rewritten(run.pane, Booted(pane[run.pane], gate))
<1>1. run.pane \in Panes /\ pane[run.pane] \in PaneRecs
  BY PaneTyped DEF TypeInv, TypeOK, RunInv, InHand, At
<1>2. pane' = [pane EXCEPT ![run.pane] = Booted(pane[run.pane], gate)]
  BY DEF Boot, Booted
<1>3. QED
  BY <1>1, <1>2, GivenTyped, RecordTyped, RewritePane DEF TypeInv, TypeOK

LEMMA OneFieldMoves ==
  ASSUME TypeInv, NEW i \in Panes
  PROVE  /\ \A s \in {"shell", "agent", "closed"} :
              pane' = [pane EXCEPT ![i].st = s] => Rewritten(i, [pane[i] EXCEPT !.st = s])
         /\ pane' = [pane EXCEPT ![i].gate = "none"]
              => Rewritten(i, [pane[i] EXCEPT !.gate = "none"])
         /\ pane' = [pane EXCEPT ![i].told = @ + 1]
              => Rewritten(i, [pane[i] EXCEPT !.told = @ + 1])
         /\ pane' = [pane EXCEPT ![i].stuck = TRUE]
              => Rewritten(i, [pane[i] EXCEPT !.stuck = TRUE])
<1>1. pane[i] \in PaneRecs /\ pane \in Seq(PaneRecs)
  BY PaneTyped DEF TypeInv, TypeOK
<1>2. /\ \A s \in {"shell", "agent", "closed"} : [pane[i] EXCEPT !.st = s] \in PaneRecs
      /\ [pane[i] EXCEPT !.gate = "none"] \in PaneRecs
      /\ [pane[i] EXCEPT !.told = @ + 1] \in PaneRecs
      /\ [pane[i] EXCEPT !.stuck = TRUE] \in PaneRecs
  BY <1>1, RecordTyped, GivenTyped DEF TypeInv
<1>3. QED
  BY <1>1, <1>2, RewritePane

LEMMA SplitMoves ==
  ASSUME TypeInv, NEW r \in PaneRecs, pane' = Append(pane, r)
  PROVE  /\ pane' \in Seq(PaneRecs)
         /\ Len(pane') = Len(pane) + 1
         /\ Len(pane) \in Nat
         /\ \A j \in Panes : pane'[j] = pane[j]
         /\ pane'[Len(pane')] = r
  BY AppendProperties, LenProperties DEF TypeInv, TypeOK, Panes

\* The sequence as a whole after a step that replaces one record of it.
LEMMA RewrittenTyped ==
  ASSUME NEW i, NEW r, Rewritten(i, r)
  PROVE  pane' \in Seq(PaneRecs) /\ Panes' = Panes
  BY DEF Rewritten, Panes

(***************************************************************************)
(* The launcher's own record                                               *)
(***************************************************************************)
\* All of it but the named fields is as before.
LEMMA GotoMoves ==
  ASSUME run \in RunRecs, NEW pc \in Points, Goto(pc)
  PROVE  /\ run' \in RunRecs /\ run'.pc = pc
         /\ run'.n = run.n /\ run'.sid = run.sid /\ run'.spent = run.spent
         /\ run'.pane = run.pane /\ run'.prompts = run.prompts
         /\ run'.delivered = run.delivered /\ run'.retry = run.retry /\ run'.keep = run.keep
  BY DEF RunRecs, Goto

LEMMA FailMoves ==
  ASSUME run \in RunRecs, NEW retry \in BOOLEAN, NEW keep \in BOOLEAN, Fail(retry, keep)
  PROVE  /\ run' \in RunRecs /\ run'.pc = IF keep THEN "record" ELSE "close"
         /\ run'.n = run.n /\ run'.sid = run.sid /\ run'.spent = run.spent
         /\ run'.pane = run.pane /\ run'.prompts = run.prompts
         /\ run'.delivered = run.delivered /\ run'.retry = retry /\ run'.keep = keep
  BY DEF RunRecs, Fail, Points

LEMMA AgainMoves ==
  ASSUME run \in RunRecs, NEW left \in 0..MaxPrompts, PromptAgain(left)
  PROVE  /\ run' \in RunRecs /\ run'.prompts = left
         /\ run'.n = run.n /\ run'.sid = run.sid /\ run'.spent = run.spent
         /\ run'.pane = run.pane /\ run'.delivered = run.delivered
         /\ \/ left # 0 /\ run'.pc = "prompt" /\ run'.retry = run.retry /\ run'.keep = run.keep
            \/ left = 0 /\ run'.pc = "record" /\ ~run'.retry /\ run'.keep
  BY DEF RunRecs, PromptAgain, LastPrompt, Points

LEMMA BeginMoves ==
  ASSUME run \in RunRecs, LaunchAssumption, NEW sid \in Nat,
         run' = [run EXCEPT !.pc = "split", !.sid = sid, !.spent = @ \cup {sid},
                            !.pane = NoPane, !.prompts = MaxPrompts, !.delivered = FALSE]
  PROVE  /\ run' \in RunRecs /\ run'.pc = "split" /\ run'.pane = NoPane
         /\ run'.n = run.n /\ run'.sid = sid /\ run'.spent = run.spent \cup {sid}
         /\ run'.prompts = MaxPrompts /\ ~run'.delivered
         /\ run'.retry = run.retry /\ run'.keep = run.keep
<1>1. run.spent \cup {sid} \in SUBSET Nat /\ MaxPrompts \in 0..MaxPrompts /\ NoPane \in Nat
  BY DEF RunRecs, NoPane, LaunchAssumption
<1>2. QED
  BY <1>1 DEF RunRecs, Points

LEMMA SplitRunMoves ==
  ASSUME run \in RunRecs, NEW p \in Nat, run' = [run EXCEPT !.pc = "start", !.pane = p]
  PROVE  /\ run' \in RunRecs /\ run'.pc = "start" /\ run'.pane = p
         /\ run'.n = run.n /\ run'.sid = run.sid /\ run'.spent = run.spent
         /\ run'.prompts = run.prompts
         /\ run'.delivered = run.delivered /\ run'.retry = run.retry /\ run'.keep = run.keep
  BY DEF RunRecs, Points

LEMMA ReadMoves ==
  ASSUME run \in RunRecs, LaunchAssumption, run.prompts > 0,
         run' = [run EXCEPT !.pc = "read", !.prompts = @ - 1]
  PROVE  /\ run' \in RunRecs /\ run'.pc = "read"
         /\ run'.n = run.n /\ run'.sid = run.sid /\ run'.spent = run.spent
         /\ run'.pane = run.pane
         /\ run'.delivered = run.delivered /\ run'.retry = run.retry /\ run'.keep = run.keep
<1>1. run.prompts - 1 \in 0..MaxPrompts
  BY DEF RunRecs, LaunchAssumption
<1>2. QED
  BY <1>1 DEF RunRecs, Points

LEMMA ShownMoves ==
  ASSUME run \in RunRecs, run' = [run EXCEPT !.pc = "bind", !.delivered = TRUE]
  PROVE  /\ run' \in RunRecs /\ run'.pc = "bind" /\ run'.delivered
         /\ run'.n = run.n /\ run'.sid = run.sid /\ run'.spent = run.spent
         /\ run'.pane = run.pane /\ run'.prompts = run.prompts
         /\ run'.retry = run.retry /\ run'.keep = run.keep
  BY DEF RunRecs, Points

LEMMA RetryMoves ==
  ASSUME run \in RunRecs, LaunchAssumption, run.n < MaxAttempts,
         run' = [run EXCEPT !.pc = "attempt", !.n = @ + 1, !.retry = FALSE, !.keep = FALSE]
  PROVE  /\ run' \in RunRecs /\ run'.pc = "attempt"
         /\ run'.n = run.n + 1 /\ run'.sid = run.sid /\ run'.spent = run.spent
         /\ run'.pane = run.pane /\ run'.prompts = run.prompts
         /\ run'.delivered = run.delivered /\ ~run'.retry /\ ~run'.keep
<1>1. run.n + 1 \in 0..MaxAttempts
  BY DEF RunRecs, LaunchAssumption
<1>2. QED
  BY <1>1 DEF RunRecs, Points

LEMMA NoRunTyped ==
  ASSUME LaunchAssumption
  PROVE  /\ NoRun \in RunRecs /\ NoRun.pc = "idle" /\ NoRun.pane = NoPane
         /\ ~NoRun.delivered /\ ~NoRun.retry /\ ~NoRun.keep
  BY DEF RunRecs, Points, NoRun, NoPane, LaunchAssumption

LEMMA LaunchMoves ==
  ASSUME LaunchAssumption, NEW ids \in SUBSET Nat,
         run' = [NoRun EXCEPT !.pc = "attempt", !.n = 1, !.spent = ids]
  PROVE  /\ run' \in RunRecs /\ run'.pc = "attempt" /\ run'.pane = NoPane
         /\ run'.n = 1 /\ run'.spent = ids
         /\ ~run'.delivered /\ ~run'.retry /\ ~run'.keep
<1>1. 1 \in 0..MaxAttempts
  BY DEF LaunchAssumption
<1>2. QED
  BY <1>1, NoRunTyped DEF RunRecs, Points, NoPane, NoRun

LEMMA RotateMoves ==
  ASSUME inst \in InstRecs, minted \in Nat, Rotate \/ UNCHANGED <<inst, minted>>
  PROVE  /\ inst' \in InstRecs /\ minted' \in Nat
         /\ inst'.status = inst.status /\ inst'.pane = inst.pane
         /\ \/ inst'.sid = minted + 1 /\ minted' = minted + 1
            \/ inst'.sid = inst.sid /\ minted' = minted
  BY DEF InstRecs, Rotate

(***************************************************************************)
(* A step keeps the record's shape                                         *)
(***************************************************************************)
LEMMA ErrorKeeps ==
  ASSUME RunOK, NEW retry \in BOOLEAN, Error(retry), Panes \subseteq Panes'
  PROVE  RunOK'
<1>1. CASE run.delivered
  <2>1. Fail(FALSE, TRUE)
    BY <1>1 DEF Error
  <2>2. QED
    BY <1>1, <2>1, FailMoves DEF RunOK, RunInv, InHand
<1>2. CASE ~run.delivered
  <2>1. Fail(retry, FALSE)
    BY <1>2 DEF Error
  <2>2. QED
    BY <1>2, <2>1, FailMoves DEF RunOK, RunInv, InHand
<1>3. QED
  BY <1>1, <1>2

LEMMA AgainKeeps ==
  ASSUME RunOK, NEW left \in 0..MaxPrompts, PromptAgain(left), Panes' = Panes,
         At("prompt") \/ At("read"), LaunchAssumption
  PROVE  RunOK'
<1>1. run.pane \in Panes /\ ~run.delivered /\ ~run.keep /\ ~run.retry
  BY DEF RunOK, RunInv, InHand, At
<1>2. left # 0 => left > 0
  BY DEF LaunchAssumption
<1>3. QED
  BY <1>1, <1>2, AgainMoves DEF RunOK, RunInv, InHand

LEMMA RunStep ==
  ASSUME LaunchAssumption, TypeInv, Next
  PROVE  RunOK'
<1> USE LaunchAssumption
<1>0. RunOK /\ StoreOK
  BY TypeParts
<1>1. CASE Launch
  <2>1. Spent \in SUBSET Nat
    BY <1>0 DEF Spent, StoreOK
  <2>2. QED
    BY <1>1, <2>1, LaunchMoves DEF Launch, RunOK, RunInv, InHand, NoPane, Panes
<1>2. CASE BeginAttempt
  <2>1. inst'.sid \in Nat
    BY <1>0, <1>2, RotateMoves DEF BeginAttempt, StoreOK, InstRecs
  <2>2. ~run.keep /\ ~run.retry
    BY <1>0, <1>2 DEF BeginAttempt, RunOK, RunInv, At
  <2>3. /\ run' \in RunRecs /\ run'.pc = "split" /\ run'.pane = NoPane
        /\ run'.prompts = MaxPrompts /\ ~run'.delivered /\ ~run'.retry /\ ~run'.keep
    BY <1>0, <1>2, <2>1, <2>2, BeginMoves DEF BeginAttempt, RunOK
  <2>4. MaxPrompts > 0
    BY DEF LaunchAssumption
  <2>5. QED
    BY <2>3, <2>4 DEF RunOK, RunInv, InHand
<1>3. CASE SplitPane
  <2>1. NewPane \in PaneRecs
    BY DEF NewPane, PaneRecs
  <2>2. Len(pane') \in Panes' /\ Len(pane') \in Nat
    BY <1>3, <2>1, SplitMoves DEF SplitPane, Panes
  <2>3. ~run.keep /\ ~run.retry /\ ~run.delivered /\ run.prompts > 0
    BY <1>0, <1>3 DEF SplitPane, RunOK, RunInv, At
  <2>4. QED
    BY <1>0, <1>3, <2>2, <2>3, SplitRunMoves DEF SplitPane, RunOK, RunInv, InHand
<1>4. CASE SplitFails
  <2>1. [NewPane EXCEPT !.st = "closed"] \in PaneRecs /\ [NewPane EXCEPT !.stuck = TRUE] \in PaneRecs
    BY DEF NewPane, PaneRecs
  <2>2. Panes \subseteq Panes'
    BY <1>4, <2>1, SplitMoves DEF SplitFails, Panes
  <2>3. QED
    BY <1>0, <1>4, <2>2, ErrorKeeps DEF SplitFails
<1>5. CASE StartAgent
  <2>1. Panes' = Panes
    BY <1>5, BootMoves, RewrittenTyped DEF StartAgent
  <2>2. QED
    BY <1>0, <1>5, <2>1, GotoMoves DEF StartAgent, RunOK, RunInv, InHand, At, Points
<1>6. CASE StartGated
  <2>1. Panes' = Panes
    BY <1>6, BootMoves, RewrittenTyped DEF StartGated
  <2>2. QED
    BY <1>0, <1>6, <2>1, GotoMoves DEF StartGated, RunOK, RunInv, InHand, At, Points
<1>7. CASE StartFails
  <2>1. Panes' = Panes
    BY <1>7, BootMoves, RewrittenTyped DEF StartFails, Panes
  <2>2. QED
    BY <1>0, <1>7, <2>1, ErrorKeeps DEF StartFails
<1>8. CASE StartRefused
  BY <1>0, <1>8, ErrorKeeps DEF StartRefused, Panes
<1>9. CASE ClearGate
  <2>1. Panes' = Panes /\ run.pane \in Panes /\ ~run.keep /\ ~run.retry /\ ~run.delivered /\ run.prompts > 0
    BY <1>0, <1>9, OneFieldMoves, RewrittenTyped DEF ClearGate, RunOK, RunInv, InHand, At, Panes
  <2>2. CASE Fail(FALSE, TRUE)
    BY <1>0, <2>1, <2>2, FailMoves DEF RunOK, RunInv, InHand
  <2>3. CASE Goto("prompt")
    BY <1>0, <2>1, <2>3, GotoMoves DEF RunOK, RunInv, InHand, Points
  <2>4. QED
    BY <1>9, <2>2, <2>3 DEF ClearGate
<1>10. CASE GateFails
  BY <1>0, <1>10, ErrorKeeps DEF GateFails, Panes
<1>11. CASE AgentIsGone
  BY <1>0, <1>11, ErrorKeeps DEF AgentIsGone, Panes
<1>12. CASE PromptAccepted
  <2>1. Panes' = Panes /\ run.pane \in Panes /\ ~run.keep /\ ~run.retry /\ ~run.delivered /\ run.prompts > 0
    BY <1>0, <1>12, OneFieldMoves, RewrittenTyped
    DEF PromptAccepted, Tell, RunOK, RunInv, InHand, At
  <2>2. QED
    BY <1>0, <1>12, <2>1, ReadMoves DEF PromptAccepted, RunOK, RunInv, InHand
<1>13. CASE PromptDropped
  <2>1. Panes' = Panes /\ run.pane \in Panes /\ ~run.keep /\ ~run.retry /\ ~run.delivered /\ run.prompts > 0
    BY <1>0, <1>13 DEF PromptDropped, RunOK, RunInv, InHand, At, Panes
  <2>2. QED
    BY <1>0, <1>13, <2>1, ReadMoves DEF PromptDropped, RunOK, RunInv, InHand
<1>14. CASE PromptStalled
  <2>1. run.prompts - 1 \in 0..MaxPrompts
    BY <1>0, <1>14 DEF PromptStalled, RunOK, RunInv, RunRecs, At, LaunchAssumption
  <2>2. QED
    BY <1>0, <1>14, <2>1, AgainKeeps DEF PromptStalled, Panes
<1>15. CASE PromptAmbiguous
  <2>1. Panes' = Panes
    BY <1>0, <1>15, OneFieldMoves, RewrittenTyped
    DEF PromptAmbiguous, Tell, RunOK, RunInv, InHand, At, Panes
  <2>2. QED
    BY <1>0, <1>15, <2>1, ErrorKeeps DEF PromptAmbiguous, AbandonOnDoubt
<1>16. CASE PromptRefused
  BY <1>0, <1>16, ErrorKeeps DEF PromptRefused, Panes
<1>17. CASE ReadTranscript
  <2>1. run.pane \in Panes /\ ~run.keep /\ ~run.retry /\ Panes' = Panes /\ run.prompts \in 0..MaxPrompts
    BY <1>0, <1>17 DEF ReadTranscript, RunOK, RunInv, RunRecs, InHand, At, Panes
  <2>2. CASE run' = [run EXCEPT !.pc = "bind", !.delivered = TRUE]
    BY <1>0, <2>1, <2>2, ShownMoves DEF RunOK, RunInv, InHand
  <2>3. CASE PromptAgain(run.prompts)
    BY <1>0, <1>17, <2>1, <2>3, AgainKeeps DEF ReadTranscript
  <2>4. QED
    BY <1>17, <2>2, <2>3 DEF ReadTranscript
<1>18. CASE ReadFails
  BY <1>0, <1>18, ErrorKeeps DEF ReadFails, Panes
<1>19. CASE BindSession
  BY <1>0, <1>19, GotoMoves DEF BindSession, RunOK, RunInv, InHand, At, Panes, Points
<1>20. CASE BindFails
  BY <1>0, <1>20, ErrorKeeps DEF BindFails, Panes
<1>21. CASE CloseFailed
  <2>1. Panes' = Panes /\ ~run.delivered /\ ~run.keep
    BY <1>0, <1>21, OneFieldMoves, RewrittenTyped
    DEF CloseFailed, ClosesPane, RunOK, RunInv, At, Panes
  <2>2. QED
    BY <1>0, <1>21, <2>1, GotoMoves DEF CloseFailed, RunOK, RunInv, InHand, Points
<1>21a. CASE CloseRefused
  <2>1. Panes' = Panes /\ ~run.delivered /\ ~run.keep
    BY <1>0, <1>21a, OneFieldMoves, RewrittenTyped
    DEF CloseRefused, ClosesPane, RunOK, RunInv, At, Panes
  <2>2. QED
    BY <1>0, <1>21a, <2>1, GotoMoves DEF CloseRefused, RunOK, RunInv, InHand, Points
<1>22. CASE RecordFailure
  <2>1. Panes' = Panes
    BY <1>22 DEF RecordFailure, Panes
  <2>2. CASE MayRetry
    <3>1. ~run.delivered
      BY <1>0, <2>2 DEF MayRetry, RunOK, RunInv
    <3>2. QED
      BY <1>0, <1>22, <2>1, <2>2, <3>1, RetryMoves
      DEF RecordFailure, MayRetry, RunOK, RunInv, InHand
  <2>3. CASE ~MayRetry
    BY <1>22, <2>1, <2>3, NoRunTyped DEF RecordFailure, RunOK, RunInv, InHand
  <2>4. QED
    BY <2>2, <2>3
<1>23. CASE WriteReceipt
  BY <1>0, <1>23, GotoMoves DEF WriteReceipt, RunOK, RunInv, InHand, At, Panes, Points
<1>24. CASE UnlinkFailure
  BY <1>0, <1>24, GotoMoves DEF UnlinkFailure, RunOK, RunInv, InHand, At, Panes, Points
<1>25. CASE ConfirmOwn
  BY <1>25, NoRunTyped DEF ConfirmOwn, RunOK, RunInv, InHand
<1>26. CASE ConfirmFails
  BY <1>26, NoRunTyped DEF ConfirmFails, RunOK, RunInv, InHand
<1>27. CASE RepairConfirm
  BY <1>0, <1>27 DEF RepairConfirm, RunOK, RunInv, InHand, Panes
<1>28. CASE DisposePane
  <2>1. Panes' = Panes
    BY <1>28, OneFieldMoves, RewrittenTyped, <1>0 DEF DisposePane, StoreOK
  <2>2. QED
    BY <1>0, <1>28, <2>1 DEF DisposePane, RunOK, RunInv, InHand
<1>29. CASE Vanish
  <2>1. Panes' = Panes
    BY <1>0, <1>29, OneFieldMoves, RewrittenTyped DEF Vanish, RunOK, RunInv, InHand
  <2>2. QED
    BY <1>0, <1>29, <2>1 DEF Vanish, RunOK, RunInv, InHand
<1>30. CASE Crash
  BY <1>30, NoRunTyped DEF Crash, RunOK, RunInv, InHand
<1>31. QED
  BY <1>1, <1>2, <1>3, <1>4, <1>5, <1>6, <1>7, <1>8, <1>9, <1>10, <1>11, <1>12, <1>13, <1>14,
     <1>15, <1>16, <1>17, <1>18, <1>19, <1>20, <1>21, <1>21a, <1>22, <1>23, <1>24, <1>25, <1>26,
     <1>27, <1>28, <1>29, <1>30
  DEF Next, Launcher

LEMMA StoreStep ==
  ASSUME LaunchAssumption, TypeInv, Next
  PROVE  StoreOK'
<1> USE LaunchAssumption
<1>0. RunOK /\ StoreOK
  BY TypeParts
\* Every fault is counted once, and no further than MaxFaults.
<1>f. (Fault => faults' \in 0..MaxFaults) /\ (Fine => faults' = faults)
  BY <1>0 DEF Fault, Fine, StoreOK, LaunchAssumption
<1>1. CASE Launch
  BY <1>0, <1>1, RotateMoves DEF Launch, StoreOK, Panes
<1>2. CASE BeginAttempt
  BY <1>0, <1>2, RotateMoves DEF BeginAttempt, StoreOK, Panes
<1>3. CASE SplitPane
  <2>1. NewPane \in PaneRecs
    BY DEF NewPane, PaneRecs
  <2>2. pane' \in Seq(PaneRecs) /\ Panes \subseteq Panes'
    BY <1>3, <2>1, SplitMoves DEF SplitPane, Panes
  <2>3. QED
    BY <1>0, <1>f, <1>3, <2>2 DEF SplitPane, StoreOK
<1>4. CASE SplitFails
  <2>1. [NewPane EXCEPT !.st = "closed"] \in PaneRecs /\ [NewPane EXCEPT !.stuck = TRUE] \in PaneRecs
    BY DEF NewPane, PaneRecs
  <2>2. pane' \in Seq(PaneRecs) /\ Panes \subseteq Panes'
    BY <1>0, <1>4, <2>1, SplitMoves DEF SplitFails, StoreOK, Panes
  <2>3. QED
    BY <1>0, <1>f, <1>4, <2>2 DEF SplitFails, StoreOK
<1>5. CASE StartAgent
  <2>1. pane' \in Seq(PaneRecs) /\ Panes' = Panes /\ used' \subseteq Nat
    BY <1>0, <1>5, BootMoves, RewrittenTyped, GivenTyped
    DEF StartAgent, Boot, TypeInv, StoreOK, Panes
  <2>2. QED
    BY <1>0, <1>f, <1>5, <2>1 DEF StartAgent, StoreOK
<1>6. CASE StartGated
  <2>1. pane' \in Seq(PaneRecs) /\ Panes' = Panes /\ used' \subseteq Nat
    BY <1>0, <1>6, BootMoves, RewrittenTyped, GivenTyped
    DEF StartGated, Boot, TypeInv, StoreOK, Panes
  <2>2. QED
    BY <1>0, <1>f, <1>6, <2>1 DEF StartGated, StoreOK
<1>7. CASE StartFails
  <2>1. pane' \in Seq(PaneRecs) /\ Panes' = Panes /\ used' \subseteq Nat
    BY <1>0, <1>7, BootMoves, RewrittenTyped, GivenTyped
    DEF StartFails, Boot, TypeInv, StoreOK, Panes
  <2>2. QED
    BY <1>0, <1>f, <1>7, <2>1 DEF StartFails, StoreOK
<1>8. CASE StartRefused
  BY <1>0, <1>f, <1>8 DEF StartRefused, StoreOK, Panes
<1>9. CASE ClearGate
  <2>1. pane' \in Seq(PaneRecs) /\ Panes' = Panes
    BY <1>0, <1>9, OneFieldMoves, RewrittenTyped
    DEF ClearGate, RunOK, StoreOK, RunInv, InHand, At, Panes
  <2>2. QED
    BY <1>0, <1>f, <1>9, <2>1 DEF ClearGate, StoreOK
<1>10. CASE GateFails
  BY <1>0, <1>f, <1>10 DEF GateFails, StoreOK, Panes
<1>11. CASE AgentIsGone
  BY <1>0, <1>f, <1>11 DEF AgentIsGone, StoreOK, Panes
<1>12. CASE PromptAccepted
  <2>1. pane' \in Seq(PaneRecs) /\ Panes' = Panes
    BY <1>0, <1>12, OneFieldMoves, RewrittenTyped
    DEF PromptAccepted, Tell, RunOK, StoreOK, RunInv, InHand, At, Panes
  <2>2. QED
    BY <1>0, <1>f, <1>12, <2>1 DEF PromptAccepted, StoreOK
<1>13. CASE PromptDropped
  BY <1>0, <1>f, <1>13 DEF PromptDropped, StoreOK, Panes
<1>14. CASE PromptStalled
  BY <1>0, <1>f, <1>14 DEF PromptStalled, StoreOK, Panes
<1>15. CASE PromptAmbiguous
  <2>1. pane' \in Seq(PaneRecs) /\ Panes' = Panes
    BY <1>0, <1>15, OneFieldMoves, RewrittenTyped
    DEF PromptAmbiguous, Tell, RunOK, StoreOK, RunInv, InHand, At, Panes
  <2>2. QED
    BY <1>0, <1>f, <1>15, <2>1 DEF PromptAmbiguous, StoreOK
<1>16. CASE PromptRefused
  BY <1>0, <1>f, <1>16 DEF PromptRefused, StoreOK, Panes
<1>17. CASE ReadTranscript
  BY <1>0, <1>f, <1>17 DEF ReadTranscript, StoreOK, Panes
<1>18. CASE ReadFails
  BY <1>0, <1>f, <1>18 DEF ReadFails, StoreOK, Panes
<1>19. CASE BindSession
  BY <1>0, <1>f, <1>19 DEF BindSession, StoreOK, Panes
<1>20. CASE BindFails
  BY <1>0, <1>f, <1>20 DEF BindFails, StoreOK, Panes
<1>21. CASE CloseFailed
  <2>1. pane' \in Seq(PaneRecs) /\ Panes' = Panes
    BY <1>0, <1>21, OneFieldMoves, RewrittenTyped
    DEF CloseFailed, ClosesPane, RunOK, StoreOK, RunInv, InHand, At, Panes
  <2>2. QED
    BY <1>0, <1>f, <1>21, <2>1 DEF CloseFailed, StoreOK
<1>21a. CASE CloseRefused
  <2>1. pane' \in Seq(PaneRecs) /\ Panes' = Panes
    BY <1>0, <1>21a, OneFieldMoves, RewrittenTyped
    DEF CloseRefused, ClosesPane, RunOK, StoreOK, RunInv, InHand, At, Panes
  <2>2. QED
    BY <1>0, <1>f, <1>21a, <2>1 DEF CloseRefused, StoreOK
<1>22. CASE RecordFailure
  <2>1. run.keep => run.pane \in Panes
    BY <1>0 DEF RunOK, RunInv
  <2>2. run.spent \in SUBSET Nat
    BY <1>0 DEF RunOK, RunRecs
  <2>3. failure' \in [spent : SUBSET Nat, left : SUBSET Panes]
    BY <1>22, <2>1, <2>2 DEF RecordFailure
  <2>4. QED
    BY <1>0, <1>22, <2>3 DEF RecordFailure, StoreOK, Panes
<1>23. CASE WriteReceipt
  <2>1. pane[run.pane].sid \in Nat
    BY <1>0, <1>23, PaneTyped DEF WriteReceipt, At, PaneRecs, RunOK, RunInv, InHand, TypeInv
  <2>2. run.pane \in Nat
    BY <1>0 DEF RunOK, RunRecs
  <2>3. QED
    BY <1>0, <1>23, <2>1, <2>2 DEF WriteReceipt, LandedSession, StoreOK, Panes
<1>24. CASE UnlinkFailure
  <2>1. failure' \in [spent : SUBSET Nat, left : SUBSET Panes]
    BY <1>24 DEF UnlinkFailure, NoFailure
  <2>2. QED
    BY <1>0, <1>24, <2>1 DEF UnlinkFailure, StoreOK, Panes
<1>25. CASE ConfirmOwn
  <2>1. inst' \in InstRecs
    BY <1>0, <1>25 DEF ConfirmOwn, Confirm, StoreOK, InstRecs
  <2>2. QED
    BY <1>0, <1>25, <2>1 DEF ConfirmOwn, StoreOK, Panes
<1>26. CASE ConfirmFails
  BY <1>0, <1>f, <1>26 DEF ConfirmFails, StoreOK, Panes
<1>27. CASE RepairConfirm
  <2>1. inst' \in InstRecs
    BY <1>0, <1>27 DEF RepairConfirm, Confirm, StoreOK, InstRecs
  <2>2. QED
    BY <1>0, <1>27, <2>1 DEF RepairConfirm, StoreOK, Panes
<1>28. CASE DisposePane
  <2>1. pane' \in Seq(PaneRecs) /\ Panes' = Panes
    BY <1>0, <1>28, OneFieldMoves, RewrittenTyped
    DEF DisposePane, RunOK, StoreOK, RunInv, InHand, At, Panes
  <2>2. QED
    BY <1>0, <1>f, <1>28, <2>1 DEF DisposePane, StoreOK
<1>29. CASE Vanish
  <2>1. pane' \in Seq(PaneRecs) /\ Panes' = Panes
    BY <1>0, <1>29, OneFieldMoves, RewrittenTyped
    DEF Vanish, RunOK, StoreOK, RunInv, InHand, At, Panes
  <2>2. QED
    BY <1>0, <1>f, <1>29, <2>1 DEF Vanish, StoreOK
<1>30. CASE Crash
  BY <1>0, <1>f, <1>30 DEF Crash, StoreOK, Panes
<1>31. QED
  BY <1>1, <1>2, <1>3, <1>4, <1>5, <1>6, <1>7, <1>8, <1>9, <1>10, <1>11, <1>12, <1>13, <1>14,
     <1>15, <1>16, <1>17, <1>18, <1>19, <1>20, <1>21, <1>21a, <1>22, <1>23, <1>24, <1>25, <1>26,
     <1>27, <1>28, <1>29, <1>30
  DEF Next, Launcher

LEMMA TypeStep ==
  ASSUME LaunchAssumption, TypeInv, [Next]_vars
  PROVE  TypeInv'
<1>1. CASE Next
  BY <1>1, RunStep, StoreStep, TypeParts DEF TypeInv, TypeOK, RunOK, StoreOK
<1>2. CASE UNCHANGED vars
  BY <1>2 DEF vars, TypeInv, TypeOK, RunInv, Panes
<1>3. QED
  BY <1>1, <1>2

LEMMA TypeInit == ASSUME LaunchAssumption, Init PROVE TypeInv
<1>1. /\ kind \in Kinds /\ used \subseteq Nat /\ minted \in Nat /\ faults \in 0..MaxFaults
      /\ died \in Nat /\ refused \in Nat /\ pane \in Seq(PaneRecs)
      /\ receipt \in [pane : Nat, sid : Nat] /\ inst \in InstRecs
      /\ failure \in [spent : SUBSET Nat, left : SUBSET Panes]
  BY DEF Init, LaunchAssumption, InstRecs, NoReceipt, NoFailure, NoPane
<1>2. QED
  BY <1>1, NoRunTyped DEF Init, TypeInv, TypeOK, RunInv, InHand

\* Every record the launcher and its reruns leave has the shape its readers
\* expect (state.py: the instruction, the receipt and the failure record).
THEOREM TypeCorrect == Spec => []TypeOK
<1>1. Init => TypeInv
  BY TypeInit, LaunchAssumption
<1>2. TypeInv /\ [Next]_vars => TypeInv'
  BY TypeStep, LaunchAssumption
<1>3. TypeInv => TypeOK
  BY DEF TypeInv
<1>4. QED
  BY <1>1, <1>2, <1>3, PTL DEF Spec

(***************************************************************************)
(* What a step may do to a pane                                            *)
(***************************************************************************)
\* Panes are never forgotten; a session is given at the start only; a prompt
\* counts one more delivery; two actions close a pane; an agent comes up at the
\* start only; only the pane in hand is reopened; only a split opens one, for its
\* launcher or unknown to it; and a pane that could not be closed is marked for good.
PaneEffect ==
  /\ Panes \subseteq Panes'
  /\ \A j \in Panes :
       /\ pane'[j].sid = pane[j].sid \/ (j = run.pane /\ At("start"))
       /\ \/ pane'[j].told = pane[j].told
          \/ /\ j = run.pane /\ (PromptAccepted \/ PromptAmbiguous)
             /\ pane'[j].told = pane[j].told + 1
       /\ Open(j) /\ pane'[j].st = "closed" => DisposePane \/ (CloseFailed /\ j = run.pane)
       /\ pane'[j].st = "agent" => pane[j].st = "agent" \/ (j = run.pane /\ At("start"))
       /\ pane'[j].st # "closed" => Open(j) \/ (j = run.pane /\ run.pc \in InHand)
       /\ pane[j].stuck => pane'[j].stuck
  /\ \A j \in Panes' : j \notin Panes =>
       /\ j = Len(pane') /\ Len(pane') = Len(pane) + 1 /\ pane'[j].told = 0
       /\ pane'[j].st # "closed" => SplitPane \/ pane'[j].stuck

LEMMA SameEffect == ASSUME UNCHANGED pane PROVE PaneEffect
  BY DEF PaneEffect, Panes, Open

LEMMA SplitEffect ==
  ASSUME TypeInv, NEW r \in PaneRecs, r.told = 0, pane' = Append(pane, r),
         r.st # "closed" => SplitPane \/ r.stuck
  PROVE  PaneEffect
<1>1. /\ Len(pane') = Len(pane) + 1 /\ Len(pane) \in Nat
      /\ \A j \in Panes : pane'[j] = pane[j]
      /\ pane'[Len(pane')] = r
  BY SplitMoves
<1>2. Panes \subseteq Panes' /\ (\A j \in Panes' : j \notin Panes => j = Len(pane'))
  BY <1>1 DEF Panes
<1>3. QED
  BY <1>1, <1>2 DEF PaneEffect, Open

\* A rewritten record that keeps its session and its deliveries, and is not closed.
LEMMA RewriteEffect ==
  ASSUME NEW i \in Panes, NEW r, Rewritten(i, r), r.told = pane[i].told,
         r.sid = pane[i].sid \/ (i = run.pane /\ At("start")),
         r.st = "closed" /\ Open(i) => DisposePane \/ (CloseFailed /\ i = run.pane),
         r.st = "agent" => pane[i].st = "agent" \/ (i = run.pane /\ At("start")),
         r.st # "closed" => Open(i) \/ (i = run.pane /\ run.pc \in InHand),
         pane[i].stuck => r.stuck
  PROVE  PaneEffect
<1>1. Panes' = Panes /\ \A j \in Panes : pane'[j] = IF j = i THEN r ELSE pane[j]
  BY DEF Rewritten, Panes
<1>2. QED
  BY <1>1 DEF PaneEffect, Open

LEMMA TellEffect ==
  ASSUME TypeInv, Tell, run.pane \in Panes, There, PromptAccepted \/ PromptAmbiguous
  PROVE  PaneEffect /\ pane'[run.pane].told = pane[run.pane].told + 1
<1>1. Rewritten(run.pane, [pane[run.pane] EXCEPT !.told = @ + 1])
  BY OneFieldMoves DEF Tell
<1>2. pane[run.pane] \in PaneRecs
  BY PaneTyped DEF TypeInv
<1>3. /\ pane'[run.pane].told = pane[run.pane].told + 1
      /\ pane'[run.pane].sid = pane[run.pane].sid
      /\ pane'[run.pane].st = "agent"
      /\ pane'[run.pane].stuck = pane[run.pane].stuck
  BY <1>1, <1>2 DEF Rewritten, PaneRecs, There
<1>4. Panes' = Panes /\ \A j \in Panes : j # run.pane => pane'[j] = pane[j]
  BY <1>1 DEF Rewritten, Panes
<1>5. QED
  BY <1>3, <1>4 DEF PaneEffect, Open, There

LEMMA BootEffect ==
  ASSUME TypeInv, At("start"), NEW gate \in {"none", "blocked", "hooks"}, Boot(gate)
  PROVE  PaneEffect
<1>1. Rewritten(run.pane, Booted(pane[run.pane], gate))
  BY BootMoves
<1>2. run.pane \in Panes /\ pane[run.pane] \in PaneRecs
  BY PaneTyped DEF TypeInv, RunInv, InHand, At
<1>3. /\ Booted(pane[run.pane], gate).told = pane[run.pane].told
      /\ Booted(pane[run.pane], gate).stuck = pane[run.pane].stuck
  BY <1>2, GivenTyped, RecordTyped DEF TypeInv
<1>4. Booted(pane[run.pane], gate).st = "agent"
  BY <1>2 DEF Booted, PaneRecs
<1>5. QED
  BY <1>1, <1>2, <1>3, <1>4, RewriteEffect DEF At, InHand

\* One field of a record changes, and it is not the count of deliveries.
LEMMA FieldEffect ==
  ASSUME TypeInv, NEW i \in Panes,
         \/ pane' = [pane EXCEPT ![i].gate = "none"] /\ i = run.pane /\ run.pc \in InHand
         \/ pane' = [pane EXCEPT ![i].st = "shell"] /\ i = run.pane /\ run.pc \in InHand
         \/ pane' = [pane EXCEPT ![i].st = "closed"] /\ (DisposePane \/ (CloseFailed /\ i = run.pane))
         \/ pane' = [pane EXCEPT ![i].stuck = TRUE]
  PROVE  PaneEffect
<1>1. pane[i] \in PaneRecs
  BY PaneTyped DEF TypeInv
<1>2. CASE pane' = [pane EXCEPT ![i].gate = "none"] /\ i = run.pane /\ run.pc \in InHand
  <2>1. Rewritten(i, [pane[i] EXCEPT !.gate = "none"])
    BY <1>2, OneFieldMoves
  <2>2. QED
    BY <1>1, <1>2, <2>1, RewriteEffect DEF PaneRecs, Open
<1>3. CASE pane' = [pane EXCEPT ![i].st = "shell"] /\ i = run.pane /\ run.pc \in InHand
  <2>1. Rewritten(i, [pane[i] EXCEPT !.st = "shell"])
    BY <1>3, OneFieldMoves
  <2>2. QED
    BY <1>1, <1>3, <2>1, RewriteEffect DEF PaneRecs
<1>4. CASE pane' = [pane EXCEPT ![i].st = "closed"] /\ (DisposePane \/ (CloseFailed /\ i = run.pane))
  <2>1. Rewritten(i, [pane[i] EXCEPT !.st = "closed"])
    BY <1>4, OneFieldMoves
  <2>2. QED
    BY <1>1, <1>4, <2>1, RewriteEffect DEF PaneRecs
<1>5. CASE pane' = [pane EXCEPT ![i].stuck = TRUE]
  <2>1. Rewritten(i, [pane[i] EXCEPT !.stuck = TRUE])
    BY <1>5, OneFieldMoves
  <2>2. QED
    BY <1>1, <1>5, <2>1, RewriteEffect DEF PaneRecs, Open
<1>6. QED
  BY <1>2, <1>3, <1>4, <1>5

LEMMA PaneStep == ASSUME TypeInv, Next PROVE PaneEffect
<1>0. run.pc \in InHand => run.pane \in Panes
  BY DEF TypeInv, RunInv
<1>1. CASE Launch
  BY <1>1, SameEffect DEF Launch
<1>2. CASE BeginAttempt
  BY <1>2, SameEffect DEF BeginAttempt
<1>3. CASE SplitPane
  <2>1. NewPane \in PaneRecs /\ NewPane.told = 0
    BY DEF NewPane, PaneRecs
  <2>2. QED
    BY <1>3, <2>1, SplitEffect DEF SplitPane
<1>4. CASE SplitFails
  <2>1. /\ [NewPane EXCEPT !.st = "closed"] \in PaneRecs
        /\ [NewPane EXCEPT !.st = "closed"].told = 0
        /\ [NewPane EXCEPT !.st = "closed"].st = "closed"
        /\ [NewPane EXCEPT !.stuck = TRUE] \in PaneRecs
        /\ [NewPane EXCEPT !.stuck = TRUE].told = 0
        /\ [NewPane EXCEPT !.stuck = TRUE].stuck
    BY DEF NewPane, PaneRecs
  <2>2. QED
    BY <1>4, <2>1, SplitEffect, SameEffect DEF SplitFails
<1>5. CASE StartAgent
  BY <1>5, BootEffect DEF StartAgent
<1>6. CASE StartGated
  BY <1>6, BootEffect DEF StartGated
<1>7. CASE StartFails
  BY <1>7, BootEffect, SameEffect DEF StartFails
<1>8. CASE StartRefused
  BY <1>8, SameEffect DEF StartRefused
<1>9. CASE ClearGate
  BY <1>0, <1>9, FieldEffect, SameEffect DEF ClearGate, At, InHand
<1>10. CASE GateFails
  BY <1>10, SameEffect DEF GateFails
<1>11. CASE AgentIsGone
  BY <1>11, SameEffect DEF AgentIsGone
<1>12. CASE PromptAccepted
  BY <1>0, <1>12, TellEffect DEF PromptAccepted, At, InHand
<1>13. CASE PromptDropped
  BY <1>13, SameEffect DEF PromptDropped
<1>14. CASE PromptStalled
  BY <1>14, SameEffect DEF PromptStalled
<1>15. CASE PromptAmbiguous
  BY <1>0, <1>15, TellEffect, SameEffect DEF PromptAmbiguous, At, InHand
<1>16. CASE PromptRefused
  BY <1>16, SameEffect DEF PromptRefused
<1>17. CASE ReadTranscript
  BY <1>17, SameEffect DEF ReadTranscript
<1>18. CASE ReadFails
  BY <1>18, SameEffect DEF ReadFails
<1>19. CASE BindSession
  BY <1>19, SameEffect DEF BindSession
<1>20. CASE BindFails
  BY <1>20, SameEffect DEF BindFails
<1>21. CASE CloseFailed
  <2>1. CASE ClosesPane
    <3>1. run.pane \in Panes /\ pane' = [pane EXCEPT ![run.pane].st = "closed"]
      BY <1>21, <2>1 DEF CloseFailed, ClosesPane, TypeInv, TypeOK
    <3>2. QED
      BY <1>21, <3>1, FieldEffect
  <2>2. CASE ~ClosesPane
    BY <1>21, <2>2, SameEffect DEF CloseFailed
  <2>3. QED
    BY <2>1, <2>2
<1>21a. CASE CloseRefused
  <2>1. run.pane \in Panes /\ pane' = [pane EXCEPT ![run.pane].stuck = TRUE]
    BY <1>21a DEF CloseRefused, ClosesPane, TypeInv, TypeOK
  <2>2. QED
    BY <2>1, FieldEffect
<1>22. CASE RecordFailure
  BY <1>22, SameEffect DEF RecordFailure
<1>23. CASE WriteReceipt
  BY <1>23, SameEffect DEF WriteReceipt
<1>24. CASE UnlinkFailure
  BY <1>24, SameEffect DEF UnlinkFailure
<1>25. CASE ConfirmOwn
  BY <1>25, SameEffect DEF ConfirmOwn
<1>26. CASE ConfirmFails
  BY <1>26, SameEffect DEF ConfirmFails
<1>27. CASE RepairConfirm
  BY <1>27, SameEffect DEF RepairConfirm
<1>28. CASE DisposePane
  <2>1. PICK p \in failure.left : pane' = [pane EXCEPT ![p].st = "closed"]
    BY <1>28 DEF DisposePane
  <2>2. p \in Panes
    BY <2>1 DEF TypeInv, TypeOK
  <2>3. QED
    BY <1>28, <2>1, <2>2, FieldEffect
<1>29. CASE Vanish
  BY <1>0, <1>29, FieldEffect DEF Vanish, InHand
<1>30. CASE Crash
  BY <1>30, SameEffect DEF Crash
<1>31. QED
  BY <1>1, <1>2, <1>3, <1>4, <1>5, <1>6, <1>7, <1>8, <1>9, <1>10, <1>11, <1>12, <1>13, <1>14,
     <1>15, <1>16, <1>17, <1>18, <1>19, <1>20, <1>21, <1>21a, <1>22, <1>23, <1>24, <1>25, <1>26,
     <1>27, <1>28, <1>29, <1>30
  DEF Next, Launcher

(***************************************************************************)
(* What a step does to the launcher                                        *)
(***************************************************************************)
SameAttempt ==
  run'.n = run.n /\ run'.sid = run.sid /\ run'.spent = run.spent /\ run'.pane = run.pane

\* The actions that end an attempt by an error.
Errs ==
  \/ SplitFails \/ StartFails \/ StartRefused \/ GateFails \/ AgentIsGone
  \/ PromptAmbiguous \/ PromptRefused \/ ReadFails \/ BindFails

Begins ==
  \/ /\ Launch
     /\ run'.pc = "attempt" /\ run'.n = 1 /\ run'.pane = NoPane
  \/ /\ BeginAttempt
     /\ run'.pc = "split" /\ run'.n = run.n /\ run'.pane = NoPane
     /\ run'.sid = inst'.sid /\ inst'.sid \in run'.spent
  \/ /\ SplitPane
     /\ run'.pc = "start" /\ run'.pane = Len(pane')
     /\ run'.n = run.n /\ run'.sid = run.sid /\ run'.spent = run.spent

Goes ==
  /\ SameAttempt
  /\ \/ (StartAgent \/ StartGated) /\ run'.pc = "gate"
     \/ ClearGate /\ run'.pc \in {"prompt", "record"}
     \/ (PromptAccepted \/ PromptDropped) /\ run'.pc = "read"
     \/ PromptStalled /\ run'.pc \in {"prompt", "record"}
     \/ ReadTranscript /\ run'.pc = "bind" /\ pane[run.pane].told # 0
     \/ /\ ReadTranscript /\ run'.pc \in {"prompt", "record"}
        /\ ~Scrolls => pane[run.pane].told = 0
     \/ Errs /\ run'.pc \in {"close", "record"}
     \/ BindSession /\ run'.pc = "receipt"
     \/ (CloseFailed \/ CloseRefused) /\ run'.pc = "record"
     \/ WriteReceipt /\ run'.pc = "unlink"
     \/ UnlinkFailure /\ run'.pc = "confirm"

Ends ==
  \/ /\ RecordFailure
     /\ run'.pc = "attempt" /\ run'.n = run.n + 1 /\ run'.pane = run.pane
     /\ ~run.keep
  \/ (RecordFailure \/ ConfirmOwn \/ ConfirmFails \/ Crash) /\ run'.pc = "idle"
  \/ (RepairConfirm \/ DisposePane \/ Vanish) /\ UNCHANGED run

LEMMA ErrorMoves ==
  ASSUME run \in RunRecs, NEW retry \in BOOLEAN, Error(retry)
  PROVE  SameAttempt /\ run'.pc \in {"close", "record"}
  BY FailMoves DEF Error, SameAttempt

LEMMA RunEffect ==
  ASSUME LaunchAssumption, TypeInv, Next
  PROVE  Begins \/ Goes \/ Ends
<1> USE LaunchAssumption
<1>0. RunOK /\ StoreOK
  BY TypeParts
<1>1. CASE Launch
  <2>1. Spent \in SUBSET Nat
    BY <1>0 DEF Spent, StoreOK
  <2>2. QED
    BY <1>1, <2>1, LaunchMoves DEF Launch, Begins
<1>2. CASE BeginAttempt
  <2>1. inst'.sid \in Nat
    BY <1>0, <1>2, RotateMoves DEF BeginAttempt, StoreOK, InstRecs
  <2>2. /\ run'.pc = "split" /\ run'.n = run.n /\ run'.pane = NoPane
        /\ run'.sid = inst'.sid /\ run'.spent = run.spent \cup {inst'.sid}
    BY <1>0, <1>2, <2>1, BeginMoves DEF BeginAttempt, RunOK
  <2>3. QED
    BY <1>2, <2>2 DEF Begins
<1>3. CASE SplitPane
  <2>1. NewPane \in PaneRecs
    BY DEF NewPane, PaneRecs
  <2>2. Len(pane') \in Nat
    BY <1>3, <2>1, SplitMoves DEF SplitPane
  <2>3. QED
    BY <1>0, <1>3, <2>2, SplitRunMoves DEF SplitPane, RunOK, Begins
<1>4. CASE StartAgent \/ StartGated
  BY <1>0, <1>4, GotoMoves DEF StartAgent, StartGated, RunOK, Points, Goes, SameAttempt
<1>5. CASE ClearGate
  <2>1. CASE Fail(FALSE, TRUE)
    BY <1>0, <1>5, <2>1, FailMoves DEF RunOK, Goes, SameAttempt
  <2>2. CASE Goto("prompt")
    BY <1>0, <1>5, <2>2, GotoMoves DEF RunOK, Points, Goes, SameAttempt
  <2>3. QED
    BY <1>5, <2>1, <2>2 DEF ClearGate
<1>6. CASE PromptAccepted \/ PromptDropped
  <2>1. run.prompts > 0
    BY <1>0, <1>6 DEF PromptAccepted, PromptDropped, At, RunOK, RunInv
  <2>2. QED
    BY <1>0, <1>6, <2>1, ReadMoves DEF PromptAccepted, PromptDropped, RunOK, Goes, SameAttempt
<1>7. CASE PromptStalled
  <2>1. run.prompts - 1 \in 0..MaxPrompts
    BY <1>0, <1>7 DEF PromptStalled, RunOK, RunInv, RunRecs, At, LaunchAssumption
  <2>2. QED
    BY <1>0, <1>7, <2>1, AgainMoves DEF PromptStalled, RunOK, Goes, SameAttempt
<1>8. CASE ReadTranscript
  <2>1. PICK shown \in Transcript :
          IF shown THEN run' = [run EXCEPT !.pc = "bind", !.delivered = TRUE]
                   ELSE PromptAgain(run.prompts)
    BY <1>8 DEF ReadTranscript
  <2>2. /\ shown => pane[run.pane].told # 0
        /\ ~shown /\ ~Scrolls => pane[run.pane].told = 0
    BY <2>1 DEF Transcript
  <2>3. CASE shown
    BY <1>0, <1>8, <2>1, <2>2, <2>3, ShownMoves DEF RunOK, Goes, SameAttempt
  <2>4. CASE ~shown
    <3>1. run.prompts \in 0..MaxPrompts /\ run \in RunRecs
      BY <1>0 DEF RunOK, RunRecs
    <3>2. SameAttempt /\ run'.pc \in {"prompt", "record"}
      BY <2>1, <2>4, <3>1, AgainMoves DEF SameAttempt
    <3>3. QED
      BY <1>8, <2>2, <2>4, <3>2 DEF Goes
  <2>5. QED
    BY <2>3, <2>4
<1>9. CASE Errs
  <2>1. \E retry \in BOOLEAN : Error(retry)
    BY <1>9 DEF Errs, SplitFails, StartFails, StartRefused, GateFails, AgentIsGone,
                PromptAmbiguous, AbandonOnDoubt, PromptRefused, ReadFails, BindFails
  <2>2. QED
    BY <1>0, <1>9, <2>1, ErrorMoves DEF RunOK, Goes
<1>10. CASE BindSession \/ CloseFailed \/ CloseRefused \/ WriteReceipt \/ UnlinkFailure
  BY <1>0, <1>10, GotoMoves
  DEF BindSession, CloseFailed, CloseRefused, WriteReceipt, UnlinkFailure, RunOK, Points, Goes, SameAttempt
<1>11. CASE RecordFailure
  <2>1. CASE MayRetry
    BY <1>0, <1>11, <2>1, RetryMoves DEF RecordFailure, MayRetry, RunOK, RunInv, Ends
  <2>2. CASE ~MayRetry
    BY <1>11, <2>2, NoRunTyped DEF RecordFailure, Ends
  <2>3. QED
    BY <2>1, <2>2
<1>12. CASE ConfirmOwn \/ ConfirmFails \/ Crash
  BY <1>12, NoRunTyped DEF ConfirmOwn, ConfirmFails, Crash, Ends
<1>13. CASE RepairConfirm \/ DisposePane \/ Vanish
  BY <1>13 DEF RepairConfirm, DisposePane, Vanish, Ends
<1>14. QED
  BY <1>1, <1>2, <1>3, <1>4, <1>5, <1>6, <1>7, <1>8, <1>9, <1>10, <1>11, <1>12, <1>13
  DEF Next, Launcher, Errs

LEMMA RunMovesOfPrompt ==
  ASSUME LaunchAssumption, TypeInv, PromptAccepted \/ PromptAmbiguous
  PROVE  run.pc = "prompt" /\ run'.pc \in {"read", "close", "record"}
<1>1. RunOK
  BY TypeParts
<1>2. CASE PromptAccepted
  BY <1>1, <1>2, ReadMoves DEF PromptAccepted, At, RunOK, RunInv
<1>3. CASE PromptAmbiguous
  BY <1>1, <1>3, ErrorMoves DEF PromptAmbiguous, AbandonOnDoubt, At, RunOK
<1>4. QED
  BY <1>2, <1>3

(***************************************************************************)
(* A worker is told once                                                   *)
(***************************************************************************)
\* A pane the launcher has yet to prompt, or may prompt again, was not told.
Once ==
  /\ ToldOnce
  /\ run.pc \in {"start", "gate", "prompt"} => pane[run.pane].told = 0

LEMMA OnceStep ==
  ASSUME LaunchAssumption, ~Scrolls, TypeInv, Once, Next
  PROVE  Once'
<1> USE LaunchAssumption
<1>1. ToldOnce'
  <2>1. SUFFICES ASSUME NEW p \in Panes' PROVE pane'[p].told <= 1
    BY DEF ToldOnce
  <2>2. CASE p \notin Panes
    BY <2>2, PaneStep DEF PaneEffect
  <2>3. CASE p \in Panes
    BY <2>3, PaneStep DEF PaneEffect, Once, ToldOnce, PromptAccepted, PromptAmbiguous, At
  <2>4. QED
    BY <2>2, <2>3
<1>2. ASSUME run'.pc \in {"start", "gate", "prompt"} PROVE pane'[run'.pane].told = 0
  <2>1. \/ SplitPane /\ run'.pane = Len(pane')
        \/ /\ run'.pane = run.pane
           /\ \/ StartAgent \/ StartGated \/ ClearGate \/ PromptStalled
              \/ ReadTranscript /\ pane[run.pane].told = 0
        \/ Vanish /\ UNCHANGED run
    BY <1>2, RunEffect DEF Begins, Goes, Ends, SameAttempt, RepairConfirm, DisposePane, At
  <2>2. CASE SplitPane /\ run'.pane = Len(pane')
    <3>1. NewPane \in PaneRecs /\ NewPane.told = 0
      BY DEF NewPane, PaneRecs
    <3>2. QED
      BY <2>2, <3>1, SplitMoves DEF SplitPane
  <2>3. CASE \/ /\ run'.pane = run.pane
                /\ \/ StartAgent \/ StartGated \/ ClearGate \/ PromptStalled
                   \/ ReadTranscript /\ pane[run.pane].told = 0
             \/ Vanish /\ UNCHANGED run
    <3>1. run'.pane = run.pane /\ run.pane \in Panes /\ pane[run.pane].told = 0
      BY <1>2, <2>3
      DEF StartAgent, StartGated, ClearGate, PromptStalled, ReadTranscript, Vanish, At,
          TypeInv, RunInv, InHand, Once
    <3>2. ~PromptAccepted /\ ~PromptAmbiguous
      <4>1. ASSUME PromptAccepted \/ PromptAmbiguous PROVE FALSE
        <5>1. run.pc = "prompt" /\ run'.pc \in {"read", "close", "record"}
          BY <4>1, RunMovesOfPrompt
        <5>2. QED
          BY <1>2, <5>1
      <4>2. QED
        BY <4>1
    <3>3. QED
      BY <3>1, <3>2, PaneStep DEF PaneEffect
  <2>4. QED
    BY <2>1, <2>2, <2>3
<1>3. QED
  BY <1>1, <1>2 DEF Once

\* Where a delivered task can be read back, no worker is given it twice, by
\* retried prompts, new attempts or a launcher run again (prompt.py:63-76).
THEOREM ToldOnceAlways ==
  ASSUME ~Scrolls
  PROVE  Spec => []ToldOnce
<1>1. Init => Once
  BY DEF Init, Once, ToldOnce, Panes, NoRun
<1>2. TypeInv /\ Once /\ [Next]_vars => Once'
  <2>1. CASE UNCHANGED vars
    BY <2>1 DEF vars, Once, ToldOnce, Panes
  <2>2. QED
    BY <2>1, OnceStep, LaunchAssumption
<1>3. Init => TypeInv
  BY TypeInit, LaunchAssumption
<1>4. TypeInv /\ [Next]_vars => TypeInv'
  BY TypeStep, LaunchAssumption
<1>5. Once => ToldOnce
  BY DEF Once
<1>6. QED
  BY <1>1, <1>2, <1>3, <1>4, <1>5, PTL DEF Spec

(***************************************************************************)
(* The panes a person was told of, and the receipt's                       *)
(***************************************************************************)
\* While the launcher tries, no receipt is written and the pane in hand is
\* not one an earlier launcher left open.
Trying == {"split", "start", "gate", "prompt", "read", "bind", "receipt", "close", "record"}

Kept ==
  /\ run.pc \in Trying \cup {"attempt"} => receipt = NoReceipt /\ run.pane \notin failure.left
  /\ run.pc \in {"unlink", "confirm"} => receipt # NoReceipt

LEMMA NoPaneIsNone == ASSUME TypeInv PROVE NoPane \notin Panes /\ NoPane \notin failure.left
  BY DEF TypeInv, TypeOK, Panes, NoPane

LEMMA KeptStep ==
  ASSUME LaunchAssumption, TypeInv, Kept, Next
  PROVE  Kept'
<1> USE LaunchAssumption
<1>1. CASE Begins
  <2>1. CASE Launch /\ run'.pc = "attempt" /\ run'.pane = NoPane
    BY <2>1, NoPaneIsNone DEF Launch, Kept
  <2>2. CASE BeginAttempt /\ run'.pc = "split" /\ run'.pane = NoPane
    BY <2>2, NoPaneIsNone DEF BeginAttempt, At, Kept
  <2>3. CASE SplitPane /\ run'.pc = "start" /\ run'.pane = Len(pane')
    <3>1. NewPane \in PaneRecs
      BY DEF NewPane, PaneRecs
    <3>2. Len(pane') \notin Panes
      BY <2>3, <3>1, SplitMoves DEF SplitPane, Panes
    <3>3. Len(pane') \notin failure.left
      BY <3>2 DEF TypeInv, TypeOK
    <3>4. QED
      BY <2>3, <3>3 DEF SplitPane, At, Kept, Trying
  <2>4. QED
    BY <1>1, <2>1, <2>2, <2>3 DEF Begins
<1>2. CASE Goes
  <2>1. CASE WriteReceipt
    <3>1. run.pane \in Panes /\ run.pane # NoPane
      BY <2>1, NoPaneIsNone DEF WriteReceipt, At, TypeInv, RunInv, InHand
    <3>2. receipt' # NoReceipt
      BY <2>1, <3>1 DEF WriteReceipt, NoReceipt
    <3>3. run'.pc = "unlink"
      BY <2>1, <1>2 DEF Goes, WriteReceipt, At, StartAgent, StartGated, ClearGate, PromptAccepted,
         PromptDropped, PromptStalled, ReadTranscript, Errs, SplitFails, StartFails, StartRefused,
         GateFails, AgentIsGone, PromptAmbiguous, PromptRefused, ReadFails, BindFails, BindSession,
         CloseFailed, CloseRefused, UnlinkFailure
    <3>4. QED
      BY <3>2, <3>3 DEF Kept, Trying
  <2>2. CASE UnlinkFailure
    <3>1. run'.pc = "confirm"
      BY <2>2, <1>2 DEF Goes, WriteReceipt, At, StartAgent, StartGated, ClearGate, PromptAccepted,
         PromptDropped, PromptStalled, ReadTranscript, Errs, SplitFails, StartFails, StartRefused,
         GateFails, AgentIsGone, PromptAmbiguous, PromptRefused, ReadFails, BindFails, BindSession,
         CloseFailed, CloseRefused, UnlinkFailure
    <3>2. QED
      BY <2>2, <3>1 DEF UnlinkFailure, At, Kept, Trying
  <2>3. CASE ~WriteReceipt /\ ~UnlinkFailure
    <3>1. run.pc \in Trying /\ run'.pane = run.pane /\ run'.pc \in Trying
      BY <1>2, <2>3 DEF Goes, SameAttempt, Trying, At, StartAgent, StartGated, ClearGate,
         PromptAccepted, PromptDropped, PromptStalled, ReadTranscript, Errs, SplitFails, StartFails,
         StartRefused, GateFails, AgentIsGone, PromptAmbiguous, PromptRefused, ReadFails, BindFails,
         BindSession, CloseFailed, CloseRefused
    <3>2. UNCHANGED <<receipt, failure>>
      BY <1>2, <2>3 DEF Goes, StartAgent, StartGated, ClearGate,
         PromptAccepted, PromptDropped, PromptStalled, ReadTranscript, Errs, SplitFails, StartFails,
         StartRefused, GateFails, AgentIsGone, PromptAmbiguous, PromptRefused, ReadFails, BindFails,
         BindSession, CloseFailed, CloseRefused
    <3>3. QED
      BY <3>1, <3>2 DEF Kept, Trying
  <2>4. QED
    BY <2>1, <2>2, <2>3
<1>3. CASE Ends
  <2>1. CASE RecordFailure /\ run'.pc = "attempt" /\ ~run.keep
    BY <2>1 DEF RecordFailure, At, Kept, Trying
  <2>2. CASE run'.pc = "idle"
    BY <2>2 DEF Kept, Trying
  <2>3. CASE (RepairConfirm \/ DisposePane \/ Vanish) /\ UNCHANGED run
    BY <2>3 DEF RepairConfirm, DisposePane, Vanish, Kept
  <2>4. QED
    BY <1>3, <2>1, <2>2, <2>3 DEF Ends
<1>4. QED
  BY <1>1, <1>2, <1>3, RunEffect

LEMMA KeptAlways == Spec => [](TypeInv /\ Kept)
<1>1. Init => TypeInv
  BY TypeInit, LaunchAssumption
<1>2. Init => Kept
  BY DEF Init, Kept, Trying, NoRun
<1>3. TypeInv /\ [Next]_vars => TypeInv'
  BY TypeStep, LaunchAssumption
<1>4. TypeInv /\ Kept /\ [Next]_vars => Kept'
  <2>1. CASE UNCHANGED vars
    BY <2>1 DEF vars, Kept
  <2>2. QED
    BY <2>1, KeptStep, LaunchAssumption
<1>5. QED
  BY <1>1, <1>2, <1>3, <1>4, PTL DEF Spec

\* Neither the worker confirmed to have the task, nor a pane a person was told
\* is left open, nor the receipt's pane is ever closed by a launcher, whatever
\* fails and wherever launchers die (__init__.py:236-262).
THEOREM HeldPaneStandsAlways == Spec => HeldPaneStands
<1> DEFINE Stands == \A p \in Held : Open(p) /\ pane'[p].st = "closed" => UNCHANGED run
<1>1. TypeInv /\ Kept /\ [Next]_vars => [Stands]_vars
  <2>1. SUFFICES ASSUME TypeInv, Kept, Next,
                        NEW p \in Held, Open(p), pane'[p].st = "closed"
                 PROVE  UNCHANGED run
    OBVIOUS
  <2>2. p \in Panes
    BY DEF Held
  <2>3. DisposePane \/ (CloseFailed /\ p = run.pane)
    BY <2>1, <2>2, PaneStep DEF PaneEffect
  <2>4. ~(CloseFailed /\ p = run.pane)
    <3>1. SUFFICES ASSUME CloseFailed, p = run.pane PROVE FALSE
      OBVIOUS
    <3>2. run.pc = "close" /\ ~run.delivered /\ receipt = NoReceipt /\ run.pane \notin failure.left
      BY <2>1, <3>1 DEF CloseFailed, At, TypeInv, RunInv, Kept, Trying
    <3>3. receipt.pane = NoPane
      BY <3>2 DEF NoReceipt
    <3>4. QED
      BY <2>1, <2>2, <3>1, <3>2, <3>3, NoPaneIsNone DEF Held
  <2>5. QED
    BY <2>3, <2>4 DEF DisposePane
<1>2. QED
  BY <1>1, KeptAlways, PTL DEF Spec, HeldPaneStands

(***************************************************************************)
(* The receipt names a pane whose worker has the task                      *)
(***************************************************************************)
Landed ==
  /\ receipt # NoReceipt =>
       receipt.pane \in Panes /\ pane[receipt.pane].told > 0 /\ pane[receipt.pane].sid = receipt.sid
  /\ run.pc \in {"bind", "receipt"} => pane[run.pane].told > 0
  /\ inst.status = "in-progress" =>
       receipt # NoReceipt /\ inst.pane = receipt.pane /\ inst.sid = receipt.sid

\* Who writes the receipt, and who writes the instruction.
LEMMA Writers ==
  ASSUME Next
  PROVE  /\ WriteReceipt \/ UNCHANGED receipt
         /\ Launch \/ BeginAttempt \/ ConfirmOwn \/ RepairConfirm \/ UNCHANGED inst
  BY DEF Next, Launcher, Launch, BeginAttempt, SplitPane, SplitFails, StartAgent, StartGated,
      StartFails, StartRefused, ClearGate, GateFails, AgentIsGone, PromptAccepted,
      PromptDropped, PromptStalled, PromptAmbiguous, PromptRefused, ReadTranscript, ReadFails,
      BindSession, BindFails, CloseFailed, CloseRefused, RecordFailure, WriteReceipt, UnlinkFailure,
      ConfirmOwn, ConfirmFails, RepairConfirm, DisposePane, Vanish, Crash

LEMMA ToldTyped ==
  ASSUME TypeInv, NEW p \in Panes
  PROVE  pane[p].told \in Nat /\ pane[p].sid \in Nat
  BY PaneTyped DEF TypeInv, PaneRecs

LEMMA LandedStep ==
  ASSUME LaunchAssumption, TypeInv, Kept, Landed, Next
  PROVE  Landed'
<1> USE LaunchAssumption
<1>1. ASSUME receipt' # NoReceipt
      PROVE  /\ receipt'.pane \in Panes'
             /\ pane'[receipt'.pane].told > 0
             /\ pane'[receipt'.pane].sid = receipt'.sid
  <2>1. CASE WriteReceipt
    <3>1. /\ run.pane \in Panes /\ pane[run.pane].told > 0 /\ UNCHANGED pane
          /\ receipt' = [pane |-> run.pane, sid |-> pane[run.pane].sid]
      BY <2>1 DEF WriteReceipt, LandedSession, At, TypeInv, RunInv, InHand, Landed
    <3>2. QED
      BY <3>1 DEF Panes
  <2>2. CASE UNCHANGED receipt
    <3>1. /\ receipt.pane \in Panes /\ pane[receipt.pane].told > 0
          /\ pane[receipt.pane].sid = receipt.sid /\ ~At("start")
      BY <1>1, <2>2 DEF Landed, Kept, Trying, At
    <3>2. /\ receipt.pane \in Panes' /\ pane'[receipt.pane].sid = pane[receipt.pane].sid
          /\ \/ pane'[receipt.pane].told = pane[receipt.pane].told
             \/ pane'[receipt.pane].told = pane[receipt.pane].told + 1
      BY <3>1, PaneStep DEF PaneEffect
    <3>3. pane[receipt.pane].told \in Nat
      BY <3>1, ToldTyped
    <3>4. QED
      BY <2>2, <3>1, <3>2, <3>3
  <2>3. QED
    BY <2>1, <2>2, Writers
<1>2. ASSUME run'.pc \in {"bind", "receipt"}
      PROVE  pane'[run'.pane].told > 0
  <2>1. \/ ReadTranscript /\ run'.pane = run.pane /\ pane[run.pane].told # 0
        \/ BindSession /\ run'.pane = run.pane
        \/ Vanish /\ UNCHANGED run
    BY <1>2, RunEffect DEF Begins, Goes, Ends, SameAttempt, RepairConfirm, DisposePane, At
  <2>2. run'.pane = run.pane /\ run.pane \in Panes /\ pane[run.pane].told # 0
    BY <1>2, <2>1 DEF ReadTranscript, BindSession, At, TypeInv, RunInv, InHand, Landed
  <2>3. \/ pane'[run.pane].told = pane[run.pane].told
        \/ pane'[run.pane].told = pane[run.pane].told + 1
    BY <2>2, PaneStep DEF PaneEffect
  <2>4. QED
    BY <2>2, <2>3, ToldTyped
<1>3. ASSUME inst'.status = "in-progress"
      PROVE  receipt' # NoReceipt /\ inst'.pane = receipt'.pane /\ inst'.sid = receipt'.sid
  <2>1. CASE Launch \/ BeginAttempt
    <3>1. inst.status = "in-progress"
      BY <1>3, <2>1, RotateMoves DEF Launch, BeginAttempt, TypeInv, TypeOK
    <3>2. receipt = NoReceipt
      BY <2>1 DEF Launch, BeginAttempt, At, Kept
    <3>3. QED
      BY <3>1, <3>2 DEF Landed
  <2>2. CASE ConfirmOwn \/ RepairConfirm
    BY <2>2 DEF ConfirmOwn, RepairConfirm, Confirm, Confirmable
  <2>3. CASE UNCHANGED inst
    <3>1. receipt # NoReceipt /\ inst.pane = receipt.pane /\ inst.sid = receipt.sid
      BY <1>3, <2>3 DEF Landed
    <3>2. ~WriteReceipt
      BY <3>1 DEF WriteReceipt, At, Kept, Trying
    <3>3. QED
      BY <2>3, <3>1, <3>2, Writers
  <2>4. QED
    BY <2>1, <2>2, <2>3, Writers
<1>4. QED
  BY <1>1, <1>2, <1>3 DEF Landed

\* A dispatch in progress names a pane that was given the task, and the
\* session its agent was started under, wherever the launcher and its reruns
\* failed before (__init__.py:312-315, state.py:404-498).
THEOREM BoundToItsWorkerAlways == Spec => []BoundToItsWorker
<1>1. Init => Landed
  BY DEF Init, Landed, NoRun
<1>2. TypeInv /\ Kept /\ Landed /\ [Next]_vars => Landed'
  <2>1. CASE UNCHANGED vars
    BY <2>1 DEF vars, Landed, Panes
  <2>2. QED
    BY <2>1, LandedStep, LaunchAssumption
<1>3. Landed => BoundToItsWorker
  BY DEF Landed, BoundToItsWorker
<1>4. QED
  BY <1>1, <1>2, <1>3, KeptAlways, PTL DEF Spec

(***************************************************************************)
(* A session id is started twice only across a launcher's death            *)
(***************************************************************************)
\* The next agent the launcher starts would be refused for its id.
Primed ==
  /\ kind = "claude" /\ receipt = NoReceipt /\ inst.sid \in used
  /\ \/ At("idle") /\ inst.sid \notin failure.spent
     \/ run.pc \in {"attempt", "close", "record"} /\ run.pane = NoPane
     \/ run.pc \in {"split", "start"}

Sessions ==
  /\ kind = "claude" => inst.sid <= minted
  /\ used \subseteq 0..minted
  /\ run.pc \in Trying => run.sid = inst.sid /\ run.sid \in run.spent
  /\ run.pc \in Trying \cup {"attempt"} => run.n >= 1
  /\ run.pc = "attempt" /\ run.n = 1 => run.pane = NoPane
  /\ run.pc = "split" => run.pane = NoPane
  /\ refused <= died
  /\ Primed => refused < died

LEMMA OtherWriters ==
  ASSUME Next
  PROVE  /\ UNCHANGED kind
         /\ StartRefused \/ UNCHANGED refused
         /\ Crash \/ UNCHANGED died
         /\ StartAgent \/ StartGated \/ StartFails \/ UNCHANGED used
         /\ Launch \/ BeginAttempt \/ UNCHANGED minted
         /\ RecordFailure \/ UnlinkFailure \/ UNCHANGED failure
  BY DEF Next, Launcher, Launch, BeginAttempt, SplitPane, SplitFails, StartAgent, StartGated,
      StartFails, StartRefused, ClearGate, GateFails, AgentIsGone, PromptAccepted,
      PromptDropped, PromptStalled, PromptAmbiguous, PromptRefused, ReadTranscript, ReadFails,
      BindSession, BindFails, CloseFailed, CloseRefused, RecordFailure, WriteReceipt, UnlinkFailure,
      ConfirmOwn, ConfirmFails, RepairConfirm, DisposePane, Vanish, Crash

\* A generated id is new, and an agent started is given one of those generated.
LEMMA IdsStep ==
  ASSUME LaunchAssumption, TypeInv, Kept, Sessions, Next
  PROVE  /\ kind' = "claude" => inst'.sid <= minted'
         /\ used' \subseteq 0..minted'
         /\ minted \in Nat /\ minted' \in Nat /\ minted <= minted'
<1>1. minted \in Nat /\ inst \in InstRecs /\ inst.sid \in Nat
  BY DEF TypeInv, TypeOK, InstRecs
<1>2. minted' \in Nat /\ minted <= minted'
  <2>1. CASE Launch \/ BeginAttempt
    BY <1>1, <2>1, RotateMoves DEF Launch, BeginAttempt
  <2>2. CASE UNCHANGED minted
    BY <1>1, <2>2
  <2>3. QED
    BY <2>1, <2>2, OtherWriters
<1>3. used' \subseteq 0..minted'
  <2>1. CASE UNCHANGED used
    BY <1>1, <1>2, <2>1 DEF Sessions
  <2>2. CASE StartAgent \/ StartGated \/ StartFails
    <3>1. Given \in 0..minted
      BY <1>1, <2>2, GivenTyped
      DEF StartAgent, StartGated, StartFails, At, Sessions, Trying, Given, TypeInv
    <3>2. used' \subseteq used \cup {Given}
      BY <2>2 DEF StartAgent, StartGated, StartFails, Boot
    <3>3. QED
      BY <1>1, <1>2, <3>1, <3>2 DEF Sessions
  <2>3. QED
    BY <2>1, <2>2, OtherWriters
<1>4. ASSUME kind' = "claude" PROVE inst'.sid <= minted'
  <2>0. kind = "claude"
    BY <1>4, OtherWriters
  <2>1. CASE Launch \/ BeginAttempt
    BY <1>1, <2>0, <2>1, RotateMoves DEF Launch, BeginAttempt, Sessions
  <2>2. CASE ConfirmOwn \/ RepairConfirm
    BY <1>1, <1>2, <2>0, <2>2 DEF ConfirmOwn, RepairConfirm, Confirm, Confirmable, Sessions
  <2>3. CASE UNCHANGED inst
    BY <1>1, <1>2, <2>0, <2>3 DEF Sessions
  <2>4. QED
    BY <2>1, <2>2, <2>3, Writers
<1>5. QED
  BY <1>1, <1>2, <1>3, <1>4

\* A landed launch primes nothing.
LEMMA ReceiptStays ==
  ASSUME TypeInv, Next, receipt' = NoReceipt
  PROVE  receipt = NoReceipt
<1>1. ~WriteReceipt
  BY NoPaneIsNone DEF WriteReceipt, NoReceipt, At, TypeInv, RunInv, InHand
<1>2. QED
  BY <1>1, Writers

LEMMA RotatedIsNew ==
  ASSUME TypeInv, Sessions, Rotate
  PROVE  inst'.sid \notin used
<1>1. minted \in Nat /\ inst \in InstRecs
  BY DEF TypeInv, TypeOK
<1>2. inst'.sid = minted + 1
  BY <1>1 DEF Rotate, InstRecs
<1>3. QED
  BY <1>1, <1>2 DEF Sessions

LEMMA PrimedStep ==
  ASSUME LaunchAssumption, TypeInv, Kept, Sessions, Next, ~Crash, ~StartRefused, Primed'
  PROVE  Primed
<1> USE LaunchAssumption
<1>1. kind = "claude" /\ receipt = NoReceipt /\ inst'.sid \in used'
  BY ReceiptStays, OtherWriters DEF Primed
<1>2. CASE Launch
  <2>1. UNCHANGED <<inst, used, failure>> /\ inst.sid \notin failure.spent
    BY <1>1, <1>2, RotatedIsNew DEF Launch, Spent
  <2>2. QED
    BY <1>1, <1>2, <2>1 DEF Launch, Primed
<1>3. CASE BeginAttempt
  <2>1. UNCHANGED <<inst, used>> /\ (run.n > 1 => run.pane = NoPane)
    BY <1>1, <1>3, RotatedIsNew DEF BeginAttempt, NeedsFreshSession
  <2>2. run.n \in Nat /\ run.n >= 1 /\ (run.n = 1 => run.pane = NoPane)
    BY <1>3 DEF BeginAttempt, At, Sessions, TypeInv, TypeOK, RunRecs, LaunchAssumption
  <2>3. run.pane = NoPane
    BY <2>1, <2>2
  <2>4. QED
    BY <1>1, <1>3, <2>1, <2>3 DEF BeginAttempt, Primed, At
<1>4. CASE SplitPane
  BY <1>1, <1>4 DEF SplitPane, Primed, At
<1>5. CASE Goes
  <2>1. run'.pc \in {"close", "record"} /\ run'.pane = NoPane
    BY <1>5 DEF Goes, Primed, At
  <2>2. run.pane = NoPane /\ run.pc \notin InHand
    BY <1>5, <2>1, NoPaneIsNone DEF Goes, SameAttempt, TypeInv, RunInv
  <2>3. SplitFails \/ CloseFailed \/ CloseRefused
    BY <1>5, <2>1, <2>2
    DEF Goes, InHand, At, StartAgent, StartGated, ClearGate, PromptAccepted, PromptDropped,
        PromptStalled, ReadTranscript, Errs, StartFails, StartRefused, GateFails, AgentIsGone,
        PromptAmbiguous, PromptRefused, ReadFails, BindFails, BindSession, WriteReceipt,
        UnlinkFailure
  <2>4. UNCHANGED <<inst, used>> /\ run.pc \in {"split", "close"}
    BY <2>3 DEF SplitFails, CloseFailed, CloseRefused, At
  <2>5. QED
    BY <1>1, <2>2, <2>4 DEF Primed
<1>6. CASE Ends
  <2>1. CASE RecordFailure /\ run'.pc = "attempt" /\ run'.pane = run.pane
    BY <1>1, <2>1 DEF RecordFailure, Primed, At
  <2>2. CASE RecordFailure /\ run'.pc = "idle"
    <3>1. inst'.sid \in failure'.spent
      BY <2>2 DEF RecordFailure, At, Sessions, Trying
    <3>2. QED
      BY <2>2, <3>1 DEF Primed, At
  <2>3. CASE ConfirmOwn \/ ConfirmFails \/ RepairConfirm
    BY <1>1, <2>3 DEF ConfirmOwn, ConfirmFails, RepairConfirm, Confirm, Confirmable, At, Kept
  <2>4. CASE DisposePane \/ Vanish
    BY <1>1, <2>4 DEF DisposePane, Vanish, Primed, At
  <2>5. QED
    BY <1>6, <2>1, <2>2, <2>3, <2>4 DEF Ends
<1>7. QED
  BY <1>2, <1>3, <1>4, <1>5, <1>6, RunEffect DEF Begins

\* The attempt under way works on the instruction's id, and has noted it.
LEMMA AttemptStep ==
  ASSUME LaunchAssumption, TypeInv, Kept, Sessions, Next
  PROVE  /\ run'.pc \in Trying => run'.sid = inst'.sid /\ run'.sid \in run'.spent
         /\ run'.pc \in Trying \cup {"attempt"} => run'.n >= 1
         /\ run'.pc = "attempt" /\ run'.n = 1 => run'.pane = NoPane
         /\ run'.pc = "split" => run'.pane = NoPane
<1> USE LaunchAssumption
<1>0. run.n \in Nat
  BY DEF TypeInv, TypeOK, RunRecs, LaunchAssumption
<1>1. CASE Begins
  <2>1. CASE Launch /\ run'.pc = "attempt" /\ run'.n = 1 /\ run'.pane = NoPane
    BY <2>1 DEF Trying
  <2>2. CASE BeginAttempt /\ run'.pc = "split" /\ run'.n = run.n /\ run'.pane = NoPane
             /\ run'.sid = inst'.sid /\ inst'.sid \in run'.spent
    BY <2>2 DEF BeginAttempt, At, Sessions
  <2>3. CASE SplitPane /\ run'.pc = "start" /\ run'.n = run.n /\ run'.sid = run.sid
             /\ run'.spent = run.spent
    BY <2>3 DEF SplitPane, At, Sessions, Trying
  <2>4. QED
    BY <1>1, <2>1, <2>2, <2>3 DEF Begins
<1>2. CASE Goes
  <2>1. run'.pc \notin {"attempt", "split"} /\ SameAttempt
    BY <1>2 DEF Goes
  <2>2. CASE run'.pc \in Trying
    <3>1. run.pc \in Trying /\ UNCHANGED inst
      BY <1>2, <2>2
      DEF Goes, Trying, At, StartAgent, StartGated, ClearGate, PromptAccepted, PromptDropped,
          PromptStalled, ReadTranscript, Errs, SplitFails, StartFails, StartRefused, GateFails,
          AgentIsGone, PromptAmbiguous, PromptRefused, ReadFails, BindFails, BindSession,
          CloseFailed, CloseRefused
    <3>2. QED
      BY <2>1, <3>1 DEF SameAttempt, Sessions
  <2>3. QED
    BY <2>1, <2>2
<1>3. CASE Ends
  <2>1. CASE RecordFailure /\ run'.pc = "attempt" /\ run'.n = run.n + 1
    BY <1>0, <2>1 DEF RecordFailure, At, Sessions, Trying
  <2>2. CASE run'.pc = "idle"
    BY <2>2 DEF Trying
  <2>3. CASE (RepairConfirm \/ DisposePane \/ Vanish) /\ UNCHANGED run
    BY <2>3 DEF RepairConfirm, DisposePane, Vanish, At, Sessions, Trying
  <2>4. QED
    BY <1>3, <2>1, <2>2, <2>3 DEF Ends
<1>4. QED
  BY <1>1, <1>2, <1>3, RunEffect

LEMMA SessionsStep ==
  ASSUME LaunchAssumption, TypeInv, Kept, Sessions, Next
  PROVE  Sessions'
<1>0. refused \in Nat /\ died \in Nat
  BY DEF TypeInv, TypeOK
<1>1. refused' <= died' /\ (Primed' => refused' < died')
  <2>1. CASE Crash
    BY <1>0, <2>1 DEF Crash, Sessions
  <2>2. CASE StartRefused
    <3>1. Primed /\ run.pane # NoPane
      BY <2>2, NoPaneIsNone
      DEF StartRefused, Refusable, Given, At, Primed, Sessions, Kept, Trying, TypeInv, RunInv, InHand
    <3>2. run'.pc \in {"close", "record"} /\ run'.pane # NoPane
      BY <2>2, <3>1, ErrorMoves DEF StartRefused, SameAttempt, TypeInv, TypeOK
    <3>3. ~Primed'
      BY <3>2 DEF Primed, At
    <3>4. QED
      BY <1>0, <2>2, <3>1, <3>3 DEF StartRefused, Sessions
  <2>3. CASE ~Crash /\ ~StartRefused
    BY <2>3, PrimedStep, OtherWriters DEF Sessions
  <2>4. QED
    BY <2>1, <2>2, <2>3
<1>2. QED
  BY <1>1, IdsStep, AttemptStep DEF Sessions

\* The provider refuses an agent for an id it has seen at most once for every
\* launcher that was killed: the reruns and the retries never hand out an id
\* that was spent and recorded (retry.py:67-76, 121-161).
THEOREM RefusalsAreDeathsAlways == Spec => []RefusalsAreDeaths
<1>1. Init => Sessions
  BY DEF Init, Sessions, NoRun, NoFailure, Primed, Trying
<1>2. TypeInv /\ Kept /\ Sessions /\ [Next]_vars => Sessions'
  <2>1. CASE UNCHANGED vars
    BY <2>1 DEF vars, Sessions, Primed, At
  <2>2. QED
    BY <2>1, SessionsStep, LaunchAssumption
<1>3. Sessions => RefusalsAreDeaths
  BY DEF Sessions, RefusalsAreDeaths
<1>4. QED
  BY <1>1, <1>2, <1>3, KeptAlways, PTL DEF Spec

(***************************************************************************)
(* A launch that landed can be confirmed                                   *)
(***************************************************************************)
\* From its start to its receipt, Claude's agent runs under the attempt's session.
Fitting ==
  /\ run.pc \in {"gate", "prompt", "read", "bind", "receipt"} /\ kind = "claude" =>
       pane[run.pane].sid = run.sid
  /\ ReceiptConfirms

LEMMA AgentFits ==
  ASSUME LaunchAssumption, TypeInv, Fitting, Next, kind = "claude",
         run'.pc \in {"gate", "prompt", "read", "bind", "receipt"}
  PROVE  pane'[run'.pane].sid = run'.sid
<1> USE LaunchAssumption
<1>1. /\ run'.sid = run.sid /\ run'.pane = run.pane
      /\ \/ StartAgent \/ StartGated
         \/ run.pc \in {"gate", "prompt", "read", "bind", "receipt"}
  BY RunEffect DEF Begins, Goes, Ends, SameAttempt, Errs, StartAgent, StartGated, ClearGate,
      PromptAccepted, PromptDropped, PromptStalled, ReadTranscript, BindSession, CloseFailed, CloseRefused,
      WriteReceipt, UnlinkFailure, RepairConfirm, DisposePane, Vanish, At
<1>2. ASSUME NEW gate \in {"none", "blocked", "hooks"}, At("start"), Boot(gate)
      PROVE  pane'[run.pane].sid = run.sid
  <2>1. run.pane \in Panes /\ pane[run.pane] \in PaneRecs
    BY <1>2, PaneTyped DEF TypeInv, RunInv, InHand, At
  <2>2. pane'[run.pane] = Booted(pane[run.pane], gate)
    BY <1>2, <2>1, BootMoves DEF Rewritten
  <2>3. QED
    BY <2>1, <2>2 DEF Booted, Given, PaneRecs
<1>3. CASE StartAgent
  BY <1>1, <1>2, <1>3 DEF StartAgent
<1>4. CASE StartGated
  <2>1. PICK gate \in IF kind = "codex" THEN {"blocked", "hooks"} ELSE {"blocked"} : Boot(gate)
    BY <1>4 DEF StartGated
  <2>2. QED
    BY <1>1, <1>2, <1>4, <2>1 DEF StartGated
<1>5. CASE run.pc \in {"gate", "prompt", "read", "bind", "receipt"}
  <2>1. run.pane \in Panes /\ ~At("start")
    BY <1>5 DEF TypeInv, RunInv, InHand, At
  <2>2. pane'[run.pane].sid = pane[run.pane].sid
    BY <2>1, PaneStep DEF PaneEffect
  <2>3. QED
    BY <1>1, <1>5, <2>2 DEF Fitting
<1>6. QED
  BY <1>1, <1>3, <1>4, <1>5

LEMMA FittingStep ==
  ASSUME LaunchAssumption, TypeInv, Kept, Sessions, Fitting, Next
  PROVE  Fitting'
<1> USE LaunchAssumption
<1>0. UNCHANGED kind
  BY OtherWriters
<1>1. ASSUME receipt' # NoReceipt, inst'.status = "pending", kind = "claude"
      PROVE  receipt'.sid = inst'.sid
  <2>1. CASE WriteReceipt
    <3>1. receipt'.sid = pane[run.pane].sid /\ UNCHANGED inst /\ run.pc = "receipt"
      BY <2>1 DEF WriteReceipt, LandedSession, At
    <3>2. pane[run.pane].sid = run.sid /\ run.sid = inst.sid
      BY <1>1, <3>1 DEF Fitting, Sessions, Trying
    <3>3. QED
      BY <3>1, <3>2
  <2>2. CASE UNCHANGED receipt
    <3>1. ~Launch /\ ~BeginAttempt
      BY <1>1, <2>2 DEF Launch, BeginAttempt, At, Kept
    <3>2. ~ConfirmOwn /\ ~RepairConfirm
      BY <1>1 DEF ConfirmOwn, RepairConfirm, Confirm
    <3>3. UNCHANGED inst
      BY <3>1, <3>2, Writers
    <3>4. QED
      BY <1>1, <2>2, <3>3 DEF Fitting, ReceiptConfirms, Confirmable
  <2>3. QED
    BY <2>1, <2>2, Writers
<1>2. ReceiptConfirms'
  BY <1>0, <1>1 DEF ReceiptConfirms, Confirmable
<1>3. QED
  BY <1>0, <1>2, AgentFits DEF Fitting

\* A dispatch whose receipt is on file is in progress or can be confirmed,
\* however often its session was rotated before the launch that landed, and
\* however late the coordinator comes to it (retry.py:67-76, state.py:404-498).
THEOREM ReceiptConfirmsAlways == Spec => []ReceiptConfirms
<1>1. Init => Sessions /\ Fitting
  BY DEF Init, Sessions, Fitting, ReceiptConfirms, NoRun, NoFailure, Primed, Trying
<1>2. TypeInv /\ Kept /\ Sessions /\ Fitting /\ [Next]_vars => Sessions' /\ Fitting'
  <2>1. CASE UNCHANGED vars
    BY <2>1 DEF vars, Sessions, Primed, Fitting, ReceiptConfirms, Confirmable, At
  <2>2. QED
    BY <2>1, SessionsStep, FittingStep, LaunchAssumption
<1>3. Fitting => ReceiptConfirms
  BY DEF Fitting
<1>4. QED
  BY <1>1, <1>2, <1>3, KeptAlways, PTL DEF Spec

(***************************************************************************)
(* No two live agents hold the task                                        *)
(***************************************************************************)
\* The steps at which a killed launcher leaves no worker it has not written down.
DiesInTheOpen == {"read", "bind", "receipt", "close", "record"}

\* A launch that landed goes on with the receipt's pane; a failed attempt
\* whose pane is not kept is recorded after that pane was closed, or could not be.
ReceiptIsOwn == run.pc \in {"unlink", "confirm"} => run.pane = receipt.pane
ClearedAway ==
  At("record") /\ ~run.keep /\ run.pane # NoPane =>
    pane[run.pane].st = "closed" \/ pane[run.pane].stuck

\* Where a live agent that was given the task can be, if its pane can be closed.
TaskPlace(p) ==
  /\ run.pc \notin {"attempt", "split", "start", "gate", "prompt"}
  /\ run.pc # "idle" => p = run.pane
  /\ At("idle") => p = receipt.pane \/ (receipt = NoReceipt /\ p \in failure.left)

Alone ==
  /\ \A p \in Panes : HasTask(p) /\ ~pane[p].stuck => TaskPlace(p)
  /\ \A p, q \in failure.left : p = q
  /\ ReceiptIsOwn
  /\ ClearedAway

LEMMA LaunchPoints == Points = {"attempt", "split", "start", "gate", "prompt"} \cup DiesInTheOpen
                              \cup {"unlink", "confirm"}
  BY DEF Points, DiesInTheOpen

\* A prompt is repeated only to an agent that was not told.
LEMMA ToldAgain ==
  ASSUME LaunchAssumption, TypeInv, Once', ReadTranscript, run'.pc = "prompt",
         HasTask(run.pane)', run'.pane = run.pane
  PROVE  FALSE
  BY DEF Once, HasTask

\* A record without the pane kept comes after the pane was cleared away.
LEMMA RecordedAlone ==
  ASSUME LaunchAssumption, TypeInv, Next, run'.pc = "record", ~run'.keep
  PROVE  (CloseFailed \/ CloseRefused) /\ run'.pane = run.pane
<1>0. RunOK
  BY TypeParts
<1>1. CASE ClearGate
  <2>1. run'.keep
    <3>1. CASE Fail(FALSE, TRUE)
      BY <1>0, <3>1, FailMoves DEF RunOK
    <3>2. CASE Goto("prompt")
      BY <1>0, <3>2, GotoMoves DEF RunOK, Points
    <3>3. QED
      BY <1>1, <3>1, <3>2 DEF ClearGate
  <2>2. QED
    BY <2>1
<1>2. CASE PromptStalled
  <2>1. run.prompts - 1 \in 0..MaxPrompts
    BY <1>0, <1>2 DEF PromptStalled, RunOK, RunInv, RunRecs, At, LaunchAssumption
  <2>2. QED
    BY <1>0, <1>2, <2>1, AgainMoves DEF PromptStalled, RunOK
<1>3. CASE ReadTranscript
  <2>1. run.prompts \in 0..MaxPrompts /\ run \in RunRecs
    BY <1>0 DEF RunOK, RunRecs
  <2>2. QED
    BY <1>3, <2>1, AgainMoves, ShownMoves DEF ReadTranscript
<1>4. CASE Errs
  <2>1. \E retry \in BOOLEAN : Error(retry)
    BY <1>4 DEF Errs, SplitFails, StartFails, StartRefused, GateFails, AgentIsGone,
                PromptAmbiguous, AbandonOnDoubt, PromptRefused, ReadFails, BindFails
  <2>2. QED
    BY <1>0, <2>1, FailMoves DEF RunOK, Error
<1>5. QED
  BY <1>1, <1>2, <1>3, <1>4, RunEffect
  DEF Begins, Goes, Ends, SameAttempt, RepairConfirm, DisposePane, Vanish, At

LEMMA ReceiptStep ==
  ASSUME LaunchAssumption, TypeInv, ReceiptIsOwn, Next
  PROVE  ReceiptIsOwn' /\ ClearedAway'
<1>1. ASSUME run'.pc \in {"unlink", "confirm"}
      PROVE  run'.pane = receipt'.pane
  <2>1. /\ run'.pane = run.pane
        /\ \/ WriteReceipt
           \/ UnlinkFailure
    BY <1>1, RunEffect DEF Begins, Goes, Ends, SameAttempt, RepairConfirm, DisposePane, Vanish, At
  <2>2. QED
    BY <2>1 DEF WriteReceipt, UnlinkFailure, ReceiptIsOwn, At
<1>2. ASSUME run'.pc = "record", ~run'.keep, run'.pane # NoPane
      PROVE  pane'[run'.pane].st = "closed" \/ pane'[run'.pane].stuck
  <2>1. (CloseFailed \/ CloseRefused) /\ run'.pane = run.pane
    BY <1>2, RecordedAlone
  <2>2. /\ run.pane \in Panes
        /\ \/ pane' = [pane EXCEPT ![run.pane].st = "closed"]
           \/ pane' = [pane EXCEPT ![run.pane].stuck = TRUE]
    BY <1>2, <2>1 DEF CloseFailed, CloseRefused, ClosesPane, TypeInv, TypeOK
  <2>3. /\ \/ Rewritten(run.pane, [pane[run.pane] EXCEPT !.st = "closed"])
           \/ Rewritten(run.pane, [pane[run.pane] EXCEPT !.stuck = TRUE])
        /\ pane[run.pane] \in PaneRecs
    BY <2>2, OneFieldMoves, PaneTyped DEF TypeInv
  <2>4. QED
    BY <2>1, <2>2, <2>3 DEF Rewritten, PaneRecs
<1>3. QED
  BY <1>1, <1>2 DEF ReceiptIsOwn, ClearedAway, At

\* An agent that holds the task after a step held it before, or was just told.
LEMMA TaskStep ==
  ASSUME LaunchAssumption, TypeInv, Once, Next, NEW p \in Panes', HasTask(p)'
  PROVE  /\ p \in Panes
         /\ \/ HasTask(p)
            \/ p = run.pane /\ At("prompt") /\ (PromptAccepted \/ PromptAmbiguous)
<1>1. pane'[p].st = "agent" /\ pane'[p].told > 0
  BY DEF HasTask
<1>2. p \in Panes
  BY <1>1, PaneStep DEF PaneEffect
<1>3. CASE PromptAccepted \/ PromptAmbiguous
  <2>1. At("prompt")
    BY <1>3 DEF PromptAccepted, PromptAmbiguous
  <2>2. p # run.pane => HasTask(p)
    BY <1>1, <1>2, PaneStep DEF PaneEffect, HasTask
  <2>3. QED
    BY <1>2, <1>3, <2>1, <2>2
<1>4. CASE ~PromptAccepted /\ ~PromptAmbiguous
  <2>1. pane'[p].told = pane[p].told
    BY <1>2, <1>4, PaneStep DEF PaneEffect
  <2>2. pane[p].st = "agent" \/ (p = run.pane /\ At("start"))
    BY <1>1, <1>2, PaneStep DEF PaneEffect
  <2>3. ~(p = run.pane /\ At("start"))
    BY <1>1, <2>1 DEF Once, At
  <2>4. QED
    BY <1>1, <1>2, <2>1, <2>2, <2>3 DEF HasTask
<1>5. QED
  BY <1>3, <1>4

LEMMA AloneStep ==
  ASSUME LaunchAssumption, ~Scrolls, CrashPoints \cap DiesInTheOpen = {},
         TypeInv, Kept, Once, Alone, Next
  PROVE  Alone'
<1> USE LaunchAssumption
<1>1. ASSUME NEW p \in Panes', HasTask(p)', ~pane'[p].stuck
      PROVE  TaskPlace(p)'
  <2>0. p \in Panes /\ p # NoPane /\ ~pane[p].stuck
    BY <1>1, TaskStep, NoPaneIsNone, PaneStep DEF PaneEffect
  <2>1. \/ HasTask(p) /\ TaskPlace(p)
        \/ p = run.pane /\ At("prompt") /\ (PromptAccepted \/ PromptAmbiguous)
    BY <1>1, <2>0, TaskStep DEF Alone
  <2>2. CASE p = run.pane /\ At("prompt") /\ (PromptAccepted \/ PromptAmbiguous)
    <3>1. run'.pc \in {"read", "close", "record"} /\ run'.pane = run.pane
      BY <2>2, RunMovesOfPrompt, RunEffect
      DEF Begins, Goes, Ends, SameAttempt, At, Vanish
    <3>2. QED
      BY <2>2, <3>1 DEF TaskPlace, At
  <2>3. CASE HasTask(p) /\ TaskPlace(p)
    <3>1. CASE Begins
      <4>1. At("idle") /\ Launch
        BY <2>3, <3>1 DEF Begins, Launch, BeginAttempt, SplitPane, At, TaskPlace
      <4>2. p \in failure.left /\ Open(p)
        BY <2>0, <2>3, <4>1 DEF Launch, TaskPlace, HasTask, Open, NoReceipt
      <4>3. QED
        BY <4>1, <4>2 DEF Launch
    <3>2. CASE Goes
      <4>1. run.pc \notin {"idle", "attempt", "split", "start", "gate", "prompt"}
        BY <2>3, <3>2
        DEF TaskPlace, Goes, At, StartAgent, StartGated, ClearGate, PromptAccepted,
            PromptDropped, PromptStalled, ReadTranscript, Errs, SplitFails, StartFails,
            StartRefused, GateFails, AgentIsGone, PromptAmbiguous, PromptRefused, ReadFails,
            BindFails, BindSession, CloseFailed, CloseRefused, WriteReceipt, UnlinkFailure
      <4>2. p = run.pane /\ run'.pane = run.pane
        BY <2>3, <3>2, <4>1 DEF TaskPlace, Goes, SameAttempt
      <4>3. run'.pc \notin {"attempt", "split", "start", "gate", "idle"}
        BY <3>2, <4>1 DEF Goes, StartAgent, StartGated, At
      <4>4. run'.pc # "prompt"
        <5>1. SUFFICES ASSUME run'.pc = "prompt" PROVE FALSE
          OBVIOUS
        <5>2. ReadTranscript
          BY <3>2, <4>1, <5>1 DEF Goes, ClearGate, PromptStalled, At
        <5>3. QED
          BY <1>1, <4>2, <5>1, <5>2, OnceStep, ToldAgain
      <4>5. QED
        BY <4>2, <4>3, <4>4 DEF TaskPlace, At
    <3>3. CASE Ends
      <4>1. CASE RecordFailure
        <5>1. p = run.pane /\ run.keep
          BY <2>0, <2>3, <4>1 DEF RecordFailure, TaskPlace, Alone, ClearedAway, HasTask, At
        <5>2. ~run.retry
          BY <5>1 DEF TypeInv, RunInv
        <5>3. run' = NoRun /\ failure'.left = {p} /\ receipt' = NoReceipt
          BY <4>1, <5>1, <5>2 DEF RecordFailure, MayRetry, At, Kept, Trying
        <5>4. QED
          BY <5>3 DEF TaskPlace, At, NoRun
      <4>2. CASE ConfirmOwn \/ ConfirmFails
        <5>1. p = receipt.pane /\ UNCHANGED receipt /\ run' = NoRun
          BY <2>3, <4>2 DEF ConfirmOwn, ConfirmFails, TaskPlace, Alone, ReceiptIsOwn, At
        <5>2. QED
          BY <5>1 DEF TaskPlace, At, NoRun
      <4>3. CASE Crash
        <5>1. run.pc \in {"unlink", "confirm"}
          BY <2>3, <4>3, LaunchPoints DEF Crash, TaskPlace, DiesInTheOpen
        <5>2. p = receipt.pane /\ UNCHANGED receipt /\ run' = NoRun
          BY <2>3, <4>3, <5>1 DEF Crash, TaskPlace, Alone, ReceiptIsOwn, At
        <5>3. QED
          BY <5>2 DEF TaskPlace, At, NoRun
      <4>4. CASE (RepairConfirm \/ DisposePane \/ Vanish) /\ UNCHANGED run
        BY <2>3, <4>4 DEF RepairConfirm, DisposePane, Vanish, TaskPlace, At
      <4>5. QED
        BY <3>3, <4>1, <4>2, <4>3, <4>4 DEF Ends
    <3>4. QED
      BY <3>1, <3>2, <3>3, RunEffect
  <2>4. QED
    BY <2>1, <2>2, <2>3
<1>2. ASSUME NEW p \in failure'.left, NEW q \in failure'.left
      PROVE  p = q
  BY <1>2, OtherWriters DEF RecordFailure, UnlinkFailure, NoFailure, Alone
<1>3. ReceiptIsOwn' /\ ClearedAway'
  BY ReceiptStep DEF Alone
<1>4. QED
  BY <1>1, <1>2, <1>3 DEF Alone

\* However attempts fail and the launcher is run again, no two live agents hold
\* the task besides those in panes herdr would not close for it, as long as a
\* delivered task can be read back and no launcher is killed between its delivery
\* and the record of it (retry.py:67-76, __init__.py:397-405).
THEOREM OneWorkerAlways ==
  ASSUME ~Scrolls, CrashPoints \cap DiesInTheOpen = {}
  PROVE  Spec => []OneWorker
<1>1. Init => Once /\ Alone
  BY DEF Init, Once, ToldOnce, Alone, ReceiptIsOwn, ClearedAway, Panes, NoRun, NoFailure, At
<1>2. TypeInv /\ Kept /\ Once /\ Alone /\ [Next]_vars => Once' /\ Alone'
  <2>1. CASE UNCHANGED vars
    BY <2>1 DEF vars, Once, ToldOnce, Alone, ReceiptIsOwn, ClearedAway, TaskPlace, HasTask, Panes, At
  <2>2. QED
    BY <2>1, OnceStep, AloneStep, LaunchAssumption
<1>3. TypeInv /\ Alone => OneWorker
  <2>1. SUFFICES ASSUME TypeInv, Alone, NEW p \in Panes, NEW q \in Panes,
                        HasTask(p), HasTask(q), ~pane[p].stuck, ~pane[q].stuck
                 PROVE  p = q
    BY DEF OneWorker
  <2>2. TaskPlace(p) /\ TaskPlace(q)
    BY <2>1 DEF Alone
  <2>3. p # NoPane /\ q # NoPane
    BY <2>1, NoPaneIsNone
  <2>4. QED
    BY <2>1, <2>2, <2>3 DEF TaskPlace, Alone, NoReceipt, At
<1>4. QED
  BY <1>1, <1>2, <1>3, KeptAlways, PTL DEF Spec

(***************************************************************************)
(* The panes left open                                                     *)
(***************************************************************************)
\* Where an open pane can be that the launcher can close.
OpenPlace(p) ==
  /\ run.pc \notin {"attempt", "split"}
  /\ ~At("idle") => p = run.pane
  /\ At("idle") => p \in failure.left \/ p = receipt.pane

Tidy ==
  /\ died = 0 => \A p \in Panes : Open(p) /\ ~pane[p].stuck => OpenPlace(p)
  /\ ReceiptIsOwn
  /\ ClearedAway

\* A pane that is open after a step was open before, or is in hand.
LEMMA OpenStep ==
  ASSUME TypeInv, Next, NEW p \in Panes', Open(p)', ~pane'[p].stuck
  PROVE  \/ /\ p \in Panes /\ ~pane[p].stuck
            /\ Open(p) \/ (p = run.pane /\ run.pc \in InHand)
         \/ SplitPane /\ p = Len(pane')
<1>1. pane'[p].st # "closed"
  BY DEF Open
<1>2. QED
  BY <1>1, PaneStep DEF PaneEffect

\* Only a launcher's death goes on the count, and it is never taken back.
LEMMA DeathsStep ==
  ASSUME TypeInv, Next, died' = 0
  PROVE  died = 0 /\ ~Crash
<1>1. died \in Nat
  BY DEF TypeInv, TypeOK
<1>2. ~Crash
  BY <1>1 DEF Crash
<1>3. UNCHANGED died
  BY <1>2 DEF Next, Launcher, Launch, BeginAttempt, SplitPane, SplitFails, StartAgent, StartGated,
      StartFails, StartRefused, ClearGate, GateFails, AgentIsGone, PromptAccepted,
      PromptDropped, PromptStalled, PromptAmbiguous, PromptRefused, ReadTranscript, ReadFails,
      BindSession, BindFails, CloseFailed, CloseRefused, RecordFailure, WriteReceipt, UnlinkFailure,
      ConfirmOwn, ConfirmFails, RepairConfirm, DisposePane, Vanish
<1>4. QED
  BY <1>2, <1>3

LEMMA TidyStep ==
  ASSUME LaunchAssumption, TypeInv, Kept, Tidy, Next
  PROVE  Tidy'
<1> USE LaunchAssumption
<1>1. ASSUME died' = 0, NEW p \in Panes', Open(p)', ~pane'[p].stuck
      PROVE  OpenPlace(p)'
  <2>0. died = 0 /\ ~Crash
    BY <1>1, DeathsStep
  <2>1. CASE SplitPane /\ p = Len(pane')
    <3>1. run'.pc = "start" /\ run'.pane = p
      BY <2>1, RunEffect DEF Begins, Goes, Ends, SplitPane, At, Launch, BeginAttempt, StartAgent,
         StartGated, ClearGate, PromptAccepted, PromptDropped, PromptStalled, ReadTranscript, Errs,
         SplitFails, StartFails, StartRefused, GateFails, AgentIsGone, PromptAmbiguous,
         PromptRefused, ReadFails, BindFails, BindSession, CloseFailed, CloseRefused, WriteReceipt,
         UnlinkFailure, RecordFailure, ConfirmOwn, ConfirmFails, RepairConfirm, DisposePane,
         Vanish, Crash
    <3>2. QED
      BY <3>1 DEF OpenPlace, At
  <2>2. CASE p \in Panes /\ ~pane[p].stuck /\ (Open(p) \/ (p = run.pane /\ run.pc \in InHand))
    <3>0. OpenPlace(p) /\ p # NoPane
      BY <2>0, <2>2, NoPaneIsNone DEF Tidy, OpenPlace, InHand, At
    <3>1. CASE Begins
      <4>1. At("idle") /\ Launch
        BY <3>0, <3>1 DEF Begins, Launch, BeginAttempt, SplitPane, At, OpenPlace
      <4>2. p \in failure.left /\ Open(p)
        BY <2>2, <3>0, <4>1 DEF Launch, OpenPlace, NoReceipt, At, InHand
      <4>3. QED
        BY <4>1, <4>2 DEF Launch
    <3>2. CASE Goes
      <4>1. run.pc # "idle"
        BY <3>2 DEF Goes, At, StartAgent, StartGated, ClearGate, PromptAccepted,
            PromptDropped, PromptStalled, ReadTranscript, Errs, SplitFails, StartFails,
            StartRefused, GateFails, AgentIsGone, PromptAmbiguous, PromptRefused, ReadFails,
            BindFails, BindSession, CloseFailed, CloseRefused, WriteReceipt, UnlinkFailure
      <4>2. p = run.pane /\ run'.pane = run.pane
        BY <3>0, <3>2, <4>1 DEF OpenPlace, Goes, SameAttempt, At
      <4>3. run'.pc \notin {"attempt", "split", "idle"}
        BY <3>2 DEF Goes
      <4>4. QED
        BY <4>2, <4>3 DEF OpenPlace, At
    <3>3. CASE Ends
      <4>1. CASE RecordFailure
        <5>1. p = run.pane /\ Open(p)
          BY <2>2, <3>0, <4>1 DEF RecordFailure, OpenPlace, At, InHand
        <5>2. run.keep
          BY <2>2, <3>0, <4>1, <5>1 DEF RecordFailure, Tidy, ClearedAway, Open
        <5>3. ~run.retry
          BY <5>2 DEF TypeInv, RunInv
        <5>4. run' = NoRun /\ failure'.left = {p}
          BY <4>1, <5>1, <5>2, <5>3 DEF RecordFailure, MayRetry
        <5>5. QED
          BY <5>4 DEF OpenPlace, At, NoRun
      <4>2. CASE ConfirmOwn \/ ConfirmFails
        <5>1. p = receipt.pane /\ UNCHANGED receipt /\ run' = NoRun
          BY <3>0, <4>2 DEF ConfirmOwn, ConfirmFails, OpenPlace, Tidy, ReceiptIsOwn, At
        <5>2. QED
          BY <5>1 DEF OpenPlace, At, NoRun
      <4>3. CASE (RepairConfirm \/ DisposePane \/ Vanish) /\ UNCHANGED run
        BY <3>0, <4>3 DEF RepairConfirm, DisposePane, Vanish, OpenPlace, At
      <4>4. QED
        BY <2>0, <3>3, <4>1, <4>2, <4>3 DEF Ends
    <3>4. QED
      BY <3>1, <3>2, <3>3, RunEffect
  <2>3. QED
    BY <1>1, <2>1, <2>2, OpenStep
<1>2. ReceiptIsOwn' /\ ClearedAway'
  BY ReceiptStep DEF Tidy
<1>3. QED
  BY <1>1, <1>2 DEF Tidy

\* A launcher that runs to its end leaves no pane open that neither its receipt
\* nor its failure record names, whatever its attempts met, but for one herdr
\* refused to close or split without telling (__init__.py:397-405, pane.py:192-206).
THEOREM NoStrayPaneAlways == Spec => []NoStrayPane
<1>1. Init => Tidy
  BY DEF Init, Tidy, ReceiptIsOwn, ClearedAway, Panes, NoRun, At
<1>2. TypeInv /\ Kept /\ Tidy /\ [Next]_vars => Tidy'
  <2>1. CASE UNCHANGED vars
    BY <2>1 DEF vars, Tidy, ReceiptIsOwn, ClearedAway, OpenPlace, Open, Panes, At
  <2>2. QED
    BY <2>1, TidyStep, LaunchAssumption
<1>3. Tidy => NoStrayPane
  BY DEF Tidy, OpenPlace, NoStrayPane
<1>4. QED
  BY <1>1, <1>2, <1>3, KeptAlways, PTL DEF Spec

=============================================================================
