------------------------ MODULE TaskLifecycleProofs ------------------------
(***************************************************************************)
(* Theorems about TaskLifecycle, and about RollCall beside it, for every   *)
(* set of troubles and every set of quiet points unless the theorem says   *)
(* otherwise.                                                              *)
(***************************************************************************)
EXTENDS RollCall, TLAPS

Wrapping == at \in {"archiving", "unlinking", "syncing"}

\* A wrap-up under way holds a terminal status, so that is what it syncs.
WrapHoldsOutcome == Wrapping => IsTerminal(copy)

TypeInv == TypeOK /\ WrapHoldsOutcome

At == Points \cup {"idle", "down"}

(***************************************************************************)
(* The values the files and the reports take                               *)
(***************************************************************************)
LEMMA PayloadValues ==
  /\ Blank \in Payload /\ Torn \in Payload
  /\ \A v \in Statuses \cup {"none"}, by \in {"worker", "main"} : Report(v, by) \in Payload
  /\ \A s \in Payload : [s EXCEPT !.resolved = TRUE] \in Payload
  BY DEF Payload, Blank, Torn, Report

LEMMA RptValues ==
  /\ NoRpt \in Rpt
  /\ \A v \in WorkerStatuses : [at |-> "checked", val |-> v] \in Rpt
  /\ \A r \in Rpt : /\ [r EXCEPT !.at = "opened"] \in Rpt
                    /\ r.val \in Statuses \cup {"none"}
  BY DEF Rpt, NoRpt, WorkerStatuses

LEMMA StatusValues ==
  /\ "cancelled" \in Statuses /\ "done" \in Statuses /\ "failed" \in Statuses
  BY DEF Statuses, Terminal

LEMMA AtValues ==
  /\ \A p \in {"marking", "launched", "confirming", "sending", "resolving",
              "cancelling", "probed", "judging", "recording", "clearing"} : p \in At
  /\ \A p \in {"closing", "closed", "archiving", "unlinking", "syncing"} : p \in At
  /\ "idle" \in At /\ "down" \in At
  BY DEF At, Points

\* Every step keeps the types.  Only WrapSync needs more than TypeOK itself:
\* the payload it copies to plan.json is the one WrapLoad found terminal.
LEMMA TypeStep == TypeInv /\ [Next]_vars => TypeInv'
<1> SUFFICES ASSUME TypeInv, [Next]_vars PROVE TypeInv'
  OBVIOUS
<1> USE PayloadValues, RptValues, StatusValues, AtValues
<1>0. at \in At
  BY DEF TypeInv, TypeOK, At
<1> USE <1>0
<1>a. SUFFICES TypeOK' /\ WrapHoldsOutcome'
  BY DEF TypeInv
<1>b. ASSUME at' \in At PROVE at' \in Points \cup {"idle", "down"}
  BY <1>b DEF At
<1> USE DEF TypeInv, TypeOK, WrapHoldsOutcome, Wrapping
<1>1. CASE UNCHANGED vars
  BY <1>1, <1>b DEF vars
<1>2. CASE WriteInstruction
  BY <1>2, <1>b DEF WriteInstruction
<1>3. CASE MarkPlanTask
  BY <1>3, <1>b DEF MarkPlanTask, Done
<1>4. CASE Launch
  BY <1>4, <1>b DEF Launch
<1>5. CASE WriteReceipt
  <2>1. at' \in At /\ copy' \in Payload /\ receipt' \in BOOLEAN
    BY <1>5 DEF WriteReceipt, Done
  <2>2. ~Wrapping'
    BY <1>5 DEF WriteReceipt, Done
  <2>3. QED
    BY <1>5, <2>1, <2>2, <1>b DEF WriteReceipt
<1>6. CASE ConfirmDispatch
  BY <1>6, <1>b DEF ConfirmDispatch, Done
<1>7. CASE LeaveUnconfirmed
  BY <1>7, <1>b DEF LeaveUnconfirmed, Done
<1>8. CASE ReplyLoad
  BY <1>8, <1>b DEF ReplyLoad
<1>9. CASE ReplySend
  BY <1>9, <1>b DEF ReplySend, Done
<1>10. CASE Redirect
  BY <1>10, <1>b DEF Redirect
<1>11. CASE ReplyResolve
  BY <1>11, <1>b DEF ReplyResolve, Done, Outdated, Unseat
<1>12. CASE CancelOpen
  BY <1>12, <1>b DEF CancelOpen, Outdated
<1>13. CASE CancelWrite
  BY <1>13, <1>b DEF CancelWrite, Outdated, Done
<1>14. CASE Recover
  BY <1>14, <1>b DEF Recover, RecoverProbe, ConfirmedClosed
<1>15. CASE RecoverMark
  BY <1>15, <1>b DEF RecoverMark
<1>16. CASE RecoverJudge
  BY <1>16, <1>b DEF RecoverJudge, Done
<1>17. CASE RecoverRecord
  BY <1>17, <1>b DEF RecoverRecord, Outdated, Unseat, Done
<1>18. CASE ClearLoad
  BY <1>18, <1>b DEF ClearLoad
<1>19. CASE ClearUnlink
  BY <1>19, <1>b DEF ClearUnlink, Unseat, Done
<1>20. CASE CloseLoad
  BY <1>20, <1>b DEF CloseLoad
<1>21. CASE ClosePane
  BY <1>21, <1>b DEF ClosePane
<1>22. CASE CloseMark
  BY <1>22, <1>b DEF CloseMark, Done
<1>23. CASE WrapLoad
  BY <1>23, <1>b DEF WrapLoad
<1>24. CASE WrapArchive
  BY <1>24, <1>b DEF WrapArchive
<1>25. CASE WrapUnlink
  BY <1>25, <1>b DEF WrapUnlink
<1>26. CASE WrapSync
  BY <1>26, <1>b DEF WrapSync, Done, IsTerminal
<1>27. CASE Crash
  BY <1>27, <1>b DEF Crash
<1>28. CASE Restart
  BY <1>28, <1>b DEF Restart, Done
<1>29. CASE \E v \in WorkerStatuses : ReportCheck(v)
  BY <1>29, <1>b DEF ReportCheck
<1>30. CASE ReportOpen
  BY <1>30, <1>b DEF ReportOpen, Outdated
<1>31. CASE ReportWrite
  <2>1. stat' \in Payload
    BY <1>31 DEF ReportWrite
  <2>2. QED
    BY <1>31, <2>1, <1>b DEF ReportWrite, Outdated
<1>32. CASE NoteWait
  BY <1>32, <1>b DEF NoteWait
<1>33. CASE Stop
  BY <1>33, <1>b DEF Stop
<1>34. CASE Resume
  BY <1>34, <1>b DEF Resume
<1>35. CASE Vanish
  BY <1>35, <1>b DEF Vanish
<1>36. CASE Reuse
  BY <1>36, <1>b DEF Reuse
<1>37. QED
  BY <1>1, <1>2, <1>3, <1>4, <1>5, <1>6, <1>7, <1>8, <1>9, <1>10, <1>11, <1>12, <1>13,
     <1>14, <1>15, <1>16, <1>17, <1>18, <1>19, <1>20, <1>21, <1>22, <1>23, <1>24, <1>25,
     <1>26, <1>27, <1>28, <1>29, <1>30, <1>31, <1>32, <1>33, <1>34, <1>35, <1>36
  DEF Next, Proceed, WorkerStep

LEMMA InitTyped == Init => TypeInv
<1>1. Init => at \in Points \cup {"idle", "down"}
  BY AtValues DEF Init, At
<1>2. Init => inst \in [st : {"none", "pending", "in-progress", "gone"}, closed : BOOLEAN]
  BY DEF Init
<1>3. Init => WrapHoldsOutcome
  BY DEF Init, WrapHoldsOutcome, Wrapping
<1>4. QED
  BY <1>1, <1>2, <1>3, PayloadValues, RptValues DEF Init, TypeInv, TypeOK

\* Every reachable state is well typed; in particular plan.json never gets a
\* checkpoint for a status.
THEOREM TypeCorrect == Spec => []TypeOK
<1>1. TypeInv => TypeOK
  BY DEF TypeInv
<1>2. QED
  BY <1>1, InitTyped, TypeStep, PTL DEF Spec

(***************************************************************************)
(* plan.json against the status file                                       *)
(***************************************************************************)
\* Only a pane that is still the worker's has a worker, or a report, in it.
NobodyElsewhere == pane # "own" => worker = "none" /\ rpt = NoRpt

\* A wrap-up holds what is on file, and nobody is left to change it.
WrapHoldsFile ==
  Wrapping => pane # "own" /\ stat = copy /\ (at = "syncing" => inst.st = "gone")

\* The commands that write the status file or the plan began on a live
\* instruction, or on a task that was dispatched.
WritersBeganLive ==
  /\ at \in {"marking", "sending", "resolving", "cancelling", "probed", "judging",
            "recording"} => inst.st # "gone"
  /\ at = "clearing" => plan = "dispatched"

\* What plan.json says of a settled task is on file, and stays there.
SettledStays ==
  plan \in Terminal =>
    inst.st = "gone" /\ pane # "own" /\ stat.on = "report" /\ stat.val = plan

SettleInv == TypeInv /\ NobodyElsewhere /\ WrapHoldsFile /\ WritersBeganLive /\ SettledStays

\* Every step of a coordinator that closes before it wraps up keeps it.
LEMMA SettleStep ==
  ASSUME CloseFirst, "strayCancel" \notin Troubles
  PROVE  SettleInv /\ [Next]_vars => SettleInv'
<1> SUFFICES ASSUME SettleInv, [Next]_vars PROVE SettleInv'
  OBVIOUS
<1>0. TypeInv'
  BY TypeStep DEF SettleInv
<1>a. inst \in [st : {"none", "pending", "in-progress", "gone"}, closed : BOOLEAN]
  BY DEF SettleInv, TypeInv, TypeOK
<1>b. "planned" \notin Terminal /\ "dispatched" \notin Terminal
  BY DEF Terminal
<1>c. SUFFICES (NobodyElsewhere /\ WrapHoldsFile /\ WritersBeganLive /\ SettledStays)'
  BY <1>0 DEF SettleInv
<1> USE <1>a, <1>b DEF SettleInv, NobodyElsewhere, WrapHoldsFile, WritersBeganLive,
        SettledStays, Wrapping
<1>1. CASE UNCHANGED vars
  BY <1>1 DEF vars
<1>2. CASE WriteInstruction
  BY <1>2 DEF WriteInstruction
<1>3. CASE MarkPlanTask
  BY <1>3 DEF MarkPlanTask, Done
<1>4. CASE Launch
  BY <1>4 DEF Launch
<1>5. CASE WriteReceipt
  BY <1>5 DEF WriteReceipt, Done
<1>6. CASE ConfirmDispatch
  BY <1>6 DEF ConfirmDispatch, Done
<1>7. CASE LeaveUnconfirmed
  BY <1>7 DEF LeaveUnconfirmed, Done
<1>8. CASE ReplyLoad
  BY <1>8 DEF ReplyLoad
<1>9. CASE ReplySend
  BY <1>9 DEF ReplySend, Done
<1>10. CASE Redirect
  BY <1>10 DEF Redirect
<1>11. CASE ReplyResolve
  BY <1>11 DEF ReplyResolve, Done, Outdated, Unseat
<1>12. CASE CancelOpen
  BY <1>12 DEF CancelOpen, Outdated
<1>13. CASE CancelWrite
  BY <1>13 DEF CancelWrite, Outdated, Done
<1>14. CASE Recover
  BY <1>14 DEF Recover, RecoverProbe, ConfirmedClosed
<1>15. CASE RecoverMark
  BY <1>15 DEF RecoverMark
<1>16. CASE RecoverJudge
  BY <1>16 DEF RecoverJudge, Done
<1>17. CASE RecoverRecord
  BY <1>17 DEF RecoverRecord, Outdated, Unseat, Done
<1>18. CASE ClearLoad
  BY <1>18 DEF ClearLoad
<1>19. CASE ClearUnlink
  BY <1>19 DEF ClearUnlink, Unseat, Done
<1>20. CASE CloseLoad
  BY <1>20 DEF CloseLoad
<1>21. CASE ClosePane
  BY <1>21 DEF ClosePane
<1>22. CASE CloseMark
  BY <1>22 DEF CloseMark, Done
<1>23. CASE WrapLoad
  BY <1>23 DEF WrapLoad
<1>24. CASE WrapArchive
  BY <1>24 DEF WrapArchive
<1>25. CASE WrapUnlink
  BY <1>25 DEF WrapUnlink
<1>26. CASE WrapSync
  <2>1. IsTerminal(copy) /\ stat = copy /\ pane # "own" /\ inst.st = "gone"
    BY <1>26 DEF WrapSync, TypeInv, WrapHoldsOutcome
  <2>2. QED
    BY <1>26, <2>1 DEF WrapSync, Done, IsTerminal
<1>27. CASE Crash
  BY <1>27 DEF Crash
<1>28. CASE Restart
  BY <1>28 DEF Restart, Done
<1>29. CASE \E v \in WorkerStatuses : ReportCheck(v)
  BY <1>29 DEF ReportCheck, InTurn
<1>30. CASE ReportOpen
  BY <1>30 DEF ReportOpen, Outdated, InTurn
<1>31. CASE ReportWrite
  BY <1>31 DEF ReportWrite, Outdated, InTurn
<1>32. CASE NoteWait
  BY <1>32 DEF NoteWait, InTurn
<1>33. CASE Stop
  BY <1>33 DEF Stop, InTurn
<1>34. CASE Resume
  BY <1>34 DEF Resume
<1>35. CASE Vanish
  BY <1>35 DEF Vanish
<1>36. CASE Reuse
  BY <1>36 DEF Reuse
<1>37. QED
  BY <1>1, <1>2, <1>3, <1>4, <1>5, <1>6, <1>7, <1>8, <1>9, <1>10, <1>11, <1>12, <1>13,
     <1>14, <1>15, <1>16, <1>17, <1>18, <1>19, <1>20, <1>21, <1>22, <1>23, <1>24, <1>25,
     <1>26, <1>27, <1>28, <1>29, <1>30, <1>31, <1>32, <1>33, <1>34, <1>35, <1>36
  DEF Next, Proceed, WorkerStep

\* When the coordinator closes a worker's pane before it wraps its task up, and cancels
\* no task that has no live instruction, plan.json and the status file agree on every
\* settled task, whatever crashes, vanishes or is reported late.
THEOREM PlanAgreesAlways ==
  ASSUME CloseFirst, "strayCancel" \notin Troubles
  PROVE  Spec => []PlanAgrees
<1>1. Init => SettleInv
  <2>1. Init => TypeInv
    BY InitTyped
  <2>2. QED
    BY <2>1 DEF Init, SettleInv, NobodyElsewhere, WrapHoldsFile, WritersBeganLive, SettledStays,
       Wrapping, Terminal
<1>2. SettleInv => PlanAgrees
  BY DEF SettleInv, SettledStays, PlanAgrees
<1>3. QED
  BY <1>1, <1>2, SettleStep, PTL DEF Spec

(***************************************************************************)
(* The worker's last word                                                  *)
(***************************************************************************)
LastWord == IsTerminal(stat) /\ stat.by = "worker"

\* No command that is about to write the status file does so over the
\* worker's last word, because the worker holds still while it writes.
WritersSpareLastWord ==
  /\ at \in {"sending", "resolving"} => ~IsTerminal(copy) /\ stat = copy
  /\ at \in {"recording", "clearing"} => ~LastWord
  /\ at \in {"probed", "judging", "recording"} => copy.by = "main"
  /\ rpt.at = "opened" => ~LastWord

QuietWhileWriting == {"sending", "resolving", "recording", "clearing"} \subseteq Quiet

LEMMA LastWordStep ==
  ASSUME QuietWhileWriting, ClearOthers
  PROVE  TypeInv /\ WritersSpareLastWord /\ [Next]_vars => WritersSpareLastWord'
<1> SUFFICES ASSUME TypeInv, WritersSpareLastWord, [Next]_vars PROVE WritersSpareLastWord'
  OBVIOUS
<1>a. rpt \in Rpt /\ stat \in Payload /\ copy \in Payload
  BY DEF TypeInv, TypeOK
<1>b. MainCheckpoint \notin Terminal
  BY DEF MainCheckpoint, Terminal
<1>c. NoRpt.at # "opened" /\ ~IsTerminal(Blank) /\ ~IsTerminal(Torn)
  BY DEF NoRpt, Blank, Torn, IsTerminal
<1>d. \A p \in {"sending", "resolving", "recording", "clearing"} : p \in Quiet
  BY DEF QuietWhileWriting
<1> USE <1>a, <1>b, <1>c, <1>d DEF WritersSpareLastWord, LastWord
<1>1. CASE UNCHANGED vars
  BY <1>1 DEF vars
<1>2. CASE WriteInstruction
  BY <1>2 DEF WriteInstruction
<1>3. CASE MarkPlanTask
  BY <1>3 DEF MarkPlanTask, Done
<1>4. CASE Launch
  BY <1>4 DEF Launch
<1>5. CASE WriteReceipt
  BY <1>5 DEF WriteReceipt, Done
<1>6. CASE ConfirmDispatch
  BY <1>6 DEF ConfirmDispatch, Done
<1>7. CASE LeaveUnconfirmed
  BY <1>7 DEF LeaveUnconfirmed, Done
<1>8. CASE ReplyLoad
  BY <1>8 DEF ReplyLoad, IsTerminal
<1>9. CASE ReplySend
  BY <1>9 DEF ReplySend, Done
<1>10. CASE Redirect
  BY <1>10 DEF Redirect
<1>11. CASE ReplyResolve
  BY <1>11 DEF ReplyResolve, Done, Unseat, Report, IsTerminal, Payload
<1>12. CASE CancelOpen
  BY <1>12 DEF CancelOpen
<1>13. CASE CancelWrite
  BY <1>13 DEF CancelWrite, Done, Report, IsTerminal
<1>14. CASE Recover
  BY <1>14 DEF Recover, RecoverProbe, ConfirmedClosed, Report, IsTerminal
<1>15. CASE RecoverMark
  BY <1>15 DEF RecoverMark
<1>16. CASE RecoverJudge
  BY <1>16 DEF RecoverJudge, Done
<1>17. CASE RecoverRecord
  BY <1>17 DEF RecoverRecord, Unseat, Done, Report, IsTerminal
<1>18. CASE ClearLoad
  BY <1>18 DEF ClearLoad
<1>19. CASE ClearUnlink
  BY <1>19 DEF ClearUnlink, Unseat, Done
<1>20. CASE CloseLoad
  BY <1>20 DEF CloseLoad
<1>21. CASE ClosePane
  BY <1>21 DEF ClosePane
<1>22. CASE CloseMark
  BY <1>22 DEF CloseMark, Done
<1>23. CASE WrapLoad
  BY <1>23 DEF WrapLoad
<1>24. CASE WrapArchive
  BY <1>24 DEF WrapArchive
<1>25. CASE WrapUnlink
  BY <1>25 DEF WrapUnlink
<1>26. CASE WrapSync
  BY <1>26 DEF WrapSync, Done
<1>27. CASE Crash
  BY <1>27 DEF Crash
<1>28. CASE Restart
  BY <1>28 DEF Restart, Done
<1>29. CASE \E v \in WorkerStatuses : ReportCheck(v)
  BY <1>29 DEF ReportCheck, InTurn
<1>30. CASE ReportOpen
  BY <1>30 DEF ReportOpen, InTurn
<1>31. CASE ReportWrite
  BY <1>31 DEF ReportWrite, InTurn
<1>32. CASE NoteWait
  BY <1>32 DEF NoteWait, InTurn
<1>33. CASE Stop
  BY <1>33 DEF Stop, InTurn
<1>34. CASE Resume
  BY <1>34 DEF Resume
<1>35. CASE Vanish
  BY <1>35 DEF Vanish
<1>36. CASE Reuse
  BY <1>36 DEF Reuse
<1>37. QED
  BY <1>1, <1>2, <1>3, <1>4, <1>5, <1>6, <1>7, <1>8, <1>9, <1>10, <1>11, <1>12, <1>13,
     <1>14, <1>15, <1>16, <1>17, <1>18, <1>19, <1>20, <1>21, <1>22, <1>23, <1>24, <1>25,
     <1>26, <1>27, <1>28, <1>29, <1>30, <1>31, <1>32, <1>33, <1>34, <1>35, <1>36
  DEF Next, Proceed, WorkerStep

\* A worker that takes no step while a reply, a recovery or a clear is being written
\* never loses its terminal report to one, where a clear is given no status of its own.
THEOREM FinalWordStandsAlways ==
  ASSUME QuietWhileWriting, ClearOthers
  PROVE  Spec => FinalWordStands
<1> DEFINE Inv == TypeInv /\ WritersSpareLastWord
<1>1. Init => Inv
  BY InitTyped DEF Init, WritersSpareLastWord, NoRpt
<1>2. Inv /\ [Next]_vars => Inv'
  BY TypeStep, LastWordStep
<1>3. ASSUME Inv, [Next]_vars, IsTerminal(stat), stat.by = "worker", stat' # stat
      PROVE  ReportOpen \/ CancelOpen \/ CancelWrite
  <2>1. ~ReplyResolve
    BY <1>3 DEF WritersSpareLastWord, ReplyResolve, LastWord
  <2>2. ~RecoverRecord /\ ~ClearUnlink
    BY <1>3 DEF WritersSpareLastWord, RecoverRecord, ClearUnlink, LastWord
  <2>3. ~ReportWrite
    BY <1>3 DEF WritersSpareLastWord, ReportWrite, LastWord
  <2>4. UNCHANGED stat \/ ReportOpen \/ CancelOpen \/ CancelWrite
    BY <1>3, <2>1, <2>2, <2>3 DEF Next, Proceed, WorkerStep, vars, WriteInstruction, MarkPlanTask,
       Launch, WriteReceipt, ConfirmDispatch, LeaveUnconfirmed, ReplyLoad, ReplySend, Redirect,
       Recover, RecoverProbe, ConfirmedClosed, RecoverMark, RecoverJudge, ClearLoad, CloseLoad, ClosePane, CloseMark,
       WrapLoad, WrapArchive, WrapUnlink, WrapSync, Crash, Restart, ReportCheck, NoteWait, Stop,
       Resume, Vanish, Reuse
  <2>5. QED
    BY <1>3, <2>4
<1>4. Inv /\ [Next]_vars => [(IsTerminal(stat) /\ stat.by = "worker" /\ stat' # stat) =>
                               ReportOpen \/ CancelOpen \/ CancelWrite]_vars
  BY <1>3
<1>5. QED
  BY <1>1, <1>2, <1>4, PTL DEF Spec, FinalWordStands

(***************************************************************************)
(* Closed panes                                                            *)
(***************************************************************************)
\* A close under way found no record of an earlier one, and none is made
\* while it runs.
CloseIsFirst == at = "closing" => ~inst.closed

LEMMA CloseStep == CloseIsFirst /\ [Next]_vars => CloseIsFirst'
<1> SUFFICES ASSUME CloseIsFirst, [Next]_vars PROVE CloseIsFirst'
  OBVIOUS
<1> USE DEF CloseIsFirst
<1>1. CASE CloseLoad
  BY <1>1 DEF CloseLoad
<1>2. CASE UNCHANGED <<at, inst>>
  BY <1>2
<1>3. CASE at' # "closing"
  BY <1>3
<1>4. QED
  BY <1>1, <1>2, <1>3 DEF Next, Proceed, WorkerStep, vars, WriteInstruction, MarkPlanTask,
     Launch, WriteReceipt, ConfirmDispatch, LeaveUnconfirmed, ReplyLoad, ReplySend, ReplyResolve,
     Redirect, CancelOpen, CancelWrite, Recover, RecoverProbe, ConfirmedClosed, RecoverMark, RecoverJudge,
     RecoverRecord, ClearLoad, ClearUnlink, ClosePane, CloseMark, WrapLoad, WrapArchive,
     WrapUnlink, WrapSync, Crash, Restart, ReportCheck, ReportOpen, ReportWrite, NoteWait, Stop,
     Resume, Vanish, Reuse, Done

\* A pane on record as closed is never closed again, whatever dies half-way
\* and however the worker and its pane behave.
THEOREM ClosedStaysClosedAlways == Spec => ClosedStaysClosed
<1>1. Init => CloseIsFirst
  BY DEF Init, CloseIsFirst
<1>2. ASSUME CloseIsFirst, [Next]_vars, inst.closed, pane = "other"
      PROVE  pane' = "other"
  <2>1. ~ClosePane
    BY <1>2 DEF CloseIsFirst, ClosePane
  <2>2. ~Launch /\ ~Vanish
    BY <1>2 DEF Launch, Vanish
  <2>3. QED
    BY <1>2, <2>1, <2>2 DEF Next, Proceed, WorkerStep, vars, WriteInstruction, MarkPlanTask,
       WriteReceipt, ConfirmDispatch, LeaveUnconfirmed, ReplyLoad, ReplySend, ReplyResolve,
       Redirect, CancelOpen, CancelWrite, Recover, RecoverProbe, ConfirmedClosed, RecoverMark, RecoverJudge,
       RecoverRecord, ClearLoad, ClearUnlink, CloseLoad, CloseMark, WrapLoad, WrapArchive,
       WrapUnlink, WrapSync, Crash, Restart, ReportCheck, ReportOpen, ReportWrite, NoteWait, Stop,
       Resume, Reuse
<1>3. CloseIsFirst /\ [Next]_vars => [(inst.closed /\ pane = "other") => pane' = "other"]_vars
  BY <1>2
<1>4. QED
  BY <1>1, <1>3, CloseStep, PTL DEF Spec, ClosedStaysClosed

(***************************************************************************)
(* Why a worker stopped                                                    *)
(***************************************************************************)
\* The stop guard judges, and a cancel is seen through.
GuardJudges == Troubles \cap {"earlyStop", "renewing", "cancelling"} = {}

\* A stopped worker's dispatch is confirmed; nobody marks its checkpoint answered, and
\* what a recovery records is an outcome nobody has answered.
StopInv ==
  /\ worker = "stopped" => inst.st \in {"in-progress", "gone"}
  /\ at = "resolving" => worker # "stopped"
  /\ at \in {"probed", "judging", "recording"} => copy.on = "report" /\ ~copy.resolved

LEMMA StopStep ==
  ASSUME QuietWhileWriting, GuardJudges
  PROVE  TypeInv /\ StopInv /\ [Next]_vars => StopInv'
<1> SUFFICES ASSUME TypeInv, StopInv, [Next]_vars PROVE StopInv'
  OBVIOUS
<1>a. /\ inst \in [st : {"none", "pending", "in-progress", "gone"}, closed : BOOLEAN]
      /\ rpt \in Rpt /\ stat \in Payload /\ copy \in Payload
  BY DEF TypeInv, TypeOK
<1>b. \A p \in {"sending", "resolving", "recording", "clearing"} : p \in Quiet
  BY DEF QuietWhileWriting
<1>c. "earlyStop" \notin Troubles /\ "renewing" \notin Troubles /\ "cancelling" \notin Troubles
  BY DEF GuardJudges
<1>d. "cancelled" \in Terminal
  BY DEF Terminal
<1> USE <1>a, <1>b, <1>c, <1>d DEF StopInv
<1>1. CASE UNCHANGED vars
  BY <1>1 DEF vars
<1>2. CASE WriteInstruction
  BY <1>2 DEF WriteInstruction
<1>3. CASE MarkPlanTask
  BY <1>3 DEF MarkPlanTask, Done
<1>4. CASE Launch
  BY <1>4 DEF Launch
<1>5. CASE WriteReceipt
  BY <1>5 DEF WriteReceipt, Done
<1>6. CASE ConfirmDispatch
  BY <1>6 DEF ConfirmDispatch, Done
<1>7. CASE LeaveUnconfirmed
  BY <1>7 DEF LeaveUnconfirmed, Done
<1>8. CASE ReplyLoad
  BY <1>8 DEF ReplyLoad
<1>9. CASE ReplySend
  BY <1>9 DEF ReplySend, Done
<1>10. CASE Redirect
  BY <1>10 DEF Redirect
<1>11. CASE ReplyResolve
  BY <1>11 DEF ReplyResolve, Done, Outdated
<1>12. CASE CancelOpen
  BY <1>12 DEF CancelOpen, Outdated
<1>13. CASE CancelWrite
  BY <1>13 DEF CancelWrite, Done, Outdated, Report
<1>14. CASE Recover
  BY <1>14 DEF Recover, RecoverProbe, ConfirmedClosed, Report
<1>15. CASE RecoverMark
  BY <1>15 DEF RecoverMark
<1>16. CASE RecoverJudge
  BY <1>16 DEF RecoverJudge, Done
<1>17. CASE RecoverRecord
  BY <1>17 DEF RecoverRecord, Done, Outdated
<1>18. CASE ClearLoad
  BY <1>18 DEF ClearLoad
<1>19. CASE ClearUnlink
  BY <1>19 DEF ClearUnlink, Done
<1>20. CASE CloseLoad
  BY <1>20 DEF CloseLoad
<1>21. CASE ClosePane
  BY <1>21 DEF ClosePane
<1>22. CASE CloseMark
  BY <1>22 DEF CloseMark, Done
<1>23. CASE WrapLoad
  BY <1>23 DEF WrapLoad
<1>24. CASE WrapArchive
  BY <1>24 DEF WrapArchive
<1>25. CASE WrapUnlink
  BY <1>25 DEF WrapUnlink
<1>26. CASE WrapSync
  BY <1>26 DEF WrapSync, Done
<1>27. CASE Crash
  BY <1>27 DEF Crash
<1>28. CASE Restart
  BY <1>28 DEF Restart, Done
<1>29. CASE \E v \in WorkerStatuses : ReportCheck(v)
  BY <1>29 DEF ReportCheck, InTurn
<1>30. CASE ReportOpen
  BY <1>30 DEF ReportOpen, InTurn
<1>31. CASE ReportWrite
  BY <1>31 DEF ReportWrite, InTurn
<1>32. CASE NoteWait
  BY <1>32 DEF NoteWait, InTurn
<1>33. CASE Stop
  BY <1>33 DEF Stop, InTurn, HasValidReport
<1>34. CASE Resume
  BY <1>34 DEF Resume
<1>35. CASE Vanish
  BY <1>35 DEF Vanish
<1>36. CASE Reuse
  BY <1>36 DEF Reuse
<1>37. QED
  BY <1>1, <1>2, <1>3, <1>4, <1>5, <1>6, <1>7, <1>8, <1>9, <1>10, <1>11, <1>12, <1>13,
     <1>14, <1>15, <1>16, <1>17, <1>18, <1>19, <1>20, <1>21, <1>22, <1>23, <1>24, <1>25,
     <1>26, <1>27, <1>28, <1>29, <1>30, <1>31, <1>32, <1>33, <1>34, <1>35, <1>36
  DEF Next, Proceed, WorkerStep

\* Of a worker that is explained, or has not stopped, no step but a clear takes the word.
LEMMA WordStep ==
  ASSUME QuietWhileWriting, GuardJudges, TypeInv, StopInv, ~Unexplained, [Next]_vars,
         ~ClearUnlink
  PROVE  ~Unexplained'
<1>a. /\ inst \in [st : {"none", "pending", "in-progress", "gone"}, closed : BOOLEAN]
      /\ rpt \in Rpt /\ stat \in Payload /\ copy \in Payload
  BY DEF TypeInv, TypeOK
<1>b. \A p \in {"sending", "resolving", "recording", "clearing"} : p \in Quiet
  BY DEF QuietWhileWriting
<1>c. "earlyStop" \notin Troubles /\ "renewing" \notin Troubles /\ "cancelling" \notin Troubles
  BY DEF GuardJudges
<1>d. "cancelled" \in Terminal
  BY DEF Terminal
<1> USE <1>a, <1>b, <1>c, <1>d DEF StopInv, Unexplained
<1>1. CASE UNCHANGED vars
  BY <1>1 DEF vars
<1>2. CASE WriteInstruction
  BY <1>2 DEF WriteInstruction
<1>3. CASE MarkPlanTask
  BY <1>3 DEF MarkPlanTask, Done
<1>4. CASE Launch
  BY <1>4 DEF Launch
<1>5. CASE WriteReceipt
  BY <1>5 DEF WriteReceipt, Done
<1>6. CASE ConfirmDispatch
  BY <1>6 DEF ConfirmDispatch, Done
<1>7. CASE LeaveUnconfirmed
  BY <1>7 DEF LeaveUnconfirmed, Done
<1>8. CASE ReplyLoad
  BY <1>8 DEF ReplyLoad
<1>9. CASE ReplySend
  BY <1>9 DEF ReplySend, Done
<1>10. CASE Redirect
  BY <1>10 DEF Redirect
<1>11. CASE ReplyResolve
  BY <1>11 DEF ReplyResolve, Done, Outdated
<1>12. CASE CancelOpen
  BY <1>12 DEF CancelOpen, Outdated
<1>13. CASE CancelWrite
  BY <1>13 DEF CancelWrite, Done, Outdated, Report
<1>14. CASE Recover
  BY <1>14 DEF Recover, RecoverProbe, ConfirmedClosed, Report
<1>15. CASE RecoverMark
  BY <1>15 DEF RecoverMark
<1>16. CASE RecoverJudge
  BY <1>16 DEF RecoverJudge, Done
<1>17. CASE RecoverRecord
  BY <1>17 DEF RecoverRecord, Done, Outdated
<1>18. CASE ClearLoad
  BY <1>18 DEF ClearLoad
<1>20. CASE CloseLoad
  BY <1>20 DEF CloseLoad
<1>21. CASE ClosePane
  BY <1>21 DEF ClosePane
<1>22. CASE CloseMark
  BY <1>22 DEF CloseMark, Done
<1>23. CASE WrapLoad
  BY <1>23 DEF WrapLoad
<1>24. CASE WrapArchive
  BY <1>24 DEF WrapArchive
<1>25. CASE WrapUnlink
  BY <1>25 DEF WrapUnlink
<1>26. CASE WrapSync
  BY <1>26 DEF WrapSync, Done
<1>27. CASE Crash
  BY <1>27 DEF Crash
<1>28. CASE Restart
  BY <1>28 DEF Restart, Done
<1>29. CASE \E v \in WorkerStatuses : ReportCheck(v)
  BY <1>29 DEF ReportCheck, InTurn
<1>30. CASE ReportOpen
  BY <1>30 DEF ReportOpen, InTurn
<1>31. CASE ReportWrite
  BY <1>31 DEF ReportWrite, InTurn
<1>32. CASE NoteWait
  BY <1>32 DEF NoteWait, InTurn
<1>33. CASE Stop
  BY <1>33 DEF Stop, InTurn, HasValidReport
<1>34. CASE Resume
  BY <1>34 DEF Resume
<1>35. CASE Vanish
  BY <1>35 DEF Vanish
<1>36. CASE Reuse
  BY <1>36 DEF Reuse
<1>37. QED
  BY <1>1, <1>2, <1>3, <1>4, <1>5, <1>6, <1>7, <1>8, <1>9, <1>10, <1>11, <1>12, <1>13,
     <1>14, <1>15, <1>16, <1>17, <1>18, <1>20, <1>21, <1>22, <1>23, <1>24, <1>25,
     <1>26, <1>27, <1>28, <1>29, <1>30, <1>31, <1>32, <1>33, <1>34, <1>35, <1>36
  DEF Next, Proceed, WorkerStep

\* A worker that has stopped left word of why, and only a clear takes it away, as long as
\* the worker takes no step while a reply, a recovery or a clear is written and the stop
\* guard judges every stop: whatever dies, vanishes or stays unconfirmed.
THEOREM StoppedIsExplainedAlways ==
  ASSUME QuietWhileWriting, GuardJudges
  PROVE  Spec => StoppedIsExplained
<1> DEFINE Inv == TypeInv /\ StopInv
<1>1. Init => Inv /\ ~Unexplained
  BY InitTyped DEF Init, StopInv, Unexplained
<1>2. Inv /\ [Next]_vars => Inv'
  BY TypeStep, StopStep
<1>3. Inv /\ [Next]_vars => [~Unexplained /\ Unexplained' => ClearUnlink]_vars
  BY WordStep
<1>4. QED
  BY <1>1, <1>2, <1>3, PTL DEF Spec, StoppedIsExplained

(***************************************************************************)
(* The roll call beside the task                                           *)
(***************************************************************************)
\* A pane leaves its worker for good, and what the commands take for granted about it
\* stays so: a confirmed dispatch has been launched, what is on record as closed or is
\* about to be is not the worker's, and an archived copy with a pane left to close is
\* that of a confirmed dispatch.
PaneFacts ==
  /\ receipt \/ inst.st = "in-progress" \/ at = "launched" => pane # "none"
  /\ inst.closed \/ at \in {"probed", "closed"} => pane \in {"free", "other"}
  /\ at \in {"archiving", "unlinking"} => inst.st \in {"pending", "in-progress"}
  /\ archive = "open" => inst.st \in {"in-progress", "gone"}
  /\ at = "unlinking" /\ inst.st = "in-progress" /\ pane = "own" => archive = "open"

\* The dispatch is confirmed, or was wrapped up with its pane open.
OnFile == inst.st = "in-progress" \/ archive = "open"

LEMMA InitPaneFacts == Init => PaneFacts
  BY DEF Init, PaneFacts

\* Every step of the task keeps them, whatever dies between two of them.
LEMMA PaneFactsStep == TypeInv /\ PaneFacts /\ [Next]_vars => PaneFacts'
<1> SUFFICES ASSUME TypeInv, PaneFacts, [Next]_vars PROVE PaneFacts'
  OBVIOUS
<1>a. /\ inst \in [st : {"none", "pending", "in-progress", "gone"}, closed : BOOLEAN]
      /\ pane \in {"none", "own", "free", "other"}
  BY DEF TypeInv, TypeOK
<1> USE <1>a DEF PaneFacts
<1>1. CASE UNCHANGED vars
  BY <1>1 DEF vars
<1>2. CASE WriteInstruction
  BY <1>2 DEF WriteInstruction
<1>3. CASE MarkPlanTask
  BY <1>3 DEF MarkPlanTask, Done
<1>4. CASE Launch
  BY <1>4 DEF Launch
<1>5. CASE WriteReceipt
  BY <1>5 DEF WriteReceipt, Done
<1>6. CASE ConfirmDispatch
  BY <1>6 DEF ConfirmDispatch, Done
<1>7. CASE LeaveUnconfirmed
  BY <1>7 DEF LeaveUnconfirmed, Done
<1>8. CASE ReplyLoad
  BY <1>8 DEF ReplyLoad
<1>9. CASE ReplySend
  BY <1>9 DEF ReplySend, Done
<1>10. CASE Redirect
  BY <1>10 DEF Redirect
<1>11. CASE ReplyResolve
  BY <1>11 DEF ReplyResolve, Done
<1>12. CASE CancelOpen
  BY <1>12 DEF CancelOpen
<1>13. CASE CancelWrite
  BY <1>13 DEF CancelWrite, Done
<1>14. CASE Recover
  BY <1>14 DEF Recover, RecoverProbe, ConfirmedClosed
<1>15. CASE RecoverMark
  BY <1>15 DEF RecoverMark
<1>16. CASE RecoverJudge
  BY <1>16 DEF RecoverJudge, Done
<1>17. CASE RecoverRecord
  BY <1>17 DEF RecoverRecord, Done
<1>18. CASE ClearLoad
  BY <1>18 DEF ClearLoad
<1>19. CASE ClearUnlink
  BY <1>19 DEF ClearUnlink, Done
<1>20. CASE CloseLoad
  BY <1>20 DEF CloseLoad
<1>21. CASE ClosePane
  BY <1>21 DEF ClosePane
<1>22. CASE CloseMark
  BY <1>22 DEF CloseMark, Done
<1>23. CASE WrapLoad
  BY <1>23 DEF WrapLoad
<1>24. CASE WrapArchive
  BY <1>24 DEF WrapArchive
<1>25. CASE WrapUnlink
  BY <1>25 DEF WrapUnlink
<1>26. CASE WrapSync
  BY <1>26 DEF WrapSync, Done
<1>27. CASE Crash
  BY <1>27 DEF Crash, Points
<1>28. CASE Restart
  BY <1>28 DEF Restart, Done
<1>29. CASE \E v \in WorkerStatuses : ReportCheck(v)
  BY <1>29 DEF ReportCheck, InTurn
<1>30. CASE ReportOpen
  BY <1>30 DEF ReportOpen, InTurn
<1>31. CASE ReportWrite
  BY <1>31 DEF ReportWrite, InTurn
<1>32. CASE NoteWait
  BY <1>32 DEF NoteWait, InTurn
<1>33. CASE Stop
  BY <1>33 DEF Stop, InTurn
<1>34. CASE Resume
  BY <1>34 DEF Resume
<1>35. CASE Vanish
  BY <1>35 DEF Vanish
<1>36. CASE Reuse
  BY <1>36 DEF Reuse
<1>37. QED
  BY <1>1, <1>2, <1>3, <1>4, <1>5, <1>6, <1>7, <1>8, <1>9, <1>10, <1>11, <1>12, <1>13,
     <1>14, <1>15, <1>16, <1>17, <1>18, <1>19, <1>20, <1>21, <1>22, <1>23, <1>24, <1>25,
     <1>26, <1>27, <1>28, <1>29, <1>30, <1>31, <1>32, <1>33, <1>34, <1>35, <1>36
  DEF Next, Proceed, WorkerStep

\* Whoever is in the pane by its worker's name was there before, and what is on file of
\* it stays on file.
LEMMA OwnStays ==
  ASSUME TypeInv, PaneFacts, [Next]_vars, pane' = "own", pane # "none"
  PROVE  pane = "own" /\ (OnFile => OnFile')
<1>a. inst \in [st : {"none", "pending", "in-progress", "gone"}, closed : BOOLEAN]
  BY DEF TypeInv, TypeOK
<1>1. pane = "own"
  <2>1. ~Launch /\ ~ClosePane /\ ~Vanish /\ ~Reuse
    BY DEF Launch, ClosePane, Vanish, Reuse
  <2>2. QED
    BY <2>1 DEF Next, Proceed, WorkerStep, vars, WriteInstruction, MarkPlanTask,
       WriteReceipt, ConfirmDispatch, LeaveUnconfirmed, ReplyLoad, ReplySend, ReplyResolve,
       Redirect, CancelOpen, CancelWrite, Recover, RecoverProbe, RecoverMark, RecoverJudge,
       RecoverRecord, ClearLoad, ClearUnlink, CloseLoad, CloseMark, WrapLoad, WrapArchive,
       WrapUnlink, WrapSync, Crash, Restart, ReportCheck, ReportOpen, ReportWrite, NoteWait, Stop,
       Resume, ClosePane
<1>2. ASSUME OnFile PROVE OnFile'
  <2> USE <1>a, <1>1, <1>2 DEF OnFile, PaneFacts
  <2>1. CASE WrapArchive
    BY <2>1 DEF WrapArchive
  <2>2. CASE WrapUnlink
    BY <2>2 DEF WrapUnlink
  <2>3. CASE CloseMark
    BY <2>3 DEF CloseMark
  <2>4. CASE ConfirmDispatch \/ RecoverMark \/ WriteInstruction
    BY <2>4 DEF ConfirmDispatch, RecoverMark, WriteInstruction
  <2>5. CASE UNCHANGED <<inst, archive>>
    BY <2>5
  <2>6. QED
    BY <2>1, <2>2, <2>3, <2>4, <2>5 DEF Next, Proceed, WorkerStep, vars, MarkPlanTask, Launch,
       WriteReceipt, LeaveUnconfirmed, ReplyLoad, ReplySend, ReplyResolve,
       Redirect, CancelOpen, CancelWrite, Recover, RecoverProbe, RecoverJudge,
       RecoverRecord, ClearLoad, ClearUnlink, CloseLoad, ClosePane, WrapLoad,
       WrapSync, Crash, Restart, ReportCheck, ReportOpen, ReportWrite, NoteWait, Stop,
       Resume, Vanish, Reuse
<1>3. QED
  BY <1>1, <1>2

\* An instruction that was written does not become unwritten, nor one that was archived
\* live again.
LEMMA StatusOnward ==
  ASSUME TypeInv, PaneFacts, [Next]_vars
  PROVE  /\ inst.st # "none" => inst'.st # "none"
         /\ inst.st = "gone" => inst'.st = "gone"
         /\ pane # "none" => pane' # "none"
<1>a. inst \in [st : {"none", "pending", "in-progress", "gone"}, closed : BOOLEAN]
  BY DEF TypeInv, TypeOK
<1> USE <1>a DEF PaneFacts
<1>1. CASE WriteInstruction \/ ConfirmDispatch \/ RecoverMark \/ CloseMark \/ WrapUnlink
  BY <1>1 DEF WriteInstruction, ConfirmDispatch, RecoverMark, CloseMark, WrapUnlink
<1>2. CASE UNCHANGED inst /\ (pane # "none" => pane' # "none")
  BY <1>2
<1>3. QED
  BY <1>1, <1>2 DEF Next, Proceed, WorkerStep, vars, MarkPlanTask, Launch,
     WriteReceipt, LeaveUnconfirmed, ReplyLoad, ReplySend, ReplyResolve,
     Redirect, CancelOpen, CancelWrite, Recover, RecoverProbe, RecoverJudge,
     RecoverRecord, ClearLoad, ClearUnlink, CloseLoad, ClosePane, WrapLoad, WrapArchive,
     WrapSync, Crash, Restart, ReportCheck, ReportOpen, ReportWrite, NoteWait, Stop,
     Resume, Vanish, Reuse

\* Herdr was read while the dispatch was on file, and the worker it listed, whose session
\* the report could read, is still there.
Attended == roll.known /\ Recognised /\ pane = "own"

\* How far a report has come with such a worker: the dispatch is on file all along, the
\* pane was among the open ones, a row that was loaded is the confirmed one's, and from
\* the row on the worker has a name unless the instruction was archived under the report.
AttendedInv ==
  Attended =>
    /\ roll.pc # "idle" => OnFile
    /\ roll.pc \in {"list", "load", "receipt", "status", "archive"} => roll.open
    /\ roll.pc \in {"receipt", "status"} => roll.st = "in-progress"
    /\ roll.pc = "archive" => roll.named \/ inst.st = "gone"
    /\ roll.pc = "reported" => roll.named

\* A row is of an instruction that was live; one that calls a listed worker absent has
\* it flagged beside it, or named by the archive.
RowInv ==
  /\ roll.agent = "own" => pane # "none"
  /\ roll.pc = "load" => inst.st # "none"
  /\ roll.pc \in {"receipt", "status"} => roll.st \in {"pending", "in-progress"}
  /\ roll.verdict \in {"orphaned", "never-launched"} /\ Recognised
       => roll.flagged \/ roll.named

RollInv == TypeInv /\ PaneFacts /\ RollTypeOK /\ RowInv /\ AttendedInv

LEMMA RollTypeStep ==
  ASSUME RollTypeOK, TypeInv', RollNext \/ UNCHANGED rollVars
  PROVE  RollTypeOK'
<1> DEFINE Pc == {"idle", "panes", "list", "load", "receipt", "status", "archive", "reported"}
           Who == {"none", "own", "other"}
           St == {"none", "pending", "in-progress"}
           Verdicts == {"none", "unreadable", "never-launched", "launched-unconfirmed",
                        "awaiting-collection", "orphaned", "checkpoint", "running"}
           Rolls == [pc : Pc, agent : Who, shown : BOOLEAN, idle : BOOLEAN, open : BOOLEAN, known : BOOLEAN,
                     st : St, receipt : BOOLEAN, verdict : Verdicts,
                     named : BOOLEAN, flagged : BOOLEAN]
<1>a. roll \in Rolls /\ kind \in Kinds
  BY DEF RollTypeOK
<1>b. SUFFICES roll' \in Rolls /\ kind' \in Kinds
  BY DEF RollTypeOK, TypeInv
<1>c. inst \in [st : {"none", "pending", "in-progress", "gone"}, closed : BOOLEAN] /\ receipt \in BOOLEAN
  BY DEF RollTypeOK, TypeOK
<1>d. NoRoll \in Rolls
  BY DEF NoRoll
<1>1. CASE RollStep /\ UNCHANGED <<vars, kind>>
  <2> USE <1>a, <1>1
  <2>1. CASE Look
    <3> DEFINE a == IF pane \in {"own", "other"} THEN pane ELSE "none"
               i == (worker = "stopped")
               k == (inst.st = "in-progress" \/ archive = "open")
    <3>1. a \in Who /\ i \in BOOLEAN /\ k \in BOOLEAN
      OBVIOUS
    <3>2. PICK h \in BOOLEAN : roll' = [NoRoll EXCEPT !.pc = "panes", !.agent = a, !.shown = h,
                                                      !.idle = i, !.known = k]
      BY <2>1 DEF Look
    <3>3. \A x \in Who, w \in BOOLEAN, y \in BOOLEAN, z \in BOOLEAN :
            [NoRoll EXCEPT !.pc = "panes", !.agent = x, !.shown = w, !.idle = y, !.known = z] \in Rolls
      BY DEF NoRoll
    <3> HIDE DEF a, i, k, Rolls
    <3>4. roll' \in Rolls
      BY <3>1, <3>2, <3>3
    <3>5. QED
      BY <3>4
  <2>2. CASE ListPanes
    <3> DEFINE o == (pane \in {"own", "other"})
    <3>1. roll' = [roll EXCEPT !.pc = "list", !.open = o] /\ o \in BOOLEAN
      BY <2>2 DEF ListPanes
    <3>2. QED
      BY <3>1
  <2>3. CASE ListInstructions
    BY <2>3 DEF ListInstructions
  <2>4. CASE LoadInstruction
    BY <2>4, <1>c DEF LoadInstruction, Reading
  <2>5. CASE ReadReceipt
    BY <2>5, <1>c DEF ReadReceipt
  <2>6. CASE Judge
    <3>1. Verdict \in Verdicts
      BY DEF Verdict
    <3>2. Carried \in BOOLEAN /\ (NoPaneOnFile /\ ~Carried /\ roll.agent = "own") \in BOOLEAN
      BY DEF Carried, Recognised
    <3>3. QED
      BY <2>6, <3>1, <3>2 DEF Judge
  <2>7. CASE ReadArchive
    <3> DEFINE stale == archive = "open" /\ roll.open /\ Leftover
    <3>1. roll' = [roll EXCEPT !.pc = "reported",
                     !.named = roll.named \/ (stale /\ roll.agent = "own"),
                     !.flagged = roll.flagged /\ ~stale]
      BY <2>7 DEF ReadArchive
    <3>2. (roll.named \/ (stale /\ roll.agent = "own")) \in BOOLEAN /\ (roll.flagged /\ ~stale) \in BOOLEAN
      OBVIOUS
    <3>3. QED
      BY <3>1, <3>2
  <2>8. CASE CallAgain
    BY <2>8, <1>d DEF CallAgain
  <2>9. QED
    BY <1>1, <2>1, <2>2, <2>3, <2>4, <2>5, <2>6, <2>7, <2>8 DEF RollStep
<1>2. CASE UNCHANGED <<kind, roll>>
  BY <1>a, <1>2
<1>3. QED
  BY <1>1, <1>2 DEF RollNext, rollVars

\* While the task goes its way, what the report has read of it stays as it was.
LEMMA RollKeptByTask ==
  ASSUME RollInv, [Next]_vars, UNCHANGED <<kind, roll>>
  PROVE  RowInv' /\ AttendedInv'
<1>1. RowInv'
  BY StatusOnward DEF RollInv, RowInv, Recognised
<1>2. ASSUME Attended' PROVE Attended /\ (OnFile => OnFile')
  BY <1>2, OwnStays DEF RollInv, RowInv, Attended, Recognised
<1>3. AttendedInv'
  BY <1>2, StatusOnward DEF RollInv, AttendedInv
<1>4. QED
  BY <1>1, <1>3

\* Each read of the report keeps what the earlier ones found.
LEMMA RollKeptByRead ==
  ASSUME RollInv, RollStep, UNCHANGED <<vars, kind>>
  PROVE  RowInv' /\ AttendedInv'
<1>a. /\ inst \in [st : {"none", "pending", "in-progress", "gone"}, closed : BOOLEAN]
      /\ pane \in {"none", "own", "free", "other"} /\ kind \in {"claude", "codex"}
      /\ UNCHANGED <<inst, receipt, archive, stat, pane>>
      /\ archive = "open" => inst.st \in {"in-progress", "gone"}
  BY RollCallAssumption DEF RollInv, RollTypeOK, TypeOK, PaneFacts, vars
<1>b. roll \in [pc : {"idle", "panes", "list", "load", "receipt", "status", "archive", "reported"},
                agent : {"none", "own", "other"}, shown : BOOLEAN, idle : BOOLEAN,
                open : BOOLEAN, known : BOOLEAN,
                st : {"none", "pending", "in-progress"}, receipt : BOOLEAN,
                verdict : {"none", "unreadable", "never-launched", "launched-unconfirmed",
                           "awaiting-collection", "orphaned", "checkpoint", "running"},
                named : BOOLEAN, flagged : BOOLEAN]
  BY DEF RollInv, RollTypeOK
<1>c. RowInv /\ AttendedInv
  BY DEF RollInv
<1> USE <1>a, <1>b, <1>c DEF RowInv, AttendedInv, Attended, Recognised, OnFile, Reading
<1>1. CASE Look
  <2>1. PICK shown \in BOOLEAN : roll' = [NoRoll EXCEPT
          !.pc = "panes", !.agent = IF pane \in {"own", "other"} THEN pane ELSE "none",
          !.shown = shown, !.idle = (worker = "stopped"),
          !.known = (inst.st = "in-progress" \/ archive = "open")]
    BY <1>1 DEF Look
  <2>2. /\ roll'.pc = "panes" /\ roll'.verdict = "none"
        /\ roll'.agent = "own" => pane = "own"
        /\ roll'.known => OnFile
    BY <2>1 DEF NoRoll
  <2>3. QED
    BY <2>2
<1>2. CASE ListPanes
  BY <1>2 DEF ListPanes
<1>3. CASE ListInstructions
  BY <1>3 DEF ListInstructions
<1>4. CASE LoadInstruction
  BY <1>4 DEF LoadInstruction
<1>5. CASE ReadReceipt
  BY <1>5 DEF ReadReceipt
<1>6. CASE Judge
  <2>1. /\ roll'.pc = "archive" /\ roll'.verdict = Verdict /\ roll'.named = Carried
        /\ roll'.flagged = (NoPaneOnFile /\ ~Carried /\ roll.agent = "own")
        /\ roll'.agent = roll.agent /\ roll'.known = roll.known /\ roll'.open = roll.open
        /\ roll'.shown = roll.shown /\ roll.pc = "status"
    BY <1>6 DEF Judge
  <2>2. Recognised /\ roll.st = "in-progress" => Carried
    BY DEF Carried
  <2>3. Verdict \in {"orphaned", "never-launched"} => ~Carried
    BY <2>1 DEF Verdict
  <2>4. Recognised /\ ~Carried => NoPaneOnFile
    BY <2>1, <2>2 DEF Carried, NoPaneOnFile
  <2>5. QED
    BY <2>1, <2>2, <2>3, <2>4
<1>7. CASE ReadArchive
  <2> DEFINE stale == archive = "open" /\ roll.open /\ Leftover
  <2>1. /\ roll'.pc = "reported" /\ roll'.verdict = roll.verdict
        /\ roll'.named = (roll.named \/ (stale /\ roll.agent = "own"))
        /\ roll'.flagged = (roll.flagged /\ ~stale)
        /\ roll'.agent = roll.agent /\ roll'.known = roll.known
        /\ roll'.shown = roll.shown /\ roll.pc = "archive"
    BY <1>7 DEF ReadArchive
  <2>2. Recognised => Leftover
    BY DEF Leftover
  <2>3. RowInv'
    BY <2>1
  <2>4. Attended /\ ~roll.named => stale
    BY <2>1, <2>2
  <2>5. QED
    BY <2>1, <2>3, <2>4
<1>8. CASE CallAgain
  BY <1>8 DEF CallAgain, NoRoll
<1>9. QED
  BY <1>1, <1>2, <1>3, <1>4, <1>5, <1>6, <1>7, <1>8 DEF RollStep

LEMMA RollInvInit == RollInit => RollInv
<1>1. RollInit => RollTypeOK
  BY InitTyped DEF RollInit, RollTypeOK, TypeInv, NoRoll
<1>2. QED
  BY <1>1, InitTyped, InitPaneFacts DEF RollInit, RollInv, RowInv, AttendedInv, Attended, Recognised, NoRoll

LEMMA RollInvStep == RollInv /\ [RollNext]_rollVars => RollInv'
<1> SUFFICES ASSUME RollInv, RollNext \/ UNCHANGED rollVars PROVE RollInv'
  OBVIOUS
<1>1. [Next]_vars
  BY DEF RollNext, rollVars
<1>2. TypeInv' /\ PaneFacts'
  BY <1>1, TypeStep, PaneFactsStep DEF RollInv
<1>3. RollTypeOK'
  BY <1>2, RollTypeStep DEF RollInv
<1>4. RowInv' /\ AttendedInv'
  <2>1. CASE UNCHANGED <<kind, roll>>
    BY <1>1, <2>1, RollKeptByTask
  <2>2. CASE RollStep /\ UNCHANGED <<vars, kind>>
    BY <2>2, RollKeptByRead
  <2>3. QED
    BY <2>1, <2>2 DEF RollNext, rollVars
<1>5. QED
  BY <1>2, <1>3, <1>4 DEF RollInv

\* What a report has read is well typed, wherever it stands.
THEOREM RollTypeCorrect == RollSpec => []RollTypeOK
<1>1. RollInv => RollTypeOK
  BY DEF RollInv
<1>2. QED
  BY <1>1, RollInvInit, RollInvStep, PTL DEF RollSpec

\* No report calls a dispatch orphaned, or never launched, whose worker herdr listed with a
\* session the report could read, without naming that worker's pane: whatever the coordinator, the worker and herdr do
\* between two of its reads, and whatever dies.
THEOREM AbsentMeansGoneAlways == RollSpec => []AbsentMeansGone
<1>1. RollInv => AbsentMeansGone
  BY DEF RollInv, RowInv, AbsentMeansGone
<1>2. QED
  BY <1>1, RollInvInit, RollInvStep, PTL DEF RollSpec

\* A worker that was on file and listed with a readable session when the report began, and
\* that still sits in its pane when it ends, is named in it, its dispatch wrapped up meanwhile or not.
THEOREM WorkerIsNamedAlways == RollSpec => []WorkerIsNamed
<1>1. RollInv => WorkerIsNamed
  BY DEF RollInv, AttendedInv, Attended, WorkerIsNamed, Reading
<1>2. QED
  BY <1>1, RollInvInit, RollInvStep, PTL DEF RollSpec
(***************************************************************************)
(* Refinement: the dispatched task keeps what plan.json promises of it.    *)
(***************************************************************************)
\* Before the instruction is written there is no pane; while its entry is being marked the
\* entry is still planned and nobody works, and from then on it is dispatched as long as the
\* instruction is live; a sync comes after the unlink.
EntryInv ==
  /\ inst.st = "none" => pane = "none" /\ plan = "planned"
  /\ at = "marking" => inst.st = "pending" /\ plan = "planned" /\ pane = "none"
  /\ inst.st \in {"pending", "in-progress"} /\ at # "marking" => plan = "dispatched"
  /\ at = "syncing" => inst.st = "gone"

KeptInv == TypeInv /\ PaneFacts /\ EntryInv

\* What a step that concerns neither the entry nor the due outcome leaves alone.
Elsewhere ==
  /\ UNCHANGED plan
  /\ inst'.st = "gone" <=> inst.st = "gone"
  /\ pane' = "none" <=> pane = "none"
  /\ at' = "syncing" <=> at = "syncing"
  /\ at = "syncing" => UNCHANGED copy

\* The steps of a task the abstract one knows.
Telling == MarkPlanTask \/ Launch \/ WrapUnlink \/ WrapSync \/ Crash

LEMMA ElsewhereStep ==
  ASSUME TypeInv, PaneFacts, [Next]_vars, ~Telling
  PROVE  Elsewhere
<1>a. inst \in [st : {"none", "pending", "in-progress", "gone"}, closed : BOOLEAN]
  BY DEF TypeInv, TypeOK
<1> USE <1>a DEF Elsewhere
<1>1. CASE UNCHANGED vars
  BY <1>1 DEF vars
<1>2. CASE WriteInstruction \/ WriteReceipt \/ ConfirmDispatch \/ LeaveUnconfirmed
  BY <1>2 DEF WriteInstruction, WriteReceipt, ConfirmDispatch, LeaveUnconfirmed, Done
<1>3. CASE ReplyLoad \/ ReplySend \/ ReplyResolve \/ Redirect
  BY <1>3 DEF ReplyLoad, ReplySend, ReplyResolve, Redirect, Done
<1>4. CASE CancelOpen \/ CancelWrite \/ ClearLoad \/ ClearUnlink
  BY <1>4 DEF CancelOpen, CancelWrite, ClearLoad, ClearUnlink, Done
<1>5. CASE Recover \/ RecoverMark \/ RecoverJudge \/ RecoverRecord
  BY <1>5 DEF Recover, RecoverProbe, RecoverMark, RecoverJudge, RecoverRecord, Done
<1>6. CASE CloseLoad \/ ClosePane \/ CloseMark
  BY <1>6 DEF CloseLoad, ClosePane, CloseMark, Done
<1>7. CASE WrapLoad \/ WrapArchive
  BY <1>7 DEF WrapLoad, WrapArchive
<1>8. CASE Restart
  BY <1>8 DEF Restart, Done
<1>9. CASE WorkerStep
  BY <1>9 DEF WorkerStep, ReportCheck, ReportOpen, ReportWrite, NoteWait, Stop, Resume
<1>10. CASE Vanish \/ Reuse
  BY <1>10 DEF Vanish, Reuse
<1>11. QED
  BY <1>1, <1>2, <1>3, <1>4, <1>5, <1>6, <1>7, <1>8, <1>9, <1>10 DEF Next, Proceed, Telling

LEMMA EntryStep ==
  ASSUME "marking" \notin Troubles, KeptInv, [Next]_vars
  PROVE  EntryInv'
<1>a. inst \in [st : {"none", "pending", "in-progress", "gone"}, closed : BOOLEAN]
  BY DEF KeptInv, TypeInv, TypeOK
<1>b. inst.st # "none" => inst'.st # "none"
  BY StatusOnward DEF KeptInv
<1>1. CASE MarkPlanTask \/ Launch
  BY <1>1, <1>b DEF MarkPlanTask, Launch, Done, KeptInv, EntryInv
<1>2. CASE WrapUnlink
  BY <1>a, <1>2 DEF WrapUnlink, KeptInv, EntryInv
<1>3. CASE WrapSync \/ Crash
  BY <1>3 DEF WrapSync, Crash, Done, KeptInv, EntryInv
<1>4. CASE WriteInstruction
  BY <1>a, <1>4 DEF WriteInstruction, KeptInv, EntryInv
<1>5. ASSUME ~Telling, ~WriteInstruction
      PROVE  EntryInv'
  <2>1. Elsewhere
    BY <1>5, ElsewhereStep DEF KeptInv
  <2>2. at' = "marking" => at = "marking" /\ UNCHANGED inst
    BY <1>5 DEF Telling, Next, Proceed, WorkerStep, vars, WriteReceipt, ConfirmDispatch,
       LeaveUnconfirmed, ReplyLoad, ReplySend, ReplyResolve, Redirect, CancelOpen, CancelWrite,
       Recover, RecoverProbe, RecoverMark, RecoverJudge, RecoverRecord, ClearLoad, ClearUnlink,
       CloseLoad, ClosePane, CloseMark, WrapLoad, WrapArchive, Restart, ReportCheck, ReportOpen,
       ReportWrite, NoteWait, Stop, Resume, Vanish, Reuse, Done
  <2>3. at = "marking" => at' = "marking"
    BY <1>5 DEF Telling, Next, Proceed, WorkerStep, vars, WriteReceipt, ConfirmDispatch,
       LeaveUnconfirmed, ReplyLoad, ReplySend, ReplyResolve, Redirect, CancelOpen, CancelWrite,
       Recover, RecoverProbe, RecoverMark, RecoverJudge, RecoverRecord, ClearLoad, ClearUnlink,
       CloseLoad, ClosePane, CloseMark, WrapLoad, WrapArchive, Restart, ReportCheck, ReportOpen,
       ReportWrite, NoteWait, Stop, Resume, Vanish, Reuse
  <2>4. inst.st = "none" => inst'.st = "none"
    BY <1>a, <1>5 DEF Telling, Next, Proceed, WorkerStep, vars, WriteReceipt, ConfirmDispatch,
       LeaveUnconfirmed, ReplyLoad, ReplySend, ReplyResolve, Redirect, CancelOpen, CancelWrite,
       Recover, RecoverProbe, RecoverMark, RecoverJudge, RecoverRecord, ClearLoad, ClearUnlink,
       CloseLoad, ClosePane, CloseMark, WrapLoad, WrapArchive, Restart, ReportCheck, ReportOpen,
       ReportWrite, NoteWait, Stop, Resume, Vanish, Reuse
  <2>5. inst'.st \in {"pending", "in-progress"} => inst.st \in {"pending", "in-progress"}
    BY <1>a, <2>1, <2>4 DEF Elsewhere
  <2>6. QED
    BY <1>b, <2>1, <2>2, <2>3, <2>5 DEF Elsewhere, KeptInv, EntryInv
<1>6. QED
  BY <1>1, <1>2, <1>3, <1>4, <1>5 DEF Telling

LEMMA KeptInvariance ==
  ASSUME "marking" \notin Troubles
  PROVE  Spec => []KeptInv
<1>1. Init => KeptInv
  BY InitTyped, InitPaneFacts DEF Init, KeptInv, EntryInv
<1>2. KeptInv /\ [Next]_vars => KeptInv'
  BY TypeStep, PaneFactsStep, EntryStep DEF KeptInv
<1>3. QED
  BY <1>1, <1>2, PTL DEF Spec

\* Every step of the task is a step of the abstract one, or none of it.
LEMMA KeptStep ==
  ASSUME KeptInv, [Next]_vars
  PROVE  [Kept!TaskNext]_(Kept!vars)
<1>a. inst \in [st : {"none", "pending", "in-progress", "gone"}, closed : BOOLEAN]
  BY DEF KeptInv, TypeInv, TypeOK
<1> USE DEF Kept!vars, Kept!TaskNext, Kept!Open, Given, Due
<1>1. CASE MarkPlanTask
  BY <1>1 DEF MarkPlanTask, Done, KeptInv, EntryInv, Kept!Mark
<1>2. CASE Launch
  BY <1>2 DEF Launch, KeptInv, EntryInv, Kept!Give
<1>3. CASE WrapUnlink
  <2>1. /\ inst.st # "gone" /\ inst'.st = "gone" /\ at' = "syncing"
        /\ UNCHANGED <<plan, pane, copy>>
    BY <1>a, <1>3 DEF WrapUnlink, KeptInv, PaneFacts
  <2>2. copy.val \in Terminal
    BY <1>3 DEF WrapUnlink, KeptInv, TypeInv, WrapHoldsOutcome, Wrapping, IsTerminal
  <2>3. Kept!WrapUp(copy.val)
    BY <2>1 DEF Kept!WrapUp
  <2>4. QED
    BY <2>2, <2>3
<1>4. CASE WrapSync
  <2>1. /\ inst.st = "gone" /\ at = "syncing" /\ at' = "idle"
        /\ plan' = copy.val /\ UNCHANGED <<inst, pane>>
    BY <1>4 DEF WrapSync, Done, KeptInv, EntryInv
  <2>2. copy.val \in Terminal
    BY <1>4 DEF WrapSync, KeptInv, TypeInv, WrapHoldsOutcome, Wrapping, IsTerminal
  <2>3. Kept!Sync
    BY <2>1, <2>2 DEF Kept!Sync
  <2>4. QED
    BY <2>3
<1>5. CASE Crash
  <2>1. at' = "down" /\ UNCHANGED <<plan, inst, pane>>
    BY <1>5 DEF Crash
  <2>2. CASE at = "syncing"
    <3>1. inst.st = "gone" /\ copy.val \in Terminal
      BY <2>2 DEF KeptInv, EntryInv, TypeInv, WrapHoldsOutcome, Wrapping, IsTerminal
    <3>2. Kept!LoseSync
      BY <2>1, <2>2, <3>1 DEF Kept!LoseSync
    <3>3. QED
      BY <3>2
  <2>3. CASE at # "syncing"
    BY <2>1, <2>3
  <2>4. QED
    BY <2>2, <2>3
<1>6. CASE ~Telling
  BY <1>6, ElsewhereStep DEF Elsewhere, KeptInv
<1>7. QED
  BY <1>1, <1>2, <1>3, <1>4, <1>5, <1>6 DEF Telling

\* A dispatched task implements the abstract one, if no write dies between the instruction
\* and the mark: its entry is marked once, before the one worker is launched, and settled
\* once, with the outcome its wrap-up read; in any order of the coordinator's commands,
\* whatever dies between two other steps and whatever the worker does.
THEOREM TaskImplemented ==
  ASSUME "marking" \notin Troubles
  PROVE  Spec => ImplementsTask
<1>1. Init => Kept!TaskInit
  BY DEF Init, Kept!TaskInit, Given, Due
<1>2. KeptInv /\ [Next]_vars => [Kept!TaskNext]_(Kept!vars)
  BY KeptStep
<1>3. QED
  BY <1>1, <1>2, KeptInvariance, PTL DEF Spec, ImplementsTask, Kept!TaskSpec
=============================================================================
