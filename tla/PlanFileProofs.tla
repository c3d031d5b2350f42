--------------------------- MODULE PlanFileProofs ---------------------------
(***************************************************************************)
(* Theorems about PlanFile, for every set of tasks, every dependency       *)
(* relation and every number of processes.                                 *)
(***************************************************************************)
EXTENDS PlanFile, FiniteSetTheorems, TLAPS

Marking == {"marking", "marked"}
Syncing == {"unlinked", "syncing"}
Active  == Marking \cup Syncing

(***************************************************************************)
(* Types                                                                   *)
(***************************************************************************)
\* A command under way has a task, and a wrap-up the outcome it found.
CommandsKnowTheirTask ==
  \A p \in Procs :
    /\ proc[p].op \in Active => proc[p].task \in Tasks
    /\ proc[p].op \in Syncing => proc[p].val \in Terminal

TypeInv == TypeOK /\ CommandsKnowTheirTask

LEMMA IdleTyped ==
  /\ IdleProc \in ProcState
  /\ IdleProc.op = "idle"
  /\ \A t \in Tasks, v \in Terminal \cup {"none"}, c \in Plans, o \in Commands :
       [op |-> o, task |-> t, copy |-> c, val |-> v] \in ProcState
  BY DEF IdleProc, ProcState, NoPlan, Plans

\* Loading the plan changes nothing else of a command.
Loaded(r, o) == [r EXCEPT !.op = o, !.copy = plan]

LEMMA LoadTyped ==
  ASSUME NEW r \in ProcState, NEW o \in Commands, plan \in Plans
  PROVE  /\ Loaded(r, o) \in ProcState
         /\ Loaded(r, o).op = o
         /\ Loaded(r, o).copy = plan
         /\ Loaded(r, o).task = r.task
         /\ Loaded(r, o).val = r.val
  BY DEF ProcState, Loaded

LEMMA TypeStep == PlanAssumption /\ TypeInv /\ [Next]_vars => TypeInv'
<1> SUFFICES ASSUME PlanAssumption, TypeInv, [Next]_vars PROVE TypeInv'
  OBVIOUS
<1> USE IdleTyped DEF TypeInv, TypeOK, CommandsKnowTheirTask, Active, Marking, Syncing
<1>1. ASSUME Schedule
      PROVE  TypeInv'
  BY <1>1 DEF Schedule, Ready
<1>2. ASSUME NEW p \in Procs, NEW t \in Tasks, WriteInstruction(p, t)
      PROVE  TypeInv'
  <2> DEFINE r == [IdleProc EXCEPT !.op = "marking", !.task = t]
  <2>1. r \in ProcState /\ r.op = "marking" /\ r.task = t
    BY <1>2 DEF ProcState, Commands, IdleProc
  <2>2. proc' = [proc EXCEPT ![p] = r]
    BY <1>2 DEF WriteInstruction
  <2> HIDE DEF r
  <2>3. QED
    BY <1>2, <2>1, <2>2 DEF WriteInstruction
<1>3. ASSUME NEW p \in Procs, NEW t \in Tasks, WrapUp(p, t)
      PROVE  TypeInv'
  <2> DEFINE r == [IdleProc EXCEPT !.op = "unlinked", !.task = t, !.val = file[t].st]
  <2>1. r \in ProcState /\ r.op = "unlinked" /\ r.task = t /\ r.val \in Terminal
    BY <1>3 DEF WrapUp, ProcState, Commands, IdleProc
  <2>2. proc' = [proc EXCEPT ![p] = r]
    BY <1>3 DEF WrapUp
  <2> HIDE DEF r
  <2>3. QED
    BY <1>3, <2>1, <2>2 DEF WrapUp
<1>4. ASSUME NEW p \in Procs, MarkLoad(p)
      PROVE  TypeInv'
  <2>0. proc[p] \in ProcState /\ plan \in Plans /\ "marked" \in Commands
    BY DEF Commands
  <2> DEFINE r == Loaded(proc[p], "marked")
  <2>1. r \in ProcState /\ r.op = "marked" /\ r.task = proc[p].task
    BY <2>0, LoadTyped
  <2>2. proc' = [proc EXCEPT ![p] = r]
    BY <1>4 DEF MarkLoad, Loaded
  <2> HIDE DEF r
  <2>3. QED
    BY <1>4, <2>1, <2>2 DEF MarkLoad
<1>5. ASSUME NEW p \in Procs, MarkDump(p)
      PROVE  TypeInv'
  BY <1>5 DEF MarkDump, ProcState, Plans
<1>6. ASSUME NEW p \in Procs, SyncLoad(p)
      PROVE  TypeInv'
  <2>0. proc[p] \in ProcState /\ plan \in Plans /\ "syncing" \in Commands
    BY DEF Commands
  <2> DEFINE r == Loaded(proc[p], "syncing")
  <2>1. r \in ProcState /\ r.op = "syncing" /\ r.task = proc[p].task /\ r.val = proc[p].val
    BY <2>0, LoadTyped
  <2>2. proc' = [proc EXCEPT ![p] = r]
    BY <1>6 DEF SyncLoad, Loaded
  <2> HIDE DEF r
  <2>3. QED
    BY <1>6, <2>1, <2>2 DEF SyncLoad
<1>7. ASSUME NEW p \in Procs, SyncDump(p)
      PROVE  TypeInv'
  BY <1>7 DEF SyncDump, ProcState, Plans
<1>8. ASSUME NEW p \in Procs, Resume(p)
      PROVE  TypeInv'
  BY <1>8 DEF Resume
<1>9. ASSUME NEW p \in Procs, Crash(p)
      PROVE  TypeInv'
  BY <1>9 DEF Crash, ProcState, Commands
<1>10. ASSUME NEW t \in Tasks, Launch(t)
      PROVE  TypeInv'
  BY <1>10 DEF Launch
<1>11. ASSUME NEW t \in Tasks, ReportOpen(t)
      PROVE  TypeInv'
  BY <1>11 DEF ReportOpen, Files
<1>12. ASSUME NEW t \in Tasks, Scan(t)
      PROVE  TypeInv'
  BY <1>12 DEF Scan, Files
<1>13. ASSUME NEW t \in Tasks, NEW s \in Reported, ReportWrite(t, s)
      PROVE  TypeInv'
  <2>1. file' \in [Tasks -> Files]
    BY <1>13 DEF ReportWrite, Files
  <2>2. outcomes' \in [Tasks -> SUBSET Terminal]
    BY <1>13 DEF ReportWrite
  <2>3. QED
    BY <1>13, <2>1, <2>2 DEF ReportWrite
<1>14. CASE UNCHANGED vars
  BY <1>14 DEF vars
<1>15. QED
  BY <1>1, <1>2, <1>3, <1>4, <1>5, <1>6, <1>7, <1>8, <1>9, <1>10, <1>11, <1>12, <1>13, <1>14
  DEF Next, Dispatch, Proceed

LEMMA InitTyped == PlanAssumption /\ Init => TypeInv
  BY IdleTyped DEF PlanAssumption, Init, TypeInv, TypeOK, CommandsKnowTheirTask, Plans, NoPlan,
     Files, NoFile, Active, Marking, Syncing

\* Every reachable state is well typed.
THEOREM TypeCorrect ==
  ASSUME PlanAssumption
  PROVE  Spec => []TypeOK
<1>1. TypeInv => TypeOK
  BY DEF TypeInv
<1>2. QED
  BY <1>1, InitTyped, TypeStep, PTL DEF Spec

(***************************************************************************)
(* Prerequisites                                                           *)
(***************************************************************************)
\* What a task has had as its outcome it has had for good.
LEMMA OutcomeStands ==
  ASSUME TypeInv, [Next]_vars, NEW t \in Tasks
  PROVE  outcomes[t] \subseteq outcomes'[t]
<1> USE DEF TypeInv, TypeOK
<1>1. ASSUME NEW u \in Tasks, NEW s \in Reported, ReportWrite(u, s)
      PROVE  outcomes[t] \subseteq outcomes'[t]
  BY <1>1 DEF ReportWrite
<1>2. CASE UNCHANGED outcomes
  BY <1>2
<1>3. QED
  BY <1>1, <1>2 DEF Next, Dispatch, Proceed, vars, Schedule, WriteInstruction, MarkLoad,
     MarkDump, Launch, WrapUp, SyncLoad, SyncDump, Crash, Resume, Scan, ReportOpen

\* The outcomes in the status files, in plan.json, in a loaded copy of it and in a
\* wrap-up's hands are ones that were reported.
FileOutcomes == \A t \in Tasks : file[t].st \in Terminal => file[t].st \in outcomes[t]
PlanOutcomes == \A t \in Tasks : plan[t] \in Terminal => plan[t] \in outcomes[t]
CopyOutcomes ==
  \A p \in Procs : proc[p].op \in {"marked", "syncing"} =>
    \A t \in Tasks : proc[p].copy[t] \in Terminal => proc[p].copy[t] \in outcomes[t]
HeldOutcome == \A p \in Procs : proc[p].op \in Syncing => proc[p].val \in outcomes[proc[p].task]

Met(t) == \A d \in DependsOn[t] : "done" \in outcomes[d]

\* Whatever was chosen for dispatch had its prerequisites reported done.
ChosenMet ==
  /\ \A t \in wave \cup pend : Met(t)
  /\ \A t \in Tasks : runs[t] > 0 => Met(t)
  /\ \A p \in Procs : proc[p].op \in Marking => Met(proc[p].task)

OutcomeInv == TypeInv /\ FileOutcomes /\ PlanOutcomes /\ CopyOutcomes /\ HeldOutcome

LEMMA OutcomeStep == PlanAssumption /\ OutcomeInv /\ [Next]_vars => OutcomeInv'
<1> SUFFICES ASSUME PlanAssumption, OutcomeInv, [Next]_vars PROVE OutcomeInv'
  OBVIOUS
<1>a. TypeInv'
  BY TypeStep DEF OutcomeInv
<1>b. \A t \in Tasks : outcomes[t] \subseteq outcomes'[t]
  BY OutcomeStands DEF OutcomeInv
<1>c. \A p \in Procs : /\ proc[p] \in ProcState
                       /\ proc[p].op \in Active => proc[p].task \in Tasks
                       /\ proc[p].op \in Syncing => proc[p].val \in Terminal
  BY DEF OutcomeInv, TypeInv, TypeOK, CommandsKnowTheirTask
<1>d. /\ proc \in [Procs -> ProcState] /\ plan \in Plans /\ file \in [Tasks -> Files]
      /\ outcomes \in [Tasks -> SUBSET Terminal]
  BY DEF OutcomeInv, TypeInv, TypeOK
<1>e. {"dispatched", "torn"} \cap Terminal = {}
  BY DEF Terminal
<1>f. SUFFICES FileOutcomes' /\ PlanOutcomes' /\ CopyOutcomes' /\ HeldOutcome'
  BY <1>a DEF OutcomeInv
<1>g. IdleProc.op \notin Active /\ "down" \notin Active
  BY DEF IdleProc, Active, Marking, Syncing
<1> USE <1>b, <1>c, <1>d, <1>e, <1>g DEF OutcomeInv, FileOutcomes, PlanOutcomes, CopyOutcomes, HeldOutcome,
        Active, Marking, Syncing
<1>1. ASSUME Schedule
      PROVE  FileOutcomes' /\ PlanOutcomes' /\ CopyOutcomes' /\ HeldOutcome'
  BY <1>1 DEF Schedule
<1>2. ASSUME NEW p \in Procs, NEW t \in Tasks, WriteInstruction(p, t)
      PROVE  FileOutcomes' /\ PlanOutcomes' /\ CopyOutcomes' /\ HeldOutcome'
  BY <1>2 DEF WriteInstruction, IdleProc
<1>3. ASSUME NEW p \in Procs, NEW t \in Tasks, WrapUp(p, t)
      PROVE  FileOutcomes' /\ PlanOutcomes' /\ CopyOutcomes' /\ HeldOutcome'
  BY <1>3 DEF WrapUp, IdleProc
<1>4. ASSUME NEW p \in Procs, MarkLoad(p)
      PROVE  FileOutcomes' /\ PlanOutcomes' /\ CopyOutcomes' /\ HeldOutcome'
  BY <1>4 DEF MarkLoad, ProcState
<1>5. ASSUME NEW p \in Procs, MarkDump(p)
      PROVE  FileOutcomes' /\ PlanOutcomes' /\ CopyOutcomes' /\ HeldOutcome'
  BY <1>5 DEF MarkDump, Plans, ProcState
<1>6. ASSUME NEW p \in Procs, SyncLoad(p)
      PROVE  FileOutcomes' /\ PlanOutcomes' /\ CopyOutcomes' /\ HeldOutcome'
  BY <1>6 DEF SyncLoad, ProcState
<1>7. ASSUME NEW p \in Procs, SyncDump(p)
      PROVE  FileOutcomes' /\ PlanOutcomes' /\ CopyOutcomes' /\ HeldOutcome'
  BY <1>7 DEF SyncDump, Plans, ProcState
<1>8. ASSUME NEW p \in Procs, Resume(p)
      PROVE  FileOutcomes' /\ PlanOutcomes' /\ CopyOutcomes' /\ HeldOutcome'
  BY <1>8 DEF Resume
<1>9. ASSUME NEW p \in Procs, Crash(p)
      PROVE  FileOutcomes' /\ PlanOutcomes' /\ CopyOutcomes' /\ HeldOutcome'
  BY <1>9 DEF Crash, IdleProc
<1>10. ASSUME NEW t \in Tasks, Launch(t)
      PROVE  FileOutcomes' /\ PlanOutcomes' /\ CopyOutcomes' /\ HeldOutcome'
  BY <1>10 DEF Launch
<1>11. ASSUME NEW t \in Tasks, ReportOpen(t)
      PROVE  FileOutcomes' /\ PlanOutcomes' /\ CopyOutcomes' /\ HeldOutcome'
  <2>1. UNCHANGED <<plan, proc, outcomes>>
    BY <1>11 DEF ReportOpen
  <2>2. \A u \in Tasks : file'[u].st = file[u].st \/ file'[u].st = "torn"
    BY <1>11 DEF ReportOpen
  <2>3. FileOutcomes'
    BY <2>1, <2>2
  <2>4. QED
    BY <2>1, <2>3
<1>12. ASSUME NEW t \in Tasks, Scan(t)
      PROVE  FileOutcomes' /\ PlanOutcomes' /\ CopyOutcomes' /\ HeldOutcome'
  BY <1>12 DEF Scan
<1>13. ASSUME NEW t \in Tasks, NEW s \in Reported, ReportWrite(t, s)
      PROVE  FileOutcomes' /\ PlanOutcomes' /\ CopyOutcomes' /\ HeldOutcome'
  <2>1. UNCHANGED <<plan, proc>>
    BY <1>13 DEF ReportWrite
  <2>2. /\ \A u \in Tasks : u # t => file'[u] = file[u]
        /\ file'[t].st = s /\ (s \in Terminal => s \in outcomes'[t])
    BY <1>13 DEF ReportWrite
  <2>3. FileOutcomes'
    BY <2>2
  <2>4. QED
    BY <2>1, <2>3
<1>14. CASE UNCHANGED vars
  BY <1>14 DEF vars
<1>15. QED
  BY <1>1, <1>2, <1>3, <1>4, <1>5, <1>6, <1>7, <1>8, <1>9, <1>10, <1>11, <1>12, <1>13, <1>14
  DEF Next, Dispatch, Proceed

LEMMA ChosenStep ==
  PlanAssumption /\ OutcomeInv /\ ChosenMet /\ [Next]_vars => ChosenMet'
<1> SUFFICES ASSUME PlanAssumption, OutcomeInv, ChosenMet, [Next]_vars PROVE ChosenMet'
  OBVIOUS
<1>a. \A t \in Tasks : Met(t) => Met(t)'
  <2> SUFFICES ASSUME NEW t \in Tasks, Met(t), NEW d \in DependsOn[t]
               PROVE  "done" \in outcomes'[d]
    BY DEF Met
  <2>1. d \in Tasks /\ "done" \in outcomes[d]
    BY DEF Met, PlanAssumption
  <2>2. QED
    BY <2>1, OutcomeStands DEF OutcomeInv
<1>b. \A t \in Ready : Met(t)
  <2> SUFFICES ASSUME NEW t \in Ready, NEW d \in DependsOn[t]
               PROVE  "done" \in outcomes[d]
    BY DEF Met
  <2>1. d \in Tasks /\ Effective(d) = "done"
    BY DEF Ready, PlanAssumption
  <2>2. QED
    BY <2>1 DEF Effective, OutcomeInv, PlanOutcomes, FileOutcomes, Terminal
<1>c. /\ wave \subseteq Tasks /\ pend \subseteq Tasks /\ runs \in [Tasks -> Nat]
      /\ proc \in [Procs -> ProcState]
      /\ \A p \in Procs : proc[p].op \in Marking => proc[p].task \in Tasks
  BY DEF OutcomeInv, TypeInv, TypeOK, CommandsKnowTheirTask, Active
<1>d. \A p \in Procs : proc[p] \in ProcState
  BY <1>c
<1> USE <1>a, <1>c, <1>d DEF ChosenMet, Marking
<1>1. ASSUME Schedule
      PROVE  ChosenMet'
  <2>1. wave' \subseteq Ready /\ Ready \subseteq Tasks
    BY <1>1 DEF Schedule, Ready
  <2>2. QED
    BY <1>1, <1>b, <2>1 DEF Schedule
<1>2. ASSUME NEW p \in Procs, NEW t \in Tasks, WriteInstruction(p, t)
      PROVE  ChosenMet'
  BY <1>2 DEF WriteInstruction, IdleProc
<1>3. ASSUME NEW p \in Procs, NEW t \in Tasks, WrapUp(p, t)
      PROVE  ChosenMet'
  BY <1>3 DEF WrapUp, IdleProc
<1>4. ASSUME NEW p \in Procs, MarkLoad(p)
      PROVE  ChosenMet'
  BY <1>4 DEF MarkLoad, ProcState
<1>5. ASSUME NEW p \in Procs, MarkDump(p)
      PROVE  ChosenMet'
  BY <1>5 DEF MarkDump, IdleProc
<1>6. ASSUME NEW p \in Procs, SyncLoad(p)
      PROVE  ChosenMet'
  BY <1>6 DEF SyncLoad, ProcState
<1>7. ASSUME NEW p \in Procs, SyncDump(p)
      PROVE  ChosenMet'
  BY <1>7 DEF SyncDump, IdleProc
<1>8. ASSUME NEW p \in Procs, Resume(p)
      PROVE  ChosenMet'
  BY <1>8 DEF Resume, IdleProc
<1>9. ASSUME NEW p \in Procs, Crash(p)
      PROVE  ChosenMet'
  BY <1>9 DEF Crash, IdleProc
<1>10. ASSUME NEW t \in Tasks, Launch(t)
      PROVE  ChosenMet'
  BY <1>10 DEF Launch
<1>11. ASSUME NEW t \in Tasks, ReportOpen(t)
      PROVE  ChosenMet'
  BY <1>11 DEF ReportOpen
<1>12. ASSUME NEW t \in Tasks, Scan(t)
      PROVE  ChosenMet'
  BY <1>12 DEF Scan
<1>13. ASSUME NEW t \in Tasks, NEW s \in Reported, ReportWrite(t, s)
      PROVE  ChosenMet'
  BY <1>13 DEF ReportWrite
<1>14. CASE UNCHANGED vars
  BY <1>14 DEF vars
<1>15. QED
  BY <1>1, <1>2, <1>3, <1>4, <1>5, <1>6, <1>7, <1>8, <1>9, <1>10, <1>11, <1>12, <1>13, <1>14
  DEF Next, Dispatch, Proceed

\* No task is launched before all its prerequisites have been reported done, even when
\* commands on the plan overlap, die half-way or are retried, and whatever a worker that
\* is continued reports after its outcome.
THEOREM PrerequisitesDoneAlways ==
  ASSUME PlanAssumption
  PROVE  Spec => []PrerequisitesDone
<1> DEFINE Inv == OutcomeInv /\ ChosenMet
<1>1. Init => Inv
  <2>1. Init => TypeInv
    BY InitTyped
  <2>2. Init => FileOutcomes /\ PlanOutcomes /\ CopyOutcomes /\ HeldOutcome
    BY DEF Init, FileOutcomes, NoFile, PlanOutcomes, CopyOutcomes, HeldOutcome, NoPlan, IdleProc, Terminal, Syncing
  <2>3. Init => ChosenMet
    BY DEF Init, ChosenMet, IdleProc, Marking
  <2>4. QED
    BY <2>1, <2>2, <2>3 DEF OutcomeInv
<1>2. Inv /\ [Next]_vars => Inv'
  BY OutcomeStep, ChosenStep
<1>3. Inv => PrerequisitesDone
  BY DEF ChosenMet, Met, PrerequisitesDone
<1>4. QED
  BY <1>1, <1>2, <1>3, PTL DEF Spec

(***************************************************************************)
(* One command on the plan at a time                                       *)
(***************************************************************************)
\* Only one command is under way, so what it has loaded is the plan as it is.
OneBusy == \A p, q \in Procs : proc[p].op \in Active /\ p # q => proc[q].op \notin Active
CopyIsPlan == \A p \in Procs : proc[p].op \in {"marked", "syncing"} => proc[p].copy = plan

\* A task being dispatched has no worker yet and is not waiting for one.
NotYetRun ==
  /\ \A p \in Procs : proc[p].op \in Marking =>
       plan[proc[p].task] = "planned" /\ runs[proc[p].task] = 0 /\ proc[p].task \notin pend
  /\ \A t \in pend : runs[t] = 0 /\ plan[t] # "planned"
  /\ \A t \in Tasks : runs[t] <= 1 /\ (runs[t] = 1 => plan[t] # "planned")

SerialInv == TypeInv /\ OneBusy /\ CopyIsPlan /\ NotYetRun

LEMMA SerialStep ==
  ASSUME PlanAssumption, ~Overlap
  PROVE  SerialInv /\ [Next]_vars => SerialInv'
<1> SUFFICES ASSUME SerialInv, [Next]_vars PROVE SerialInv'
  OBVIOUS
<1>a. TypeInv'
  BY TypeStep DEF SerialInv
<1>b. \A p \in Procs : /\ proc[p] \in ProcState
                       /\ proc[p].op \in Active => proc[p].task \in Tasks
                       /\ proc[p].op \in Syncing => proc[p].val \in Terminal
  BY DEF SerialInv, TypeInv, TypeOK, CommandsKnowTheirTask
<1>c. /\ proc \in [Procs -> ProcState] /\ plan \in Plans
      /\ runs \in [Tasks -> Nat] /\ pend \subseteq Tasks
  BY DEF SerialInv, TypeInv, TypeOK
<1>d. "dispatched" # "planned" /\ "planned" \notin Terminal
  BY DEF Terminal
<1>e. IdleProc.op \notin Active /\ "down" \notin Active /\ "idle" \notin Active
  BY DEF IdleProc, Active, Marking, Syncing
<1>f. SUFFICES OneBusy' /\ CopyIsPlan' /\ NotYetRun'
  BY <1>a DEF SerialInv
<1> USE <1>b, <1>c, <1>d, <1>e DEF SerialInv, OneBusy, CopyIsPlan, NotYetRun, Active, Marking,
        Syncing
<1>1. ASSUME Schedule
      PROVE  OneBusy' /\ CopyIsPlan' /\ NotYetRun'
  BY <1>1 DEF Schedule
<1>2. ASSUME NEW p \in Procs, NEW t \in Tasks, WriteInstruction(p, t)
      PROVE  OneBusy' /\ CopyIsPlan' /\ NotYetRun'
  BY <1>2 DEF WriteInstruction, IdleProc, MayStart, Idle, Dispatchable
<1>3. ASSUME NEW p \in Procs, NEW t \in Tasks, WrapUp(p, t)
      PROVE  OneBusy' /\ CopyIsPlan' /\ NotYetRun'
  BY <1>3 DEF WrapUp, IdleProc, MayStart, Idle
<1>4. ASSUME NEW p \in Procs, MarkLoad(p)
      PROVE  OneBusy' /\ CopyIsPlan' /\ NotYetRun'
  BY <1>4 DEF MarkLoad, ProcState
<1>5. ASSUME NEW p \in Procs, MarkDump(p)
      PROVE  OneBusy' /\ CopyIsPlan' /\ NotYetRun'
  BY <1>5 DEF MarkDump, Plans, ProcState
<1>6. ASSUME NEW p \in Procs, SyncLoad(p)
      PROVE  OneBusy' /\ CopyIsPlan' /\ NotYetRun'
  BY <1>6 DEF SyncLoad, ProcState
<1>7. ASSUME NEW p \in Procs, SyncDump(p)
      PROVE  OneBusy' /\ CopyIsPlan' /\ NotYetRun'
  BY <1>7 DEF SyncDump, Plans, ProcState
<1>8. ASSUME NEW p \in Procs, Resume(p)
      PROVE  OneBusy' /\ CopyIsPlan' /\ NotYetRun'
  BY <1>8 DEF Resume
<1>9. ASSUME NEW p \in Procs, Crash(p)
      PROVE  OneBusy' /\ CopyIsPlan' /\ NotYetRun'
  BY <1>9 DEF Crash, IdleProc
<1>10. ASSUME NEW t \in Tasks, Launch(t)
      PROVE  OneBusy' /\ CopyIsPlan' /\ NotYetRun'
  BY <1>10 DEF Launch
<1>11. ASSUME NEW t \in Tasks, ReportOpen(t)
      PROVE  OneBusy' /\ CopyIsPlan' /\ NotYetRun'
  BY <1>11 DEF ReportOpen
<1>12. ASSUME NEW t \in Tasks, Scan(t)
      PROVE  OneBusy' /\ CopyIsPlan' /\ NotYetRun'
  BY <1>12 DEF Scan
<1>13. ASSUME NEW t \in Tasks, NEW s \in Reported, ReportWrite(t, s)
      PROVE  OneBusy' /\ CopyIsPlan' /\ NotYetRun'
  BY <1>13 DEF ReportWrite
<1>14. CASE UNCHANGED vars
  BY <1>14 DEF vars
<1>15. QED
  BY <1>1, <1>2, <1>3, <1>4, <1>5, <1>6, <1>7, <1>8, <1>9, <1>10, <1>11, <1>12, <1>13, <1>14
  DEF Next, Dispatch, Proceed

LEMMA SerialInit == PlanAssumption /\ Init => SerialInv
<1>1. PlanAssumption /\ Init => TypeInv
  BY InitTyped
<1>2. Init => OneBusy /\ CopyIsPlan /\ NotYetRun
  BY DEF Init, OneBusy, CopyIsPlan, NotYetRun, IdleProc, Active, Marking, Syncing
<1>3. QED
  BY <1>1, <1>2 DEF SerialInv

\* A coordinator that runs one command on the plan at a time never dispatches
\* a task twice, whatever dies half-way and is tried again.
THEOREM OneRunPerTaskAlways ==
  ASSUME PlanAssumption, ~Overlap
  PROVE  Spec => []OneRunPerTask
<1>1. SerialInv => OneRunPerTask
  BY DEF SerialInv, NotYetRun, OneRunPerTask
<1>2. QED
  BY <1>1, SerialInit, SerialStep, PTL DEF Spec

\* Nor does any of its commands take back another's mark in plan.json.
THEOREM MarkStandsAlways ==
  ASSUME PlanAssumption, ~Overlap
  PROVE  Spec => MarkStands
<1>1. ASSUME SerialInv, [Next]_vars, NEW t \in Tasks, plan[t] # "planned"
      PROVE  plan'[t] # "planned"
  <2>a. plan \in Plans /\ proc \in [Procs -> ProcState]
    BY <1>1 DEF SerialInv, TypeInv, TypeOK
  <2>1. ASSUME NEW p \in Procs, MarkDump(p)
        PROVE  plan'[t] # "planned"
    BY <1>1, <2>a, <2>1 DEF MarkDump, SerialInv, CopyIsPlan, Plans
  <2>2. ASSUME NEW p \in Procs, SyncDump(p)
        PROVE  plan'[t] # "planned"
    BY <1>1, <2>a, <2>2 DEF SyncDump, SerialInv, CopyIsPlan, Plans, TypeInv,
       CommandsKnowTheirTask, Syncing, Terminal
  <2>3. CASE UNCHANGED plan
    BY <1>1, <2>3
  <2>4. QED
    BY <1>1, <2>1, <2>2, <2>3 DEF Next, Dispatch, Proceed, vars, Schedule, WriteInstruction,
       MarkLoad, Launch, WrapUp, SyncLoad, Crash, Resume, ReportOpen, ReportWrite, Scan
<1>2. SerialInv /\ [Next]_vars =>
        [\A t \in Tasks : plan[t] # "planned" => plan'[t] # "planned"]_vars
  BY <1>1
<1>3. QED
  BY <1>2, SerialInit, SerialStep, PTL DEF Spec, MarkStands

(***************************************************************************)
(* The cap                                                                 *)
(***************************************************************************)
\* Until a dead command's session resumes, nothing else is started; what is
\* being marked is among the chosen.
OneCommand ==
  \A p, q \in Procs : proc[p].op # "idle" /\ p # q => proc[q].op = "idle"
MarkingChosen == \A p \in Procs : proc[p].op \in Marking => proc[p].task \in wave

\* A task holds its first slot from its choice until it has had an outcome.
FirstAtWork == {t \in Tasks : plan[t] = "dispatched" /\ outcomes[t] = {}}
FirstSlots  == Chosen \cup FirstAtWork
SlotsWithinCap == Cardinality(FirstSlots) <= Cap

CapInv == OutcomeInv /\ SerialInv /\ OneCommand /\ MarkingChosen /\ SlotsWithinCap

\* The scheduler counts exactly the tasks at work against the cap, continued ones among
\* them.
LEMMA InFlightAtWork == TypeInv => InFlight = AtWork
  BY DEF InFlight, AtWork, Effective, Terminal, TypeInv, TypeOK, Plans, Files

LEMMA FirstInFlight == OutcomeInv => FirstAtWork \subseteq InFlight
<1> SUFFICES ASSUME OutcomeInv PROVE FirstAtWork \subseteq AtWork
  BY InFlightAtWork DEF OutcomeInv
<1>1. QED
  BY DEF FirstAtWork, AtWork, OutcomeInv, FileOutcomes

LEMMA SlotsFinite ==
  ASSUME PlanAssumption, TypeInv
  PROVE  /\ IsFiniteSet(FirstSlots) /\ Cardinality(FirstSlots) \in Nat
         /\ \A S \in SUBSET FirstSlots :
              Cardinality(S) \in Nat /\ Cardinality(S) <= Cardinality(FirstSlots)
<1>1. FirstSlots \subseteq Tasks
  BY DEF FirstSlots, Chosen, FirstAtWork, TypeInv, TypeOK
<1>2. IsFiniteSet(FirstSlots)
  BY <1>1, FS_Subset DEF PlanAssumption
<1>3. QED
  BY <1>2, FS_Subset, FS_CardinalityType

\* One command at a time, and its task stays chosen until it ends.
LEMMA CommandStep ==
  ASSUME ~Overlap, TypeInv, OneCommand, MarkingChosen, [Next]_vars
  PROVE  OneCommand' /\ MarkingChosen'
<1>a. proc \in [Procs -> ProcState] /\ \A p \in Procs : proc[p] \in ProcState
  BY DEF TypeInv, TypeOK
<1>b. IdleProc.op = "idle" /\ "idle" \notin Marking /\ "down" \notin Marking
  BY DEF IdleProc, Marking
<1> USE <1>a, <1>b DEF OneCommand, MarkingChosen
<1>1. CASE Schedule
  BY <1>1 DEF Schedule, Idle
<1>2. ASSUME NEW p \in Procs, NEW t \in Tasks, WriteInstruction(p, t)
      PROVE  OneCommand' /\ MarkingChosen'
  BY <1>2 DEF WriteInstruction, IdleProc, MayStart, Idle
<1>3. ASSUME NEW p \in Procs, NEW t \in Tasks, WrapUp(p, t)
      PROVE  OneCommand' /\ MarkingChosen'
  BY <1>3 DEF WrapUp, IdleProc, MayStart, Idle, Marking
<1>4. ASSUME NEW p \in Procs, MarkLoad(p)
      PROVE  OneCommand' /\ MarkingChosen'
  BY <1>4 DEF MarkLoad, ProcState, Marking
<1>5. ASSUME NEW p \in Procs, MarkDump(p)
      PROVE  OneCommand' /\ MarkingChosen'
  BY <1>5 DEF MarkDump
<1>6. ASSUME NEW p \in Procs, SyncLoad(p)
      PROVE  OneCommand' /\ MarkingChosen'
  BY <1>6 DEF SyncLoad, ProcState, Marking
<1>7. ASSUME NEW p \in Procs, SyncDump(p)
      PROVE  OneCommand' /\ MarkingChosen'
  BY <1>7 DEF SyncDump
<1>8. ASSUME NEW p \in Procs, Resume(p)
      PROVE  OneCommand' /\ MarkingChosen'
  BY <1>8 DEF Resume
<1>9. ASSUME NEW p \in Procs, Crash(p)
      PROVE  OneCommand' /\ MarkingChosen'
  BY <1>9 DEF Crash, IdleProc
<1>10. CASE UNCHANGED <<proc, wave>>
  BY <1>10
<1>11. QED
  BY <1>1, <1>2, <1>3, <1>4, <1>5, <1>6, <1>7, <1>8, <1>9, <1>10
  DEF Next, Dispatch, Proceed, vars, Launch, ReportOpen, ReportWrite, Scan

\* Only the scheduler hands out slots.
LEMMA SlotsShrink ==
  ASSUME PlanAssumption, CapInv, [Next]_vars, ~Schedule
  PROVE  FirstSlots' \subseteq FirstSlots
<1>a. /\ proc \in [Procs -> ProcState] /\ plan \in Plans /\ outcomes \in [Tasks -> SUBSET Terminal]
      /\ wave \subseteq Tasks
      /\ \A p \in Procs : /\ proc[p].op \in Active => proc[p].task \in Tasks
                          /\ proc[p].op \in Syncing => proc[p].val \in Terminal
  BY DEF CapInv, SerialInv, TypeInv, TypeOK, CommandsKnowTheirTask
<1> USE <1>a DEF FirstSlots, Chosen, FirstAtWork
<1>1. ASSUME NEW p \in Procs, MarkDump(p)
      PROVE  FirstSlots' \subseteq FirstSlots
  <2>1. /\ proc[p].task \in wave /\ plan[proc[p].task] = "planned"
        /\ plan' = [plan EXCEPT ![proc[p].task] = "dispatched"]
        /\ UNCHANGED <<outcomes, wave>>
    BY <1>1 DEF MarkDump, CapInv, SerialInv, CopyIsPlan, MarkingChosen, NotYetRun, Marking
  <2>2. QED
    BY <2>1 DEF Plans
<1>2. ASSUME NEW p \in Procs, SyncDump(p)
      PROVE  FirstSlots' \subseteq FirstSlots
  <2>1. /\ proc[p].task \in Tasks /\ proc[p].val \in Terminal
        /\ plan' = [plan EXCEPT ![proc[p].task] = proc[p].val]
        /\ UNCHANGED <<outcomes, wave>>
    BY <1>2 DEF SyncDump, CapInv, SerialInv, CopyIsPlan, Active, Syncing
  <2>2. QED
    BY <2>1 DEF Plans, Terminal
<1>3. ASSUME NEW p \in Procs, Resume(p)
      PROVE  FirstSlots' \subseteq FirstSlots
  BY <1>3 DEF Resume
<1>5. ASSUME NEW t \in Tasks, NEW s \in Reported, ReportWrite(t, s)
      PROVE  FirstSlots' \subseteq FirstSlots
  BY <1>5 DEF ReportWrite, Terminal
<1>6. CASE UNCHANGED <<plan, outcomes, wave>>
  BY <1>6
<1>7. QED
  BY <1>1, <1>2, <1>3, <1>5, <1>6
  DEF Next, Dispatch, Proceed, vars, WriteInstruction, MarkLoad, Launch, WrapUp, SyncLoad,
      Crash, Scan, ReportOpen

\* The slots the scheduler hands out fit under the cap with those at work.
LEMMA ScheduleFits ==
  ASSUME PlanAssumption, CapInv, Schedule
  PROVE  SlotsWithinCap'
<1>1. TypeInv
  BY DEF CapInv, OutcomeInv
<1>2. PICK W \in SUBSET Ready :
        /\ Cardinality(W) + Cardinality(InFlight) <= Cap \/ W = {}
        /\ wave' = W
  BY DEF Schedule
<1>3. W \subseteq Tasks /\ FirstAtWork \subseteq Tasks /\ FirstAtWork \subseteq FirstSlots
  BY <1>2 DEF Ready, FirstAtWork, FirstSlots
<1>4. FirstSlots' \subseteq W \cup FirstAtWork /\ UNCHANGED <<plan, outcomes>>
  BY <1>2 DEF Schedule, FirstSlots, Chosen, FirstAtWork
<1>5. IsFiniteSet(W) /\ IsFiniteSet(FirstAtWork)
  BY <1>3, FS_Subset DEF PlanAssumption
<1>6. /\ Cardinality(W) \in Nat /\ Cardinality(FirstAtWork) \in Nat
      /\ Cardinality(W \cap FirstAtWork) \in Nat
  <2>1. IsFiniteSet(W \cap FirstAtWork)
    BY <1>5, FS_Subset
  <2>2. QED
    BY <1>5, <2>1, FS_CardinalityType
<1>7. IsFiniteSet(W \cup FirstAtWork) /\ Cardinality(W \cup FirstAtWork) <= Cardinality(W) + Cardinality(FirstAtWork)
  <2>1. /\ IsFiniteSet(W \cup FirstAtWork)
        /\ Cardinality(W \cup FirstAtWork) =
             Cardinality(W) + Cardinality(FirstAtWork) - Cardinality(W \cap FirstAtWork)
    BY <1>5, FS_Union, Zenon
  <2>2. QED
    BY <1>6, <2>1
<1>8. /\ Cardinality(FirstSlots') <= Cardinality(W \cup FirstAtWork)
      /\ Cardinality(FirstSlots') \in Nat /\ Cardinality(W \cup FirstAtWork) \in Nat
  <2>1. IsFiniteSet(FirstSlots')
    BY <1>4, <1>7, FS_Subset
  <2>2. QED
    BY <1>4, <1>7, <2>1, FS_Subset, FS_CardinalityType
<1>9. CASE W = {}
  <2>1. FirstSlots' \subseteq FirstAtWork
    BY <1>4, <1>9
  <2>2. FirstSlots' \in SUBSET FirstSlots
    BY <1>3, <2>1
  <2>3. Cardinality(FirstSlots') <= Cardinality(FirstSlots) /\ Cardinality(FirstSlots) \in Nat
    BY <1>1, <2>2, SlotsFinite
  <2>4. QED
    BY <1>8, <2>3 DEF CapInv, SlotsWithinCap, PlanAssumption
<1>10. CASE Cardinality(W) + Cardinality(InFlight) <= Cap
  <2>0. FirstAtWork \subseteq InFlight /\ IsFiniteSet(InFlight)
    <3>1. InFlight \subseteq Tasks
      BY DEF InFlight
    <3>2. QED
      BY <3>1, FirstInFlight, FS_Subset DEF CapInv, PlanAssumption
  <2>1. Cardinality(W) + Cardinality(FirstAtWork) <= Cap
    <3>1. Cardinality(FirstAtWork) <= Cardinality(InFlight) /\ Cardinality(InFlight) \in Nat
      BY <2>0, FS_Subset, FS_CardinalityType
    <3>2. QED
      BY <1>6, <1>10, <3>1 DEF PlanAssumption
  <2>2. QED
    BY <1>6, <1>7, <1>8, <2>1 DEF SlotsWithinCap, PlanAssumption
<1>11. QED
  BY <1>2, <1>9, <1>10

LEMMA CapStep ==
  ASSUME PlanAssumption, ~Overlap
  PROVE  CapInv /\ [Next]_vars => CapInv'
<1> SUFFICES ASSUME CapInv, [Next]_vars PROVE CapInv'
  OBVIOUS
<1>1. OutcomeInv' /\ SerialInv'
  BY OutcomeStep, SerialStep DEF CapInv
<1>2. OneCommand' /\ MarkingChosen'
  BY CommandStep DEF CapInv, OutcomeInv
<1>3. CASE Schedule
  BY <1>1, <1>2, <1>3, ScheduleFits DEF CapInv
<1>4. CASE ~Schedule
  <2>1. FirstSlots' \in SUBSET FirstSlots
    BY <1>4, SlotsShrink
  <2>2. /\ Cardinality(FirstSlots') \in Nat /\ Cardinality(FirstSlots) \in Nat
        /\ Cardinality(FirstSlots') <= Cardinality(FirstSlots)
    BY <2>1, SlotsFinite DEF CapInv, OutcomeInv
  <2>3. SlotsWithinCap'
    BY <2>2 DEF CapInv, SlotsWithinCap, PlanAssumption
  <2>4. QED
    BY <1>1, <1>2, <2>3 DEF CapInv
<1>5. QED
  BY <1>3, <1>4

LEMMA CapInit == PlanAssumption /\ Init => CapInv
<1> SUFFICES ASSUME PlanAssumption, Init PROVE CapInv
  OBVIOUS
<1>1. OutcomeInv
  <2>1. FileOutcomes /\ PlanOutcomes /\ CopyOutcomes /\ HeldOutcome
    BY DEF Init, FileOutcomes, NoFile, PlanOutcomes, CopyOutcomes, HeldOutcome, NoPlan, IdleProc, Terminal, Syncing
  <2>2. QED
    BY <2>1, InitTyped DEF OutcomeInv
<1>2. OneCommand /\ MarkingChosen
  BY DEF Init, OneCommand, MarkingChosen, IdleProc, Marking
<1>3. FirstSlots = {}
  BY DEF Init, FirstSlots, Chosen, FirstAtWork, NoPlan
<1>4. SlotsWithinCap
  BY <1>3, FS_EmptySet DEF SlotsWithinCap, PlanAssumption
<1>5. QED
  BY <1>1, <1>2, <1>4, SerialInit DEF CapInv

\* However many tasks a plan has, the tasks launched and still at their first outcome stay
\* within the cap (boss-say's in-flight count), although the coordinator's commands die
\* between its choice and the launch, its sessions start over, and tasks that are
\* continued after their outcome take slots beside them.
THEOREM CapRespectedAlways ==
  ASSUME PlanAssumption, ~Overlap
  PROVE  Spec => []CapRespected
<1>1. ASSUME CapInv PROVE CapRespected
  <2>1. TypeInv
    BY <1>1 DEF CapInv, OutcomeInv
  <2>2. ASSUME NEW t \in Unfinished PROVE t \in FirstAtWork
    <3>1. t \in Tasks /\ runs[t] = 1 /\ plan[t] \in {"planned", "dispatched"} \cup Terminal
      BY <1>1, <2>1, <2>2 DEF Unfinished, CapInv, SerialInv, NotYetRun, TypeInv, TypeOK, Plans
    <3>2. plan[t] # "planned" /\ plan[t] \notin Terminal
      BY <1>1, <2>2, <3>1 DEF Unfinished, CapInv, SerialInv, NotYetRun, OutcomeInv, PlanOutcomes
    <3>3. QED
      BY <2>2, <3>1, <3>2 DEF Unfinished, FirstAtWork
  <2>3. Unfinished \in SUBSET FirstSlots
    BY <2>2 DEF FirstSlots
  <2>4. /\ Cardinality(Unfinished) \in Nat /\ Cardinality(FirstSlots) \in Nat
        /\ Cardinality(Unfinished) <= Cardinality(FirstSlots)
    BY <2>1, <2>3, SlotsFinite
  <2>5. QED
    BY <1>1, <2>4 DEF CapInv, SlotsWithinCap, CapRespected, PlanAssumption
<1>2. QED
  BY <1>1, CapInit, CapStep, PTL DEF Spec
(***************************************************************************)
(* Refinement: the shared file keeps what it promises of each task.        *)
(***************************************************************************)
\* A wrap-up is of a task that was run, and its instruction is archived by then.
HandInv ==
  /\ \A t \in wrapped : runs[t] > 0
  /\ \A p \in Procs : proc[p].op \in Syncing => proc[p].task \in wrapped

\* What is to be launched is marked, and no wrap-up has it yet.
PendMarked == \A t \in pend : plan[t] = "dispatched"

KeptInv == OutcomeInv /\ SerialInv /\ HandInv /\ PendMarked

LEMMA HandStep ==
  ASSUME TypeInv, HandInv, [Next]_vars
  PROVE  HandInv'
<1>a. /\ proc \in [Procs -> ProcState] /\ runs \in [Tasks -> Nat] /\ wrapped \subseteq Tasks
      /\ \A p \in Procs : proc[p] \in ProcState
  BY DEF TypeInv, TypeOK
<1>b. IdleProc.op \notin Syncing /\ "down" \notin Syncing /\ "marking" \notin Syncing
      /\ "marked" \notin Syncing
  BY DEF IdleProc, Syncing
<1> USE <1>a, <1>b DEF HandInv
<1>1. ASSUME NEW p \in Procs, NEW t \in Tasks, WriteInstruction(p, t)
      PROVE  HandInv'
  BY <1>1 DEF WriteInstruction, IdleProc
<1>2. ASSUME NEW p \in Procs, NEW t \in Tasks, WrapUp(p, t)
      PROVE  HandInv'
  BY <1>2 DEF WrapUp, IdleProc
<1>3. ASSUME NEW p \in Procs, MarkLoad(p)
      PROVE  HandInv'
  BY <1>3 DEF MarkLoad, ProcState
<1>4. ASSUME NEW p \in Procs, MarkDump(p) \/ SyncDump(p) \/ Resume(p)
      PROVE  HandInv'
  BY <1>4 DEF MarkDump, SyncDump, Resume
<1>5. ASSUME NEW p \in Procs, SyncLoad(p)
      PROVE  HandInv'
  BY <1>5 DEF SyncLoad, ProcState, Syncing
<1>6. ASSUME NEW p \in Procs, Crash(p)
      PROVE  HandInv'
  BY <1>6 DEF Crash, IdleProc
<1>7. ASSUME NEW t \in Tasks, Launch(t)
      PROVE  HandInv'
  BY <1>7 DEF Launch
<1>8. CASE UNCHANGED <<proc, runs, wrapped>>
  BY <1>8
<1>9. QED
  BY <1>1, <1>2, <1>3, <1>4, <1>5, <1>6, <1>7, <1>8
  DEF Next, Dispatch, Proceed, vars, Schedule, ReportOpen, ReportWrite, Scan

LEMMA PendStep ==
  ASSUME SerialInv, HandInv, PendMarked, [Next]_vars
  PROVE  PendMarked'
<1>a. proc \in [Procs -> ProcState] /\ plan \in Plans /\ pend \subseteq Tasks
  BY DEF SerialInv, TypeInv, TypeOK
<1> USE <1>a DEF PendMarked
<1>1. ASSUME NEW p \in Procs, MarkDump(p)
      PROVE  PendMarked'
  <2>1. /\ plan' = [plan EXCEPT ![proc[p].task] = "dispatched"]
        /\ pend' = pend \cup {proc[p].task} /\ proc[p].task \in Tasks
    BY <1>1 DEF MarkDump, SerialInv, CopyIsPlan, TypeInv, CommandsKnowTheirTask, Active, Marking
  <2>2. QED
    BY <2>1 DEF Plans
<1>2. ASSUME NEW p \in Procs, SyncDump(p)
      PROVE  PendMarked'
  <2>1. proc[p].op \in Syncing /\ runs[proc[p].task] > 0 /\ proc[p].task \notin pend
    BY <1>2 DEF SyncDump, Syncing, HandInv, SerialInv, NotYetRun
  <2>2. plan' = [plan EXCEPT ![proc[p].task] = proc[p].val] /\ UNCHANGED pend
    BY <1>2 DEF SyncDump, SerialInv, CopyIsPlan
  <2>3. QED
    BY <2>1, <2>2 DEF Plans
<1>3. ASSUME NEW t \in Tasks, Launch(t)
      PROVE  PendMarked'
  BY <1>3 DEF Launch
<1>4. CASE UNCHANGED <<plan, pend>>
  BY <1>4
<1>5. QED
  BY <1>1, <1>2, <1>3, <1>4 DEF Next, Dispatch, Proceed, vars, Schedule, WriteInstruction,
     MarkLoad, WrapUp, SyncLoad, Crash, Resume, ReportOpen, ReportWrite, Scan

LEMMA KeptInvariance ==
  ASSUME PlanAssumption, ~Overlap
  PROVE  Spec => []KeptInv
<1>1. Init => KeptInv
  <2>1. Init => OutcomeInv
    BY InitTyped DEF Init, OutcomeInv, FileOutcomes, NoFile, PlanOutcomes, CopyOutcomes, HeldOutcome, IdleProc,
       NoPlan, Terminal, Syncing
  <2>2. Init => HandInv /\ PendMarked
    BY DEF Init, HandInv, PendMarked, IdleProc, Syncing
  <2>3. QED
    BY <2>1, <2>2, SerialInit DEF KeptInv
<1>2. KeptInv /\ [Next]_vars => KeptInv'
  BY OutcomeStep, SerialStep, HandStep, PendStep DEF KeptInv, OutcomeInv
<1>3. QED
  BY <1>1, <1>2, PTL DEF Spec

\* Some process has the task's wrap-up in hand.
InHand(t) == \E p \in Procs : HasInHand(p, t)

LEMMA DueIs ==
  ASSUME NEW t \in Tasks
  PROVE  /\ t \notin wrapped => Due(t) = "none"
         /\ t \in wrapped /\ ~InHand(t) => Due(t) = "over"
         /\ \A p \in Procs : t \in wrapped /\ HasInHand(p, t)
                             /\ (\A q \in Procs : HasInHand(q, t) => q = p)
              => Due(t) = proc[p].val
  BY DEF Due, InHand

LEMMA DueWillBe ==
  ASSUME NEW t \in Tasks
  PROVE  /\ t \notin wrapped' => Due(t)' = "none"
         /\ t \in wrapped' /\ ~InHand(t)' => Due(t)' = "over"
         /\ \A p \in Procs : t \in wrapped' /\ HasInHand(p, t)'
                             /\ (\A q \in Procs : HasInHand(q, t)' => q = p)
              => Due(t)' = proc'[p].val
  BY DEF Due, InHand

\* Two processes never have wrap-ups in hand at once.
OneHand == \A p, q \in Procs : proc[p].op \in Syncing /\ proc[q].op \in Syncing => p = q

LEMMA DueKept ==
  ASSUME NEW t \in Tasks, OneHand, t \in wrapped' <=> t \in wrapped,
         \A p \in Procs : /\ HasInHand(p, t)' <=> HasInHand(p, t)
                          /\ HasInHand(p, t) => proc'[p].val = proc[p].val
  PROVE  UNCHANGED Due(t)
<1>1. ASSUME NEW p \in Procs, HasInHand(p, t), t \in wrapped
      PROVE  UNCHANGED Due(t)
  <2>1. \A q \in Procs : HasInHand(q, t) => q = p
    BY <1>1 DEF OneHand, HasInHand, Syncing
  <2>2. Due(t) = proc[p].val
    BY <1>1, <2>1, DueIs
  <2>3. Due(t)' = proc'[p].val
    BY <1>1, <2>1, DueWillBe
  <2>4. QED
    BY <1>1, <2>2, <2>3
<1>2. CASE ~InHand(t) \/ t \notin wrapped
  BY <1>2, DueIs, DueWillBe DEF InHand
<1>3. QED
  BY <1>1, <1>2 DEF InHand

\* Every command on the shared file, and every step beside it, is for each task a step of
\* the abstract one or none of it.
LEMMA KeptStep ==
  ASSUME KeptInv, [Next]_vars, NEW t \in Tasks
  PROVE  Kept(t)!TaskNext \/ UNCHANGED <<plan[t], runs[t], Due(t)>>
<1> DEFINE Goal == Kept(t)!TaskNext \/ UNCHANGED <<plan[t], runs[t], Due(t)>>
           SameHands == \A p \in Procs : /\ HasInHand(p, t)' <=> HasInHand(p, t)
                                         /\ HasInHand(p, t) => proc'[p].val = proc[p].val
<1>a. /\ proc \in [Procs -> ProcState] /\ plan \in Plans
      /\ runs \in [Tasks -> Nat] /\ wrapped \subseteq Tasks
      /\ \A p \in Procs : proc[p] \in ProcState
  BY DEF KeptInv, OutcomeInv, TypeInv, TypeOK
<1>b. /\ IdleProc.op = "idle" /\ {"idle", "down", "marking", "marked"} \cap Syncing = {}
      /\ {"unlinked", "syncing"} = Syncing
  BY DEF IdleProc, Syncing
<1>c. \A p \in Procs : /\ proc[p].op \in Active => proc[p].task \in Tasks
                       /\ proc[p].op \in Syncing => proc[p].val \in Terminal
  BY DEF KeptInv, OutcomeInv, TypeInv, CommandsKnowTheirTask
<1>d. OneHand
  BY DEF KeptInv, SerialInv, OneBusy, Active, OneHand
<1>1. ASSUME NEW p \in Procs, \E u \in Tasks : WrapUp(p, u)
      PROVE  Goal
  <2>1. PICK u \in Tasks : WrapUp(p, u)
    BY <1>1
  <2> DEFINE r == [IdleProc EXCEPT !.op = "unlinked", !.task = u, !.val = file[u].st]
  <2>2. /\ r.op \in Syncing /\ r.task = u /\ r.val = file[u].st
        /\ proc' = [proc EXCEPT ![p] = r] /\ proc[p].op = "idle"
        /\ u \notin wrapped /\ wrapped' = wrapped \cup {u} /\ file[u].st \in Terminal
        /\ UNCHANGED <<plan, runs>>
    BY <1>b, <2>1 DEF WrapUp, MayStart, Idle, IdleProc
  <2> HIDE DEF r
  <2>3. CASE u = t
    <3>1. Due(t) = "none"
      BY <2>2, <2>3, DueIs
    <3>2. HasInHand(p, t)' /\ t \in wrapped' /\ proc'[p].val = file[t].st
      BY <1>a, <1>b, <2>2, <2>3 DEF HasInHand
    <3>3. \A q \in Procs : HasInHand(q, t)' => q = p
      <4>1. \A q \in Procs : proc[q].op \in Syncing => proc[q].task \in wrapped
        BY DEF KeptInv, HandInv
      <4>2. QED
        BY <1>a, <1>b, <2>2, <2>3, <4>1 DEF HasInHand
    <3>4. Due(t)' = file[t].st
      BY <3>2, <3>3, DueWillBe
    <3>5. Kept(t)!WrapUp(file[t].st)
      BY <2>2, <3>1, <3>4 DEF Kept!WrapUp, Kept!Open
    <3>6. QED
      BY <2>2, <2>3, <3>5 DEF Kept!TaskNext
  <2>4. CASE u # t
    <3>1. SameHands
      BY <1>a, <1>b, <2>2, <2>4 DEF HasInHand
    <3>2. t \in wrapped' <=> t \in wrapped
      BY <2>2, <2>4
    <3>3. UNCHANGED Due(t)
      BY <1>d, <3>1, <3>2, DueKept
    <3>4. QED
      BY <2>2, <3>3
  <2>5. QED
    BY <2>3, <2>4
<1>2. ASSUME NEW p \in Procs, SyncDump(p)
      PROVE  Goal
  <2> DEFINE u == proc[p].task
             v == proc[p].val
  <2>1. u \in Tasks /\ u \in wrapped /\ v \in Terminal /\ proc[p].op \in Syncing
    BY <1>2, <1>b, <1>c DEF SyncDump, KeptInv, HandInv, Active
  <2>2. /\ plan' = [plan EXCEPT ![u] = v] /\ proc' = [proc EXCEPT ![p] = IdleProc]
        /\ UNCHANGED <<wrapped, runs>>
    BY <1>2, <2>1 DEF SyncDump, KeptInv, SerialInv, CopyIsPlan
  <2>3. CASE u = t
    <3>1. HasInHand(p, t) /\ \A q \in Procs : HasInHand(q, t) => q = p
      BY <1>b, <1>d, <2>1, <2>3 DEF HasInHand, OneHand
    <3>2. ~InHand(t)'
      BY <1>a, <1>b, <2>2, <3>1 DEF InHand, HasInHand
    <3>3. Due(t) = v /\ Due(t)' = "over"
      BY <2>1, <2>2, <2>3, <3>1, <3>2, DueIs, DueWillBe
    <3>4. plan'[t] = v
      BY <1>a, <2>2, <2>3 DEF Plans
    <3>5. Kept(t)!Sync
      BY <2>1, <2>2, <3>3, <3>4 DEF Kept!Sync
    <3>6. QED
      BY <3>5 DEF Kept!TaskNext
  <2>4. CASE u # t
    <3>1. SameHands
      BY <1>a, <1>b, <2>2, <2>4 DEF HasInHand
    <3>2. UNCHANGED Due(t)
      BY <1>d, <2>2, <3>1, DueKept
    <3>3. plan'[t] = plan[t]
      BY <1>a, <2>2, <2>4 DEF Plans
    <3>4. QED
      BY <2>2, <3>2, <3>3
  <2>5. QED
    BY <2>3, <2>4
<1>3. ASSUME NEW p \in Procs, MarkDump(p)
      PROVE  Goal
  <2> DEFINE u == proc[p].task
  <2>1. u \in Tasks /\ plan[u] = "planned" /\ runs[u] = 0
    BY <1>3, <1>c DEF MarkDump, KeptInv, SerialInv, NotYetRun, Active, Marking
  <2>2. /\ plan' = [plan EXCEPT ![u] = "dispatched"] /\ proc' = [proc EXCEPT ![p] = IdleProc]
        /\ proc[p].op = "marked" /\ UNCHANGED <<wrapped, runs>>
    BY <1>3 DEF MarkDump, KeptInv, SerialInv, CopyIsPlan
  <2> HIDE DEF u
  <2>3. SameHands
    BY <1>a, <1>b, <2>2 DEF HasInHand
  <2>4. UNCHANGED Due(t)
    BY <1>d, <2>2, <2>3, DueKept
  <2>5. CASE u = t
    <3>1. t \notin wrapped
      BY <2>1, <2>5 DEF KeptInv, HandInv
    <3>2. Kept(t)!Mark
      BY <1>a, <2>1, <2>2, <2>4, <2>5, <3>1, DueIs DEF Kept!Mark, Kept!Open, Plans
    <3>3. QED
      BY <3>2 DEF Kept!TaskNext
  <2>6. CASE u # t
    BY <1>a, <2>2, <2>4, <2>6 DEF Plans
  <2>7. QED
    BY <2>5, <2>6
<1>4. ASSUME NEW p \in Procs, Crash(p)
      PROVE  Goal
  <2> DEFINE r == [IdleProc EXCEPT !.op = "down"]
  <2>1. /\ r.op \notin Syncing /\ proc' = [proc EXCEPT ![p] = r]
        /\ UNCHANGED <<plan, wrapped, runs>>
    BY <1>4, <1>b DEF Crash, IdleProc
  <2> HIDE DEF r
  <2>2. CASE HasInHand(p, t)
    <3>1. t \in wrapped /\ proc[p].val \in Terminal
      BY <1>b, <1>c, <2>2 DEF HasInHand, KeptInv, HandInv
    <3>2. \A q \in Procs : HasInHand(q, t) => q = p
      BY <1>b, <1>d, <2>2 DEF HasInHand, OneHand
    <3>3. ~InHand(t)'
      BY <1>a, <1>b, <2>1, <3>2 DEF InHand, HasInHand
    <3>4. Due(t) = proc[p].val /\ Due(t)' = "over"
      BY <2>1, <2>2, <3>1, <3>2, <3>3, DueIs, DueWillBe
    <3>5. Kept(t)!LoseSync
      BY <2>1, <3>1, <3>4 DEF Kept!LoseSync
    <3>6. QED
      BY <3>5 DEF Kept!TaskNext
  <2>3. CASE ~HasInHand(p, t)
    <3>1. SameHands
      BY <1>a, <1>b, <2>1, <2>3 DEF HasInHand
    <3>2. QED
      BY <1>d, <2>1, <3>1, DueKept
  <2>4. QED
    BY <2>2, <2>3
<1>5. ASSUME NEW u \in Tasks, Launch(u)
      PROVE  Goal
  <2>0. /\ runs[u] = 0 /\ plan[u] = "dispatched"
        /\ runs' = [runs EXCEPT ![u] = runs[u] + 1]
    BY <1>5 DEF Launch, KeptInv, SerialInv, NotYetRun, PendMarked
  <2>1. /\ runs[u] = 0 /\ runs' = [runs EXCEPT ![u] = 1]
        /\ UNCHANGED <<plan, proc, wrapped>>
    BY <1>5, <2>0 DEF Launch
  <2>2. UNCHANGED Due(t)
    BY <1>d, <2>1, DueKept DEF HasInHand
  <2>3. CASE u = t
    <3>1. t \notin wrapped
      BY <2>1, <2>3 DEF KeptInv, HandInv
    <3>2. Kept(t)!Give
      BY <1>a, <2>0, <2>1, <2>2, <2>3, <3>1, DueIs DEF Kept!Give, Kept!Open
    <3>3. QED
      BY <3>2 DEF Kept!TaskNext
  <2>4. CASE u # t
    BY <1>a, <2>1, <2>2, <2>4
  <2>5. QED
    BY <2>3, <2>4
<1>6. ASSUME UNCHANGED <<plan, runs, wrapped>>, SameHands
      PROVE  Goal
  BY <1>6, <1>d, DueKept
<1>7. ASSUME NEW p \in Procs, NEW u \in Tasks, WriteInstruction(p, u)
      PROVE  Goal
  <2>1. SameHands
    BY <1>7, <1>a, <1>b DEF WriteInstruction, MayStart, Idle, IdleProc, HasInHand
  <2>2. QED
    BY <1>6, <1>7, <2>1 DEF WriteInstruction
<1>8. ASSUME NEW p \in Procs, MarkLoad(p) \/ SyncLoad(p)
      PROVE  Goal
  <2>1. SameHands
    BY <1>8, <1>a, <1>b DEF MarkLoad, SyncLoad, ProcState, HasInHand
  <2>2. QED
    BY <1>6, <1>8, <2>1 DEF MarkLoad, SyncLoad
<1>10. ASSUME NEW p \in Procs, Resume(p)
       PROVE  Goal
  <2>1. SameHands
    BY <1>10, <1>a, <1>b DEF Resume, HasInHand
  <2>2. QED
    BY <1>6, <1>10, <2>1 DEF Resume
<1>11. CASE UNCHANGED <<plan, runs, wrapped, proc>>
  <2>1. SameHands
    BY <1>11 DEF HasInHand
  <2>2. QED
    BY <1>6, <1>11, <2>1
<1>12. QED
  BY <1>1, <1>2, <1>3, <1>4, <1>5, <1>7, <1>8, <1>10, <1>11
  DEF Next, Dispatch, Proceed, vars, Schedule, ReportOpen, ReportWrite, Scan

\* A coordinator that runs one command on the plan at a time keeps, for any number of tasks
\* and processes, what plan.json promises about each: no rewrite of the shared file marks,
\* settles or unsettles a task but its own, whatever dies between load and dump.
THEOREM TasksImplemented ==
  ASSUME PlanAssumption, ~Overlap
  PROVE  Spec => ImplementsTasks
<1>1. Init => \A t \in Tasks : Kept(t)!TaskInit
  BY DEF Init, Kept!TaskInit, NoPlan, Due
<1>2. KeptInv /\ [Next]_vars =>
        [\A t \in Tasks : Kept(t)!TaskNext \/ UNCHANGED <<plan[t], runs[t], Due(t)>>]_vars
  BY KeptStep
<1>3. QED
  BY <1>1, <1>2, KeptInvariance, PTL DEF Spec, ImplementsTasks
(***************************************************************************)
(* No wake-up is lost                                                      *)
(***************************************************************************)
\* The watcher has seen no revision that was not written, and a status is a worker's.
SeenBehind == \A t \in Tasks : seen[t] <= file[t].rev
ReportsAreRun == \A t \in Tasks : file[t].st # "none" => runs[t] > 0

\* What is reported of a task while its wrap-up is under way will be news.
HeldOnFile ==
  \A p \in Procs : proc[p].op \in Syncing /\ ~news =>
    LET t == proc[p].task
    IN  file[t].st = "torn" \/ ~Seen(t) \/ file[t].st = proc[p].val

\* A status file that was written is there.
WrittenStays == \A t \in wrapped : file[t].st # "none"

WakeInv == CapInv /\ HandInv /\ SeenBehind /\ ReportsAreRun /\ HeldOnFile /\ WrittenStays

LEMMA WrittenStep ==
  ASSUME TypeInv, WrittenStays, [Next]_vars
  PROVE  WrittenStays'
<1> USE DEF TypeInv, TypeOK, WrittenStays
<1>1. ASSUME NEW t \in Tasks, ReportOpen(t)
      PROVE  WrittenStays'
  BY <1>1 DEF ReportOpen, Files
<1>2. ASSUME NEW t \in Tasks, NEW s \in Reported, ReportWrite(t, s)
      PROVE  WrittenStays'
  BY <1>2 DEF ReportWrite, Reported, Terminal
<1>3. ASSUME NEW p \in Procs, NEW t \in Tasks, WrapUp(p, t)
      PROVE  WrittenStays'
  BY <1>3 DEF WrapUp, Terminal
<1>4. CASE UNCHANGED <<file, wrapped>>
  BY <1>4
<1>5. QED
  BY <1>1, <1>2, <1>3, <1>4 DEF Next, Dispatch, Proceed, vars, Schedule, WriteInstruction,
     MarkLoad, MarkDump, SyncLoad, SyncDump, Crash, Resume, Launch, Scan

LEMMA HeldStep ==
  ASSUME TypeInv, SeenBehind, HeldOnFile, [Next]_vars
  PROVE  HeldOnFile'
<1>a. /\ proc \in [Procs -> ProcState] /\ file \in [Tasks -> Files] /\ seen \in [Tasks -> Nat]
      /\ \A p \in Procs : proc[p] \in ProcState
      /\ \A p \in Procs : proc[p].op \in Syncing => proc[p].task \in Tasks
  BY DEF TypeInv, TypeOK, CommandsKnowTheirTask, Active
<1>b. /\ {"idle", "down", "marking", "marked"} \cap Syncing = {} /\ IdleProc.op = "idle"
      /\ {"unlinked", "syncing"} = Syncing
  BY DEF IdleProc, Syncing
<1> USE <1>a, <1>b DEF HeldOnFile, Seen
<1>1. CASE Schedule
  BY <1>1 DEF Schedule, Idle
<1>2. ASSUME NEW p \in Procs, NEW t \in Tasks, WriteInstruction(p, t)
      PROVE  HeldOnFile'
  BY <1>2 DEF WriteInstruction, IdleProc
<1>3. ASSUME NEW p \in Procs, NEW t \in Tasks, WrapUp(p, t)
      PROVE  HeldOnFile'
  <2> DEFINE r == [IdleProc EXCEPT !.op = "unlinked", !.task = t, !.val = file[t].st]
  <2>1. r.task = t /\ r.val = file[t].st
    BY DEF IdleProc
  <2>2. proc' = [proc EXCEPT ![p] = r] /\ UNCHANGED <<file, news, seen>>
    BY <1>3 DEF WrapUp
  <2> HIDE DEF r
  <2>3. QED
    BY <2>1, <2>2
<1>4. ASSUME NEW p \in Procs, MarkLoad(p) \/ SyncLoad(p)
      PROVE  HeldOnFile'
  BY <1>4 DEF MarkLoad, SyncLoad, ProcState
<1>5. ASSUME NEW p \in Procs, MarkDump(p) \/ SyncDump(p)
      PROVE  HeldOnFile'
  BY <1>5 DEF MarkDump, SyncDump
<1>6. ASSUME NEW p \in Procs, Crash(p)
      PROVE  HeldOnFile'
  BY <1>6 DEF Crash, IdleProc
<1>7. ASSUME NEW p \in Procs, Resume(p)
      PROVE  HeldOnFile'
  BY <1>7 DEF Resume
<1>8. ASSUME NEW t \in Tasks, ReportOpen(t)
      PROVE  HeldOnFile'
  <2>1. /\ \A u \in Tasks : u # t => file'[u] = file[u]
        /\ file'[t].st = "torn" /\ UNCHANGED <<proc, news, seen>>
    BY <1>8 DEF ReportOpen, Files
  <2>2. QED
    BY <2>1
<1>9. ASSUME NEW t \in Tasks, NEW s \in Reported, ReportWrite(t, s)
      PROVE  HeldOnFile'
  <2>1. /\ \A u \in Tasks : u # t => file'[u] = file[u]
        /\ file'[t].rev = file[t].rev + 1 /\ UNCHANGED <<proc, news, seen>>
    BY <1>9 DEF ReportWrite
  <2>2. seen'[t] # file'[t].rev
    BY <2>1 DEF SeenBehind, Files
  <2>3. QED
    BY <2>1, <2>2
<1>10. ASSUME NEW t \in Tasks, Scan(t)
       PROVE  HeldOnFile'
  BY <1>10 DEF Scan
<1>11. CASE UNCHANGED <<proc, file, news, seen>>
  BY <1>11
<1>12. QED
  BY <1>1, <1>2, <1>3, <1>4, <1>5, <1>6, <1>7, <1>8, <1>9, <1>10, <1>11
  DEF Next, Dispatch, Proceed, vars, Launch

LEMMA WakeStep ==
  ASSUME PlanAssumption, ~Overlap
  PROVE  WakeInv /\ [Next]_vars => WakeInv'
<1> SUFFICES ASSUME WakeInv, [Next]_vars PROVE WakeInv'
  OBVIOUS
<1>a. TypeInv /\ CapInv' /\ HandInv'
  BY CapStep, HandStep DEF WakeInv, CapInv, OutcomeInv
<1>b. /\ file \in [Tasks -> Files] /\ runs \in [Tasks -> Nat] /\ seen \in [Tasks -> Nat]
      /\ \A t \in Tasks : file[t].rev \in Nat
  BY <1>a DEF TypeInv, TypeOK, Files
<1>c. HeldOnFile' /\ WrittenStays'
  BY <1>a, HeldStep, WrittenStep DEF WakeInv
<1> SUFFICES SeenBehind' /\ ReportsAreRun'
  BY <1>a, <1>c DEF WakeInv
<1> USE <1>b DEF WakeInv, SeenBehind, ReportsAreRun
<1>1. ASSUME NEW t \in Tasks, ReportOpen(t)
      PROVE  SeenBehind' /\ ReportsAreRun'
  <2>1. file' = [file EXCEPT ![t] = [file[t] EXCEPT !.st = "torn"]] /\ UNCHANGED <<runs, seen>>
    BY <1>1 DEF ReportOpen
  <2>2. \A u \in Tasks : file'[u].rev = file[u].rev
    BY <2>1 DEF Files
  <2>3. \A u \in Tasks : u # t => file'[u] = file[u]
    BY <2>1
  <2>4. runs[t] > 0
    BY <1>1 DEF ReportOpen
  <2>5. QED
    BY <2>1, <2>2, <2>3, <2>4
<1>2. ASSUME NEW t \in Tasks, NEW s \in Reported, ReportWrite(t, s)
      PROVE  SeenBehind' /\ ReportsAreRun'
  <2>1. /\ file' = [file EXCEPT ![t] = [st |-> s, rev |-> file[t].rev + 1]]
        /\ file[t].st = "torn" /\ UNCHANGED <<runs, seen>>
    BY <1>2 DEF ReportWrite
  <2>2. \A u \in Tasks : seen[u] \in Nat /\ (u # t => file'[u] = file[u])
    BY <2>1
  <2>3. file'[t].rev = file[t].rev + 1 /\ runs[t] > 0
    BY <2>1
  <2>4. SeenBehind'
    BY <2>1, <2>2, <2>3
  <2>5. ReportsAreRun'
    BY <2>1, <2>2, <2>3
  <2>6. QED
    BY <2>4, <2>5
<1>3. ASSUME NEW t \in Tasks, Scan(t)
      PROVE  SeenBehind' /\ ReportsAreRun'
  BY <1>3 DEF Scan
<1>4. ASSUME NEW p \in Procs, Resume(p)
      PROVE  SeenBehind' /\ ReportsAreRun'
  BY <1>4 DEF Resume
<1>5. ASSUME NEW t \in Tasks, Launch(t)
      PROVE  SeenBehind' /\ ReportsAreRun'
  BY <1>5 DEF Launch
<1>6. CASE UNCHANGED <<file, seen, runs>>
  BY <1>6
<1>7. QED
  BY <1>1, <1>2, <1>3, <1>4, <1>5, <1>6
  DEF Next, Dispatch, Proceed, vars, Schedule, WriteInstruction, MarkLoad, MarkDump, WrapUp,
      SyncLoad, SyncDump, Crash

\* Only the scheduler itself, having acted on its event, goes back to sleep.
LEMMA SettledBefore ==
  ASSUME WakeInv, [Next]_vars, ~Schedule, Settled'
  PROVE  /\ Settled
         /\ \A t \in Tasks : ~Scan(t) /\ ~ReportOpen(t)
         /\ \A p \in Procs : ~Crash(p) /\ ~Resume(p)
         /\ \A t \in Tasks, s \in Reported : ~ReportWrite(t, s)
<1>a. /\ file \in [Tasks -> Files] /\ seen \in [Tasks -> Nat] /\ news \in BOOLEAN
      /\ proc \in [Procs -> ProcState] /\ \A t \in Tasks : file[t].rev \in Nat
  BY DEF WakeInv, CapInv, OutcomeInv, TypeInv, TypeOK, Files
<1>1. \A t \in Tasks : ~Scan(t) /\ ~ReportOpen(t)
  BY <1>a DEF Settled, Scan, ReportOpen, Files
<1>2. \A p \in Procs : ~Crash(p) /\ ~Resume(p)
  BY <1>a DEF Settled, Crash, Resume, IdleProc
<1>3. ASSUME NEW t \in Tasks, NEW s \in Reported, ReportWrite(t, s)
      PROVE  FALSE
  <2>1. file'[t].st = s /\ file'[t].rev = file[t].rev + 1 /\ seen'[t] = seen[t]
    BY <1>a, <1>3 DEF ReportWrite
  <2>2. seen[t] <= file[t].rev /\ seen[t] \in Nat /\ file[t].rev \in Nat
    BY <1>a DEF WakeInv, SeenBehind
  <2>3. QED
    BY <2>1, <2>2 DEF Settled, Seen
<1>4. UNCHANGED <<news, seen, file>>
  BY <1>1, <1>2, <1>3 DEF Next, Dispatch, Proceed, vars, WriteInstruction, MarkLoad, MarkDump,
     Launch, WrapUp, SyncLoad, SyncDump
<1>6. \A p \in Procs : proc[p].op = "down" => proc'[p].op = "down"
  <2> USE <1>a
  <2>1. ASSUME NEW p \in Procs, NEW t \in Tasks, WriteInstruction(p, t)
        PROVE  \A q \in Procs : proc[q].op = "down" => proc'[q].op = "down"
    BY <2>1 DEF WriteInstruction, MayStart, Idle
  <2>2. ASSUME NEW p \in Procs, NEW t \in Tasks, WrapUp(p, t)
        PROVE  \A q \in Procs : proc[q].op = "down" => proc'[q].op = "down"
    BY <2>2 DEF WrapUp, MayStart, Idle
  <2>3. ASSUME NEW p \in Procs, MarkLoad(p) \/ MarkDump(p) \/ SyncLoad(p) \/ SyncDump(p)
        PROVE  \A q \in Procs : proc[q].op = "down" => proc'[q].op = "down"
    BY <2>3 DEF MarkLoad, MarkDump, SyncLoad, SyncDump
  <2>4. CASE UNCHANGED proc
    BY <2>4
  <2>5. QED
    BY <1>1, <1>2, <1>3, <2>1, <2>2, <2>3, <2>4 DEF Next, Dispatch, Proceed, vars, Launch
<1>7. QED
  BY <1>1, <1>2, <1>3, <1>4, <1>6 DEF Settled, Seen

\* While it sleeps nothing becomes ready behind its back, and no slot comes free.
LEMMA NothingStirs ==
  ASSUME PlanAssumption, WakeInv, [Next]_vars, ~Schedule, Settled'
  PROVE  Slots \subseteq Slots' /\ Ready' \ wave' \subseteq Ready \ wave
<1>a. /\ file \in [Tasks -> Files] /\ plan \in Plans /\ proc \in [Procs -> ProcState]
      /\ wave \subseteq Tasks /\ DependsOn \in [Tasks -> SUBSET Tasks]
      /\ \A p \in Procs : proc[p].op \in Active => proc[p].task \in Tasks
  BY DEF PlanAssumption, WakeInv, CapInv, OutcomeInv, TypeInv, TypeOK, CommandsKnowTheirTask
<1>b. /\ \A t \in Tasks : ~Scan(t) /\ ~ReportOpen(t)
      /\ \A p \in Procs : ~Crash(p) /\ ~Resume(p)
      /\ \A t \in Tasks, s \in Reported : ~ReportWrite(t, s)
      /\ Settled
  BY SettledBefore
<1>4. ASSUME NEW p \in Procs, MarkDump(p)
      PROVE  Slots \subseteq Slots' /\ Ready' \ wave' \subseteq Ready \ wave
  <2> DEFINE u == proc[p].task
  <2>1. /\ u \in Tasks /\ plan[u] = "planned" /\ runs[u] = 0
        /\ plan' = [plan EXCEPT ![u] = "dispatched"] /\ UNCHANGED <<file, wave>>
    BY <1>4, <1>a DEF MarkDump, WakeInv, CapInv, SerialInv, CopyIsPlan, NotYetRun, Active, Marking
  <2>2. file[u].st = "none"
    BY <2>1 DEF WakeInv, ReportsAreRun
  <2> HIDE DEF u
  <2>3. Slots \subseteq Slots'
    BY <1>a, <2>1, <2>2 DEF Slots, Chosen, AtWork, Plans, Terminal
  <2>4. \A t \in Tasks : Effective(t)' \in {"planned", "done"} => Effective(t)' = Effective(t)
    BY <1>a, <2>1 DEF Effective, Plans
  <2>5. QED
    BY <1>a, <2>1, <2>3, <2>4 DEF Ready
<1>5. ASSUME NEW p \in Procs, SyncDump(p)
      PROVE  Slots \subseteq Slots' /\ Ready' \ wave' \subseteq Ready \ wave
  <2> DEFINE u == proc[p].task
  <2>0. /\ u \in Tasks /\ u \in wrapped /\ proc[p].op \in Syncing /\ proc[p].val \in Terminal
        /\ plan' = [plan EXCEPT ![u] = proc[p].val] /\ UNCHANGED <<file, wave>>
    BY <1>5, <1>a DEF SyncDump, WakeInv, HandInv, CapInv, SerialInv, CopyIsPlan, Active, Syncing,
       OutcomeInv, TypeInv, CommandsKnowTheirTask
  <2>1. file[u].st = proc[p].val
    <3>1. file[u].st = "torn" \/ ~Seen(u) \/ file[u].st = proc[p].val
      BY <1>b, <2>0 DEF WakeInv, HeldOnFile, Settled
    <3>2. file[u].st # "none"
      BY <2>0 DEF WakeInv, WrittenStays
    <3>3. file[u].st \in Reported
      BY <1>a, <1>b, <2>0, <3>2 DEF Settled, Files
    <3>4. QED
      BY <1>b, <2>0, <3>1, <3>3 DEF Settled, Reported
  <2>2. plan[u] # "planned"
    BY <2>0 DEF WakeInv, HandInv, CapInv, SerialInv, NotYetRun, TypeInv, TypeOK
  <2> HIDE DEF u
  <2>3. Slots \subseteq Slots'
    BY <1>a, <2>0, <2>1, <2>2 DEF Slots, Chosen, AtWork, Plans
  <2>4. \A t \in Tasks : Effective(t)' = Effective(t)
    BY <1>a, <2>0, <2>1 DEF Effective, Plans, Terminal
  <2>5. QED
    BY <1>a, <2>0, <2>3, <2>4 DEF Ready
<1>6. CASE UNCHANGED <<file, plan, wave>>
  BY <1>6 DEF Slots, Chosen, AtWork, Ready, Effective
<1>7. QED
  BY <1>b, <1>4, <1>5, <1>6
  DEF Next, Dispatch, Proceed, vars, WriteInstruction, MarkLoad, Launch, WrapUp, SyncLoad

\* What the scheduler leaves undispatched it leaves for want of a slot.
LEMMA ScheduleFills ==
  ASSUME PlanAssumption, WakeInv, Schedule
  PROVE  NothingForgotten'
<1>1. PICK W \in SUBSET Ready :
        /\ \A t \in Ready \ W : Cardinality(W) + Cardinality(InFlight) >= Cap
        /\ wave' = W
  BY DEF Schedule
<1>2. UNCHANGED <<plan, file>>
  BY DEF Schedule
<1>3. TypeInv /\ InFlight = AtWork
  BY InFlightAtWork DEF WakeInv, CapInv, OutcomeInv
<1>4. \A t \in W : t \in Tasks /\ plan[t] = "planned"
  BY <1>3 DEF Ready, Effective, TypeInv, TypeOK, Files, Reported, Terminal
<1>5. Slots' = W \cup AtWork /\ W \cap AtWork = {}
  BY <1>1, <1>2, <1>4 DEF Slots, Chosen, AtWork
<1>6. IsFiniteSet(W) /\ IsFiniteSet(AtWork)
  BY <1>4, FS_Subset DEF AtWork, PlanAssumption
<1>7. Cardinality(Slots') = Cardinality(W) + Cardinality(AtWork)
  <2>1. Cardinality(W \cup AtWork) =
          Cardinality(W) + Cardinality(AtWork) - Cardinality(W \cap AtWork)
    BY <1>6, FS_Union, Zenon
  <2>2. Cardinality(W \cap AtWork) = 0
    BY <1>5, FS_EmptySet
  <2>3. Cardinality(W) \in Nat /\ Cardinality(AtWork) \in Nat
    BY <1>6, FS_CardinalityType
  <2>4. QED
    BY <1>5, <2>1, <2>2, <2>3
<1>8. Ready' = Ready
  BY <1>2 DEF Ready, Effective
<1>9. QED
  BY <1>1, <1>3, <1>7, <1>8 DEF NothingForgotten

\* A coordinator that runs one command on the plan at a time never goes to sleep on a task
\* it could dispatch: when no event, unseen outcome or resuming session is left, what is
\* ready is chosen, or all slots are taken.  (What ReadyIsDispatched rests on.)
THEOREM NothingForgottenAlways ==
  ASSUME PlanAssumption, ~Overlap
  PROVE  Spec => []NothingForgotten
<1>1. Init => WakeInv /\ NothingForgotten
  <2>1. Init => /\ HandInv /\ SeenBehind /\ ReportsAreRun /\ HeldOnFile /\ WrittenStays
                /\ ~Settled
    BY DEF Init, HandInv, HeldOnFile, WrittenStays, SeenBehind, ReportsAreRun, Settled, IdleProc, Syncing, NoFile
  <2>2. QED
    BY <2>1, CapInit DEF WakeInv, NothingForgotten
<1>2. ASSUME WakeInv, NothingForgotten, [Next]_vars
      PROVE  NothingForgotten'
  <2>1. CASE Schedule
    BY <1>2, <2>1, ScheduleFills
  <2>2. CASE ~Schedule /\ Settled'
    <3>1. /\ Settled
          /\ Slots \subseteq Slots' /\ Ready' \ wave' \subseteq Ready \ wave
      BY <1>2, <2>2, SettledBefore, NothingStirs
    <3>2. TypeInv'
      BY <1>2, WakeStep DEF WakeInv, CapInv, OutcomeInv
    <3>3. /\ Cardinality(Slots) \in Nat /\ Cardinality(Slots') \in Nat
          /\ Cardinality(Slots) <= Cardinality(Slots')
      <4>1. Slots' \subseteq Tasks
        BY <3>2 DEF Slots, Chosen, AtWork, TypeInv, TypeOK
      <4>2. IsFiniteSet(Slots') /\ IsFiniteSet(Slots)
        BY <3>1, <4>1, FS_Subset DEF PlanAssumption
      <4>3. QED
        BY <3>1, <4>2, FS_Subset, FS_CardinalityType
    <3>4. QED
      BY <1>2, <3>1, <3>3 DEF NothingForgotten, PlanAssumption
  <2>3. CASE ~Settled'
    BY <2>3 DEF NothingForgotten
  <2>4. QED
    BY <2>1, <2>2, <2>3
<1>3. QED
  BY <1>1, <1>2, WakeStep, PTL DEF Spec
=============================================================================
