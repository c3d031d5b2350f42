------------------------- MODULE ResourceLockProofs -------------------------
(***************************************************************************)
(* Theorems about ResourceLock for every set of agents, every ttl and      *)
(* every staleness bound.                                                  *)
(***************************************************************************)
EXTENDS ResourceLock, TLAPS

Locals == <<pc, mine, seen, att, mtry>>

LocalsOK ==
  /\ pc \in [Agents -> Labels]
  /\ mine \in [Agents -> Left]
  /\ seen \in [Agents -> File]
  /\ att \in [Agents -> {0, 1}]
  /\ mtry \in [Agents -> {0, 1}]

(***************************************************************************)
(* Type correctness                                                        *)
(***************************************************************************)
\* Ageing stays within the type of remaining times, and never goes up.
LEMMA AgedProps ==
  ASSUME NEW n \in Left
  PROVE  /\ Aged(n) \in Left
         /\ Aged(n) <= n
         /\ Aged(n) > 0 => n > 0
         /\ n > 1 => Aged(n) > 0
         /\ n < 0 => Aged(n) < 0
         /\ \A m \in Left : m <= n => Aged(m) <= Aged(n)
  BY DEF Aged, Left

\* The values files take have the type of a file.
LEMMA FileValues ==
  ASSUME LockAssumption, NEW p \in Agents, NEW n \in Left
  PROVE  NoFile \in File /\ EmptyBy(p) \in File /\ LockBy(p, n) \in File
  BY DEF LockAssumption, NoFile, EmptyBy, LockBy, File, Left

LEMMA EndInType ==
  ASSUME LockAssumption, LocalsOK, NEW p \in Agents, NEW l \in Labels, EndIn(p, l)
  PROVE  LocalsOK'
  <1>1. NoFile \in File /\ -1 \in Left
    BY DEF LockAssumption, NoFile, File, Left
  <1> QED
    BY <1>1 DEF LocalsOK, EndIn, Goto

LEMMA NextAttemptType ==
  ASSUME LockAssumption, LocalsOK, NEW p \in Agents, NextAttempt(p)
  PROVE  LocalsOK'
  <1>1. NoFile \in File /\ "open" \in Labels /\ "failed" \in Labels
    BY DEF LockAssumption, NoFile, File, Left, Labels, Resting
  <1>2. CASE att[p] = 0
    BY <1>1, <1>2 DEF LocalsOK, NextAttempt, Goto
  <1>3. CASE att[p] # 0
    BY <1>1, <1>3, EndInType DEF NextAttempt
  <1> QED
    BY <1>2, <1>3

LEMMA MutexRetryType ==
  ASSUME LockAssumption, LocalsOK, NEW p \in Agents, MutexRetry(p)
  PROVE  LocalsOK'
  <1>1. CASE mtry[p] = 0
    BY <1>1 DEF LocalsOK, MutexRetry, Goto, Labels
  <1>2. CASE mtry[p] # 0
    BY <1>2, NextAttemptType DEF MutexRetry
  <1> QED
    BY <1>1, <1>2

\* A step of acquire keeps the types.
LEMMA AcquireType ==
  ASSUME LockAssumption, TypeOK, NEW p \in Agents, AcquireStep(p)
  PROVE  TypeOK'
  <1> USE LockAssumption
  <1>0. LocalsOK
    BY DEF TypeOK, LocalsOK
  <1>a. SUFFICES /\ LocalsOK'
                 /\ file' \in File
                 /\ mutex' \in Left
                 /\ grant' \in [Agents -> Left]
    BY DEF TypeOK, LocalsOK
  <1>b. Labels \subseteq Labels /\ "granted" \in Labels /\ "refused" \in Labels
    BY DEF Labels, Resting
  <1>1. CASE OpenFresh(p)
    BY <1>1, <1>0, FileValues DEF OpenFresh, Goto, TypeOK, LocalsOK, Labels, EmptyBy, File, Left
  <1>2. CASE OpenExists(p)
    BY <1>2, <1>0 DEF OpenExists, Goto, TypeOK, LocalsOK, Labels
  <1>3. CASE WritePayload(p)
    <2>1. LocalsOK'
      BY <1>3, <1>0, <1>b, EndInType DEF WritePayload, Grant
    <2>2. file' \in File /\ mutex' \in Left /\ grant' \in [Agents -> Left]
      BY <1>3, FileValues DEF WritePayload, Grant, TypeOK
    <2> QED BY <2>1, <2>2
  <1>4. CASE LoadMissing(p)
    BY <1>4, <1>0, NextAttemptType DEF LoadMissing, TypeOK
  <1>5. CASE Load(p)
    BY <1>5, <1>0 DEF Load, Goto, TypeOK, LocalsOK, Labels
  <1>6. CASE Refuse(p)
    BY <1>6, <1>0, <1>b, EndInType DEF Refuse, TypeOK
  <1>7. CASE JudgeStale(p)
    BY <1>7, <1>0, FileValues DEF JudgeStale, Goto, TypeOK, LocalsOK, Labels, NoFile, File, Left
  <1>8. CASE MutexWin(p)
    BY <1>8, <1>0 DEF MutexWin, Goto, TypeOK, LocalsOK, Labels, Critical, Left
  <1>9. CASE MutexTaken(p)
    BY <1>9, <1>0 DEF MutexTaken, Goto, TypeOK, LocalsOK, Labels
  <1>10. CASE MutexStat(p)
    <2>1. file' \in File /\ mutex' \in Left /\ grant' \in [Agents -> Left]
      BY <1>10 DEF MutexStat, TypeOK
    <2>2. CASE MutexRetry(p)
      BY <2>1, <2>2, <1>0, MutexRetryType
    <2>3. CASE NextAttempt(p)
      BY <2>1, <2>3, <1>0, NextAttemptType
    <2>4. CASE Goto(p, "mutexBreak") /\ UNCHANGED <<mine, seen, att, mtry>>
      BY <2>1, <2>4, <1>0 DEF Goto, LocalsOK, Labels
    <2> QED BY <1>10, <2>2, <2>3, <2>4 DEF MutexStat
  <1>11. CASE MutexBreak(p)
    BY <1>11, <1>0, MutexRetryType DEF MutexBreak, TypeOK, NoMutex, Left
  <1>12. CASE ReclaimLoad(p)
    BY <1>12, <1>0 DEF ReclaimLoad, Goto, TypeOK, LocalsOK, Labels, Critical
  <1>13. CASE ReclaimJudge(p)
    BY <1>13, <1>0, FileValues DEF ReclaimJudge, Goto, TypeOK, LocalsOK, Labels, Critical, NoFile, File, Left
  <1>14. CASE Replace(p)
    BY <1>14, <1>0, FileValues DEF Replace, Goto, TypeOK, LocalsOK, Labels, Critical
  <1>15. CASE DropWon(p)
    BY <1>15, <1>0, <1>b, EndInType DEF DropWon, Grant, TypeOK, NoMutex, Left
  <1>16. CASE DropLost(p)
    BY <1>16, <1>0, NextAttemptType DEF DropLost, TypeOK, NoMutex, Left
  <1> QED
    BY <1>1, <1>2, <1>3, <1>4, <1>5, <1>6, <1>7, <1>8, <1>9, <1>10, <1>11, <1>12,
       <1>13, <1>14, <1>15, <1>16 DEF AcquireStep

\* A step of release or gc, a start, a crash and the clock keep the types.
LEMMA OtherType ==
  ASSUME LockAssumption, TypeOK, NEW p \in Agents,
         \/ StartAcquire(p) \/ StartRelease(p) \/ StartGc(p)
         \/ ReleaseStep(p) \/ GcStep(p) \/ Crash(p)
  PROVE  TypeOK'
  <1> USE LockAssumption
  <1>0. LocalsOK
    BY DEF TypeOK, LocalsOK
  <1>a. SUFFICES /\ LocalsOK'
                 /\ file' \in File
                 /\ mutex' \in Left
                 /\ grant' \in [Agents -> Left]
    BY DEF TypeOK, LocalsOK
  <1>b. "idle" \in Labels /\ "failed" \in Labels /\ -1 \in Left /\ NoFile \in File
    BY DEF Labels, Resting, Left, NoFile, File, LockAssumption
  <1>1. CASE StartAcquire(p)
    BY <1>1, <1>0 DEF StartAcquire, Goto, TypeOK, LocalsOK, Labels, LockAssumption, Left
  <1>2. CASE StartRelease(p)
    BY <1>2, <1>0 DEF StartRelease, Goto, TypeOK, LocalsOK, Labels
  <1>3. CASE StartGc(p)
    BY <1>3, <1>0 DEF StartGc, Goto, TypeOK, LocalsOK, Labels
  <1>4. CASE ReleaseLoad(p)
    BY <1>4, <1>0 DEF ReleaseLoad, Goto, TypeOK, LocalsOK, Labels
  <1>5. CASE ReleaseRefuse(p)
    BY <1>5, <1>0, <1>b, EndInType DEF ReleaseRefuse, TypeOK
  <1>6. CASE ReleaseUnlink(p)
    BY <1>6, <1>0, <1>b, EndInType DEF ReleaseUnlink, TypeOK
  <1>7. CASE GcLoad(p)
    BY <1>7, <1>0 DEF GcLoad, Goto, TypeOK, LocalsOK, Labels
  <1>8. CASE GcUnlink(p)
    BY <1>8, <1>0, <1>b DEF GcUnlink, Goto, TypeOK, LocalsOK, Labels
  <1>9. CASE GcStat(p)
    <2>1. CASE EndIn(p, "idle")
      BY <1>9, <2>1, <1>0, <1>b, EndInType DEF GcStat, TypeOK
    <2>2. CASE Goto(p, "gcSweep") /\ UNCHANGED <<mine, seen, att, mtry>>
      BY <1>9, <2>2, <1>0 DEF GcStat, Goto, TypeOK, LocalsOK, Labels
    <2> QED BY <1>9, <2>1, <2>2 DEF GcStat
  <1>10. CASE GcSweep(p)
    BY <1>10, <1>0, <1>b, EndInType DEF GcSweep, TypeOK, NoMutex
  <1>11. CASE Crash(p)
    BY <1>11, <1>0, <1>b, EndInType DEF Crash, TypeOK
  <1> QED
    BY <1>1, <1>2, <1>3, <1>4, <1>5, <1>6, <1>7, <1>8, <1>9, <1>10, <1>11
    DEF ReleaseStep, GcStep

LEMMA TickType ==
  ASSUME LockAssumption, TypeOK, Tick
  PROVE  TypeOK'
  <1>1. file' \in File
    BY AgedProps DEF Tick, TypeOK, File
  <1>2. mutex' \in Left
    BY DEF Tick, TypeOK, Left, NoMutex
  <1>3. mine' \in [Agents -> Left] /\ grant' \in [Agents -> Left]
    BY AgedProps DEF Tick, TypeOK
  <1>4. seen' \in [Agents -> File]
    <2>1. \A q \in Agents : [seen[q] EXCEPT !.left = Aged(@)] \in File
      BY AgedProps DEF TypeOK, File
    <2> QED BY <2>1 DEF Tick
  <1> QED
    BY <1>1, <1>2, <1>3, <1>4 DEF Tick, TypeOK

LEMMA InitType == LockAssumption /\ Init => TypeOK
  BY DEF LockAssumption, Init, TypeOK, File, NoFile, Left, NoMutex, Labels, Resting

LEMMA NextType == LockAssumption /\ TypeOK /\ [Next]_vars => TypeOK'
  <1> SUFFICES ASSUME LockAssumption, TypeOK, [Next]_vars PROVE TypeOK'
    OBVIOUS
  <1>1. CASE Tick
    BY <1>1, TickType
  <1>2. CASE \E p \in Agents : AcquireStep(p)
    BY <1>2, AcquireType
  <1>3. CASE \E p \in Agents : \/ StartAcquire(p) \/ StartRelease(p) \/ StartGc(p)
                               \/ ReleaseStep(p) \/ GcStep(p) \/ Crash(p)
    BY <1>3, OtherType
  <1>4. CASE UNCHANGED vars
    BY <1>4 DEF vars, TypeOK
  <1> QED
    BY <1>1, <1>2, <1>3, <1>4 DEF Next

\* The variables keep their types, whatever the environment does.
THEOREM TypeCorrect == Spec => []TypeOK
  <1>1. Init => TypeOK
    BY InitType, LockAssumption
  <1>2. TypeOK /\ [Next]_vars => TypeOK'
    BY NextType, LockAssumption
  <1> QED
    BY <1>1, <1>2, PTL DEF Spec

(***************************************************************************)
(* One reclaimer at a time.  This needs only that a living process gets    *)
(* through the critical section before its mutex file counts as abandoned, *)
(* and that none dies inside it: gc and late releases are allowed.         *)
(***************************************************************************)
MutexRespected == Prompt /\ CrashPoints \cap Critical = {}

\* The mutex file exists exactly while somebody is inside, and is never old.
MutexInv ==
  /\ OneReclaimer
  /\ \A p \in Agents : InCritical(p) => mutex \in 0 .. MutexStale
  /\ mutex # NoMutex => \E p \in Agents : InCritical(p)
  /\ \A p \in Agents : pc[p] \notin {"mutexBreak", "gcSweep"}

\* How one process's move in and out of the critical section changes who is in.
LEMMA StayOut ==
  ASSUME TypeOK, MutexInv, NEW p \in Agents, ~InCritical(p), mutex' = mutex,
         NEW l \in Labels \ (Critical \cup {"mutexBreak", "gcSweep"}),
         pc' = [pc EXCEPT ![p] = l]
  PROVE  MutexInv'
  BY DEF TypeOK, MutexInv, OneReclaimer, InCritical

LEMMA StayIn ==
  ASSUME TypeOK, MutexInv, NEW p \in Agents, InCritical(p), mutex' = mutex,
         NEW l \in Critical,
         pc' = [pc EXCEPT ![p] = l]
  PROVE  MutexInv'
  <1>1. \A q \in Agents : InCritical(q)' <=> InCritical(q)
    BY DEF TypeOK, InCritical
  <1>2. \A q \in Agents : pc'[q] \notin {"mutexBreak", "gcSweep"}
    BY DEF TypeOK, MutexInv, Critical
  <1> QED
    BY <1>1, <1>2 DEF MutexInv, OneReclaimer

LEMMA Leave ==
  ASSUME TypeOK, MutexInv, NEW p \in Agents, InCritical(p), mutex' = NoMutex,
         NEW l \in Labels \ (Critical \cup {"mutexBreak", "gcSweep"}),
         pc' = [pc EXCEPT ![p] = l]
  PROVE  MutexInv'
  <1>1. \A q \in Agents : ~InCritical(q)'
    BY DEF TypeOK, MutexInv, OneReclaimer, InCritical
  <1> QED
    BY <1>1 DEF TypeOK, MutexInv, OneReclaimer

\* Where the compound ends of a command can lead.
LEMMA AttemptTarget ==
  ASSUME NEW p \in Agents, NextAttempt(p)
  PROVE  \E l \in {"open", "failed"} : pc' = [pc EXCEPT ![p] = l]
  BY DEF NextAttempt, EndIn, Goto

LEMMA RetryTarget ==
  ASSUME NEW p \in Agents, MutexRetry(p)
  PROVE  \E l \in {"open", "failed", "mutexOpen"} : pc' = [pc EXCEPT ![p] = l]
  BY AttemptTarget DEF MutexRetry, Goto

LEMMA MutexStep ==
  ASSUME LockAssumption, MutexRespected, TypeOK, MutexInv, [Next]_vars
  PROVE  MutexInv'
  <1> DEFINE Out == Labels \ (Critical \cup {"mutexBreak", "gcSweep"})
  <1>a. {"open", "write", "load", "judge", "mutexOpen", "mutexStat", "granted", "refused",
         "failed", "idle", "relLoad", "relUnlink", "gcLoad", "gcUnlink", "gcStat"} \subseteq Out
    BY DEF Labels, Resting, Critical
  <1>b. NoMutex = -1 /\ MutexStale \in Nat /\ mutex \in Left
    BY DEF NoMutex, LockAssumption, TypeOK
  <1>c. mutex <= MutexStale
    BY <1>b DEF MutexInv
  <1>1. CASE Tick
    <2>1. pc' = pc
      BY <1>1 DEF Tick
    <2>2. ASSUME NEW p \in Agents, InCritical(p)
          PROVE  mutex' \in 0 .. MutexStale
      <3>1. mutex \in 0 .. MutexStale /\ mutex < MutexStale
        BY <1>1, <2>2 DEF Tick, MayTick, MutexRespected, MutexInv
      <3> QED
        BY <3>1, <1>1, <1>b DEF Tick
    <2>3. mutex' # NoMutex => mutex # NoMutex
      BY <1>1 DEF Tick
    <2> QED
      BY <2>1, <2>2, <2>3 DEF MutexInv, OneReclaimer, InCritical
  <1>2. ASSUME NEW p \in Agents, mutex' = mutex, ~InCritical(p),
               \E l \in Out : pc' = [pc EXCEPT ![p] = l]
        PROVE  MutexInv'
    BY <1>2, StayOut
  <1>3. ASSUME NEW p \in Agents, AcquireStep(p)
        PROVE  MutexInv'
    <2>1. CASE OpenFresh(p) \/ OpenExists(p) \/ Load(p) \/ JudgeStale(p) \/ MutexTaken(p)
      BY <2>1, <1>2, <1>a DEF OpenFresh, OpenExists, Load, JudgeStale, MutexTaken, Goto,
                              InCritical, Critical
    <2>2. CASE WritePayload(p) \/ Refuse(p)
      BY <2>2, <1>2, <1>a DEF WritePayload, Refuse, Grant, EndIn, Goto, InCritical, Critical
    <2>3. CASE LoadMissing(p)
      BY <2>3, <1>2, <1>a, AttemptTarget DEF LoadMissing, InCritical, Critical
    <2>4. CASE MutexWin(p)
      <3>1. \A q \in Agents : ~InCritical(q)
        BY <2>4, <1>b DEF MutexWin, MutexInv
      <3>2. /\ \A q \in Agents : InCritical(q)' <=> q = p
            /\ \A q \in Agents : pc'[q] \notin {"mutexBreak", "gcSweep"}
            /\ mutex' = 0
        BY <2>4, <3>1 DEF MutexWin, Goto, TypeOK, InCritical, Critical, MutexInv
      <3> QED
        BY <3>2, <1>b DEF MutexInv, OneReclaimer
    <2>5. CASE MutexStat(p)
      <3>1. ~(mutex > MutexStale)
        BY <1>b, <1>c DEF Left
      <3>2. MutexRetry(p) \/ NextAttempt(p)
        BY <2>5, <3>1 DEF MutexStat
      <3> QED
        BY <2>5, <3>2, <1>2, <1>a, AttemptTarget, RetryTarget DEF MutexStat, InCritical, Critical
    <2>6. CASE MutexBreak(p)
      BY <2>6 DEF MutexBreak, MutexInv
    <2>7. CASE ReclaimLoad(p) \/ ReclaimJudge(p) \/ Replace(p)
      BY <2>7, StayIn DEF ReclaimLoad, ReclaimJudge, Replace, Goto, InCritical, Critical
    <2>8. CASE DropWon(p)
      BY <2>8, <1>a, Leave DEF DropWon, Grant, EndIn, Goto, InCritical, Critical
    <2>9. CASE DropLost(p)
      BY <2>9, <1>a, Leave, AttemptTarget DEF DropLost, InCritical, Critical
    <2> QED
      BY <1>3, <2>1, <2>2, <2>3, <2>4, <2>5, <2>6, <2>7, <2>8, <2>9 DEF AcquireStep
  <1>4. ASSUME NEW p \in Agents, StartAcquire(p) \/ StartRelease(p) \/ StartGc(p)
        PROVE  MutexInv'
    BY <1>4, <1>2, <1>a DEF StartAcquire, StartRelease, StartGc, Goto, InCritical, Critical, Resting
  <1>5. ASSUME NEW p \in Agents, ReleaseStep(p)
        PROVE  MutexInv'
    BY <1>5, <1>2, <1>a DEF ReleaseStep, ReleaseLoad, ReleaseRefuse, ReleaseUnlink, EndIn, Goto,
                            InCritical, Critical
  <1>6. ASSUME NEW p \in Agents, GcStep(p)
        PROVE  MutexInv'
    <2>1. CASE GcLoad(p) \/ GcUnlink(p)
      BY <2>1, <1>2, <1>a DEF GcLoad, GcUnlink, Goto, InCritical, Critical
    <2>2. CASE GcStat(p)
      <3>1. ~(mutex > MutexStale)
        BY <1>b, <1>c DEF Left
      <3> QED
        BY <2>2, <3>1, <1>2, <1>a DEF GcStat, EndIn, Goto, InCritical, Critical
    <2>3. CASE GcSweep(p)
      BY <2>3 DEF GcSweep, MutexInv
    <2> QED
      BY <1>6, <2>1, <2>2, <2>3 DEF GcStep
  <1>7. ASSUME NEW p \in Agents, Crash(p)
        PROVE  MutexInv'
    BY <1>7, <1>2, <1>a DEF Crash, EndIn, Goto, InCritical, MutexRespected
  <1>8. CASE UNCHANGED vars
    BY <1>8 DEF vars, MutexInv, OneReclaimer, InCritical
  <1> QED
    BY <1>1, <1>3, <1>4, <1>5, <1>6, <1>7, <1>8 DEF Next

LEMMA MutexInit == ASSUME Init PROVE MutexInv
  BY DEF Init, MutexInv, OneReclaimer, InCritical, Critical, NoMutex

\* If nobody dies or is slow inside it, with_reclaim_mutex excludes, whatever
\* release and gc do to the lock file meanwhile.
THEOREM ReclaimersExcluded ==
  ASSUME MutexRespected
  PROVE  Spec => []OneReclaimer
  <1>1. Init => MutexInv
    BY MutexInit
  <1>2. TypeOK /\ MutexInv /\ [Next]_vars => MutexInv'
    BY MutexStep, LockAssumption
  <1>3. MutexInv => OneReclaimer
    BY DEF MutexInv
  <1> QED
    BY <1>1, <1>2, <1>3, TypeCorrect, PTL DEF Spec

(***************************************************************************)
(* Mutual exclusion.  The discipline the docs ask of workers: release      *)
(* within the lease, never --force, no gc beside live claims.              *)
(***************************************************************************)
Disciplined ==
  /\ MutexRespected
  /\ TimelyRelease
  /\ Sweepers = {}
  /\ Forcers = {}

\* A process between O_CREAT and its write still owns the file it created.
WriterOwns == \A p \in Agents : pc[p] = "write" => file = EmptyBy(p)

\* A release in flight is one of a lock still held.
ReleasingHolds == \A p \in Agents : pc[p] \in {"relLoad", "relUnlink"} => Holds(p)

\* What the reclaimer read as stale is stale until the reclaimer replaces it.
StaleStays ==
  \A p \in Agents :
    pc[p] = "replace" \/ (pc[p] = "rJudge" /\ Expired(seen[p])) =>
      file.kind = "lock" /\ Expired(file)

\* What the reclaimer wrote is there until it is told it won; till then it
\* claims nothing.
WonOnFile == \A p \in Agents : pc[p] = "dropWon" => file = LockBy(p, mine[p]) /\ ~Holds(p)

\* gc does not run.
NoSweep == \A p \in Agents : pc[p] \notin {"gcLoad", "gcUnlink", "gcStat", "gcSweep"}

\* A payload never promises more than a ttl somebody asked for.
MineBounded == \A p \in Agents : mine[p] > 0 => \E t \in TTLs : mine[p] <= t

LockInv ==
  /\ HolderOnRecord
  /\ WriterOwns
  /\ ReleasingHolds
  /\ StaleStays
  /\ WonOnFile
  /\ NoSweep
  /\ MineBounded

\* A step that leaves both files and every lease alone disturbs the invariant
\* only through where the stepping process is now.
LEMMA QuietStep ==
  ASSUME TypeOK, LockInv, NEW p \in Agents, file' = file, grant' = grant,
         \A q \in Agents \ {p} : pc'[q] = pc[q] /\ mine'[q] = mine[q] /\ seen'[q] = seen[q],
         pc'[p] \notin {"write", "replace", "rJudge", "dropWon", "relLoad",
                        "gcLoad", "gcUnlink", "gcStat", "gcSweep"},
         pc'[p] = "relUnlink" => pc[p] = "relLoad",
         mine'[p] > 0 => \E t \in TTLs : mine'[p] <= t
  PROVE  LockInv'
  <1>1. HolderOnRecord'
    BY DEF LockInv, HolderOnRecord, Holds
  <1>2. WriterOwns'
    BY DEF LockInv, WriterOwns, EmptyBy
  <1>3. ReleasingHolds'
    BY DEF LockInv, ReleasingHolds, Holds
  <1>4. StaleStays'
    BY DEF LockInv, StaleStays, Expired
  <1>5. WonOnFile'
    BY DEF LockInv, WonOnFile, LockBy, Holds
  <1>6. NoSweep'
    BY DEF LockInv, NoSweep
  <1>7. MineBounded'
    BY DEF LockInv, MineBounded
  <1> QED
    BY <1>1, <1>2, <1>3, <1>4, <1>5, <1>6, <1>7 DEF LockInv

\* The shapes EndIn, NextAttempt and MutexRetry give a quiet step.
LEMMA EndInQuiet ==
  ASSUME TypeOK, LockInv, NEW p \in Agents, NEW l \in Resting, EndIn(p, l)
  PROVE  /\ \A q \in Agents \ {p} : pc'[q] = pc[q] /\ mine'[q] = mine[q] /\ seen'[q] = seen[q]
         /\ pc'[p] = l
         /\ mine'[p] > 0 => \E t \in TTLs : mine'[p] <= t
  BY DEF TypeOK, EndIn, Goto

LEMMA AttemptQuiet ==
  ASSUME TypeOK, LockInv, NEW p \in Agents, NextAttempt(p)
  PROVE  /\ \A q \in Agents \ {p} : pc'[q] = pc[q] /\ mine'[q] = mine[q] /\ seen'[q] = seen[q]
         /\ pc'[p] \in {"open", "failed"}
         /\ mine'[p] > 0 => \E t \in TTLs : mine'[p] <= t
  <1>1. CASE att[p] = 0
    BY <1>1 DEF TypeOK, LockInv, MineBounded, NextAttempt, Goto
  <1>2. CASE att[p] # 0
    BY <1>2, EndInQuiet DEF NextAttempt, Resting
  <1> QED
    BY <1>1, <1>2

LEMMA RetryQuiet ==
  ASSUME TypeOK, LockInv, NEW p \in Agents, MutexRetry(p)
  PROVE  /\ \A q \in Agents \ {p} : pc'[q] = pc[q] /\ mine'[q] = mine[q] /\ seen'[q] = seen[q]
         /\ pc'[p] \in {"open", "failed", "mutexOpen"}
         /\ mine'[p] > 0 => \E t \in TTLs : mine'[p] <= t
  <1>1. CASE mtry[p] = 0
    BY <1>1 DEF TypeOK, LockInv, MineBounded, MutexRetry, Goto
  <1>2. CASE mtry[p] # 0
    BY <1>2, AttemptQuiet DEF MutexRetry
  <1> QED
    BY <1>1, <1>2

LEMMA AcquireKeeps ==
  ASSUME LockAssumption, Disciplined, TypeOK, MutexInv, LockInv,
         NEW p \in Agents, AcquireStep(p)
  PROVE  LockInv'
  <1> USE DEF Resting
  <1>1. CASE OpenFresh(p)
    <2>1. \A q \in Agents : ~Holds(q)
      BY <1>1 DEF OpenFresh, LockInv, HolderOnRecord
    <2>2. \A q \in Agents \ {p} : pc'[q] = pc[q]
      BY <1>1 DEF OpenFresh, Goto, TypeOK
    <2>3. \A q \in Agents : pc[q] \notin {"write", "relLoad", "relUnlink", "replace", "dropWon"}
                            /\ ~(pc[q] = "rJudge" /\ Expired(seen[q]))
      BY <1>1, <2>1 DEF OpenFresh, LockInv, WriterOwns, ReleasingHolds, StaleStays, WonOnFile,
                        EmptyBy, LockBy
    <2>4. pc'[p] = "write"
      BY <1>1 DEF OpenFresh, Goto, TypeOK
    <2> QED
      BY <1>1, <2>1, <2>2, <2>3, <2>4
      DEF OpenFresh, LockInv, HolderOnRecord, WriterOwns, ReleasingHolds, StaleStays, WonOnFile,
          NoSweep, MineBounded, Holds, Expired
  <1>2. CASE OpenExists(p) \/ JudgeStale(p) \/ MutexTaken(p) \/ MutexWin(p) \/ Load(p)
    BY <1>2, QuietStep DEF OpenExists, JudgeStale, MutexTaken, MutexWin, Load, Goto, TypeOK,
                           LockInv, MineBounded
  <1>3. CASE WritePayload(p)
    <2>1. file = EmptyBy(p) /\ file' = LockBy(p, mine[p])
      BY <1>3 DEF WritePayload, LockInv, WriterOwns
    <2>2. \A q \in Agents : ~Holds(q)
      BY <2>1 DEF LockInv, HolderOnRecord, EmptyBy
    <2>3. /\ \A q \in Agents \ {p} : pc'[q] = pc[q] /\ mine'[q] = mine[q] /\ seen'[q] = seen[q]
          /\ pc'[p] = "granted"
          /\ mine'[p] > 0 => \E t \in TTLs : mine'[p] <= t
      BY <1>3, EndInQuiet DEF WritePayload, Grant
    <2>4. \A q \in Agents : Holds(q)' => q = p /\ grant'[q] = mine[p]
      BY <1>3, <2>2 DEF WritePayload, Grant, Holds, TypeOK
    <2>5. HolderOnRecord'
      BY <2>1, <2>4, <1>3 DEF HolderOnRecord, LockBy, TypeOK, Left
    <2>6. \A q \in Agents \ {p} : pc[q] \notin {"write", "relLoad", "relUnlink", "replace", "dropWon"}
                            /\ ~(pc[q] = "rJudge" /\ Expired(seen[q]))
      BY <2>1, <2>2 DEF LockInv, WriterOwns, ReleasingHolds, StaleStays, WonOnFile,
                        EmptyBy, LockBy
    <2> QED
      BY <2>3, <2>5, <2>6
      DEF LockInv, WriterOwns, ReleasingHolds, StaleStays, WonOnFile, NoSweep, MineBounded, Expired
  <1>4. CASE LoadMissing(p)
    BY <1>4, QuietStep, AttemptQuiet DEF LoadMissing
  <1>5. CASE Refuse(p)
    BY <1>5, QuietStep, EndInQuiet DEF Refuse
  <1>6. CASE MutexStat(p)
    <2>1. ~(mutex > MutexStale)
      BY DEF MutexInv, NoMutex, LockAssumption, TypeOK, Left
    <2>2. MutexRetry(p) \/ NextAttempt(p)
      BY <1>6, <2>1 DEF MutexStat
    <2> QED
      BY <1>6, <2>2, QuietStep, AttemptQuiet, RetryQuiet DEF MutexStat
  <1>7. CASE MutexBreak(p)
    BY <1>7 DEF MutexBreak, MutexInv
  <1>8. CASE ReclaimLoad(p)
    <2>1. CASE file.kind # "lock"
      BY <1>8, <2>1, QuietStep DEF ReclaimLoad, Goto, TypeOK, LockInv, MineBounded
    <2>2. CASE file.kind = "lock"
      <3>1. /\ \A q \in Agents \ {p} : pc'[q] = pc[q] /\ seen'[q] = seen[q]
            /\ pc'[p] = "rJudge" /\ seen'[p] = file
            /\ UNCHANGED <<file, mine, grant>>
        BY <1>8, <2>2 DEF ReclaimLoad, Goto, TypeOK
      <3> QED
        BY <2>2, <3>1
        DEF LockInv, HolderOnRecord, WriterOwns, ReleasingHolds, StaleStays, WonOnFile,
            NoSweep, MineBounded, Holds, Expired, EmptyBy, LockBy
    <2> QED BY <2>1, <2>2
  <1>9. CASE ReclaimJudge(p)
    <2>1. /\ \A q \in Agents \ {p} : pc'[q] = pc[q] /\ seen'[q] = seen[q]
          /\ pc'[p] = IF Expired(seen[p]) THEN "replace" ELSE "dropLost"
          /\ UNCHANGED <<file, mine, grant>>
      BY <1>9 DEF ReclaimJudge, Goto, TypeOK
    <2> QED
      BY <1>9, <2>1
      DEF ReclaimJudge, LockInv, HolderOnRecord, WriterOwns, ReleasingHolds, StaleStays, WonOnFile,
          NoSweep, MineBounded, Holds, Expired, EmptyBy, LockBy
  <1>10. CASE Replace(p)
    <2>1. file.kind = "lock" /\ Expired(file)
      BY <1>10 DEF Replace, LockInv, StaleStays
    <2>2. \A q \in Agents : ~Holds(q)
      BY <2>1 DEF LockInv, HolderOnRecord, Expired, TypeOK, Left, File, Holds
    <2>3. /\ \A q \in Agents \ {p} : pc'[q] = pc[q] /\ ~InCritical(q)
          /\ pc'[p] = "dropWon"
          /\ file' = LockBy(p, mine[p])
          /\ UNCHANGED <<mine, seen, grant>>
      BY <1>10 DEF Replace, Goto, TypeOK, MutexInv, OneReclaimer, InCritical, Critical
    <2>4. \A q \in Agents \ {p} : pc[q] \notin {"write", "relLoad", "relUnlink", "replace", "dropWon", "rJudge"}
      BY <2>1, <2>2, <2>3 DEF LockInv, WriterOwns, ReleasingHolds, EmptyBy, InCritical, Critical
    <2> QED
      BY <2>2, <2>3, <2>4
      DEF LockInv, HolderOnRecord, WriterOwns, ReleasingHolds, StaleStays, WonOnFile,
          NoSweep, MineBounded, Holds
  <1>11. CASE DropWon(p)
    <2>1. file = LockBy(p, mine[p]) /\ file' = file
      BY <1>11 DEF DropWon, LockInv, WonOnFile
    <2>2. /\ \A q \in Agents \ {p} : pc'[q] = pc[q] /\ mine'[q] = mine[q] /\ seen'[q] = seen[q]
          /\ pc'[p] = "granted"
          /\ mine'[p] > 0 => \E t \in TTLs : mine'[p] <= t
      BY <1>11, EndInQuiet DEF DropWon, Grant
    <2>3. \A q \in Agents \ {p} : ~Holds(q) /\ grant'[q] = grant[q]
      BY <1>11, <2>1 DEF DropWon, Grant, LockInv, HolderOnRecord, LockBy, TypeOK
    <2>4. grant'[p] = mine[p]
      BY <1>11 DEF DropWon, Grant, TypeOK
    <2>5. HolderOnRecord'
      BY <2>1, <2>3, <2>4 DEF HolderOnRecord, Holds, LockBy, TypeOK, Left
    <2> QED
      BY <2>1, <2>2, <2>3, <2>5
      DEF LockInv, WriterOwns, ReleasingHolds, StaleStays, WonOnFile, NoSweep, MineBounded, Holds,
          Expired, EmptyBy, LockBy
  <1>12. CASE DropLost(p)
    BY <1>12, QuietStep, AttemptQuiet DEF DropLost
  <1> QED
    BY <1>1, <1>2, <1>3, <1>4, <1>5, <1>6, <1>7, <1>8, <1>9, <1>10, <1>11, <1>12 DEF AcquireStep

LEMMA OthersKeep ==
  ASSUME LockAssumption, Disciplined, TypeOK, MutexInv, LockInv, NEW p \in Agents,
         \/ StartAcquire(p) \/ StartRelease(p) \/ StartGc(p)
         \/ ReleaseStep(p) \/ GcStep(p) \/ Crash(p)
  PROVE  LockInv'
  <1>1. CASE StartAcquire(p)
    <2>1. mine'[p] \in TTLs /\ pc'[p] = "open"
          /\ \A q \in Agents \ {p} : pc'[q] = pc[q] /\ mine'[q] = mine[q]
      BY <1>1 DEF StartAcquire, Goto, TypeOK
    <2>2. \A t \in TTLs : t <= t
      BY DEF LockAssumption
    <2> QED
      BY <1>1, <2>1, <2>2, QuietStep DEF StartAcquire
  <1>2. CASE StartRelease(p)
    <2>1. /\ \A q \in Agents \ {p} : pc'[q] = pc[q]
          /\ pc'[p] = "relLoad" /\ Holds(p)
          /\ UNCHANGED <<file, mine, seen, grant>>
      BY <1>2 DEF StartRelease, Goto, TypeOK, Disciplined
    <2> QED
      BY <2>1
      DEF LockInv, HolderOnRecord, WriterOwns, ReleasingHolds, StaleStays, WonOnFile,
          NoSweep, MineBounded, Holds, Expired, EmptyBy, LockBy
  <1>3. CASE StartGc(p)
    BY <1>3 DEF StartGc, Disciplined
  <1>4. CASE ReleaseLoad(p)
    BY <1>4, QuietStep DEF ReleaseLoad, Goto, TypeOK, LockInv, MineBounded
  <1>5. CASE ReleaseRefuse(p)
    BY <1>5 DEF ReleaseRefuse, MayRelease, LockInv, ReleasingHolds, HolderOnRecord
  <1>6. CASE ReleaseUnlink(p)
    <2>1. Holds(p) /\ file.kind = "lock" /\ file.by = p /\ file.left >= grant[p]
      BY <1>6 DEF ReleaseUnlink, LockInv, ReleasingHolds, HolderOnRecord
    <2>2. ~Expired(file) /\ \A q \in Agents \ {p} : ~Holds(q)
      BY <2>1 DEF LockInv, HolderOnRecord, Holds, Expired, TypeOK, Left, File
    <2>3. \A q \in Agents : pc[q] # "dropWon"
      <3>1. ASSUME NEW q \in Agents, pc[q] = "dropWon" PROVE FALSE
        <4>1. file = LockBy(q, mine[q])
          BY <3>1 DEF LockInv, WonOnFile
        <4>2. q = p
          BY <4>1, <2>1 DEF LockBy
        <4> QED BY <4>2, <3>1, <1>6 DEF ReleaseUnlink
      <3> QED BY <3>1
    <2>4. \A q \in Agents \ {p} : pc[q] \notin {"write", "relLoad", "relUnlink", "replace"}
                            /\ ~(pc[q] = "rJudge" /\ Expired(seen[q]))
      BY <2>1, <2>2 DEF LockInv, WriterOwns, ReleasingHolds, StaleStays, EmptyBy
    <2>5. /\ \A q \in Agents \ {p} : pc'[q] = pc[q] /\ mine'[q] = mine[q] /\ seen'[q] = seen[q]
          /\ pc'[p] = "idle"
          /\ mine'[p] > 0 => \E t \in TTLs : mine'[p] <= t
      BY <1>6, EndInQuiet DEF ReleaseUnlink, Resting
    <2>6. \A q \in Agents : ~Holds(q)'
      BY <1>6, <2>2 DEF ReleaseUnlink, Holds, TypeOK
    <2> QED
      BY <2>3, <2>4, <2>5, <2>6
      DEF LockInv, HolderOnRecord, WriterOwns, ReleasingHolds, StaleStays, WonOnFile,
          NoSweep, MineBounded, Expired
  <1>7. CASE GcStep(p)
    BY <1>7 DEF GcStep, GcLoad, GcUnlink, GcStat, GcSweep, LockInv, NoSweep
  <1>8. CASE Crash(p)
    BY <1>8, QuietStep, EndInQuiet DEF Crash, Resting
  <1> QED
    BY <1>1, <1>2, <1>3, <1>4, <1>5, <1>6, <1>7, <1>8 DEF ReleaseStep

LEMMA TickKeeps ==
  ASSUME LockAssumption, Disciplined, TypeOK, LockInv, Tick
  PROVE  LockInv'
  <1>1. /\ pc' = pc
        /\ \A q \in Agents : /\ grant'[q] = Aged(grant[q])
                             /\ mine'[q] = Aged(mine[q])
                             /\ seen'[q] = [seen[q] EXCEPT !.left = Aged(@)]
        /\ file' = [file EXCEPT !.left = Aged(@)]
    BY DEF Tick
  <1>2. file'.kind = file.kind /\ file'.by = file.by /\ file'.left = Aged(file.left)
    BY <1>1 DEF TypeOK, File
  <1>3. file.left \in Left /\ \A q \in Agents : grant[q] \in Left /\ mine[q] \in Left
    BY DEF TypeOK, File
  <1>4. HolderOnRecord'
    <2>1. ASSUME NEW q \in Agents, grant'[q] > 0
          PROVE  file'.kind = "lock" /\ file'.by = q /\ file'.left >= grant'[q]
      <3>1. Holds(q)
        BY <2>1, <1>1, <1>3, AgedProps DEF Holds
      <3>2. file.kind = "lock" /\ file.by = q /\ grant[q] <= file.left
        BY <3>1, <1>3 DEF LockInv, HolderOnRecord, Left
      <3>3. Aged(grant[q]) <= Aged(file.left) /\ Aged(grant[q]) \in Left /\ Aged(file.left) \in Left
        BY <3>2, <1>3, AgedProps
      <3> QED
        BY <3>2, <3>3, <1>1, <1>2 DEF Left
    <2> QED BY <2>1 DEF HolderOnRecord, Holds
  <1>5. WriterOwns'
    <2>1. ASSUME NEW q \in Agents, pc[q] = "write" PROVE file' = EmptyBy(q)
      BY <2>1, <1>1 DEF LockInv, WriterOwns, EmptyBy, Aged
    <2> QED BY <2>1, <1>1 DEF WriterOwns, EmptyBy
  <1>6. ReleasingHolds'
    BY <1>1, <1>3 DEF LockInv, ReleasingHolds, Holds, Tick, MayTick, Disciplined, Aged, Left
  <1>7. StaleStays'
    <2>1. \A q \in Agents : pc[q] # "rJudge"
      BY DEF Tick, MayTick, Disciplined, MutexRespected
    <2> QED
      BY <2>1, <1>1, <1>2, <1>3 DEF LockInv, StaleStays, Expired, Aged, Left
  <1>8. WonOnFile'
    <2>1. ASSUME NEW q \in Agents, pc[q] = "dropWon"
          PROVE  file' = LockBy(q, mine'[q]) /\ ~(grant'[q] > 0)
      <3>0. ~(grant'[q] > 0)
        BY <2>1, <1>1, <1>3, AgedProps DEF LockInv, WonOnFile, Holds
      <3>1. file = LockBy(q, mine[q])
        BY <2>1 DEF LockInv, WonOnFile
      <3>2. mine'[q] = Aged(mine[q]) /\ file' = [file EXCEPT !.left = Aged(@)]
        BY <1>1
      <3> QED BY <3>0, <3>1, <3>2 DEF LockBy
    <2> QED BY <2>1, <1>1 DEF WonOnFile, LockBy, Holds
  <1>9. NoSweep'
    BY <1>1 DEF LockInv, NoSweep
  <1>10. MineBounded'
    <2>1. ASSUME NEW q \in Agents, mine'[q] > 0 PROVE \E t \in TTLs : mine'[q] <= t
      <3>1. mine[q] > 0 /\ mine'[q] <= mine[q] /\ mine'[q] \in Left
        BY <2>1, <1>1, <1>3, AgedProps
      <3>2. PICK t \in TTLs : mine[q] <= t
        BY <3>1 DEF LockInv, MineBounded
      <3> QED BY <3>1, <3>2, <1>3 DEF LockAssumption, Left
    <2> QED BY <2>1 DEF MineBounded
  <1> QED
    BY <1>4, <1>5, <1>6, <1>7, <1>8, <1>9, <1>10 DEF LockInv

LEMMA LockInit == ASSUME Init PROVE LockInv
  BY DEF Init, LockInv, HolderOnRecord, WriterOwns, ReleasingHolds, StaleStays, WonOnFile,
         NoSweep, MineBounded, Holds

LEMMA LockStep ==
  ASSUME LockAssumption, Disciplined, TypeOK, MutexInv, LockInv, [Next]_vars
  PROVE  LockInv'
  <1>1. CASE Tick
    BY <1>1, TickKeeps
  <1>2. CASE \E p \in Agents : AcquireStep(p)
    BY <1>2, AcquireKeeps
  <1>3. CASE \E p \in Agents : \/ StartAcquire(p) \/ StartRelease(p) \/ StartGc(p)
                               \/ ReleaseStep(p) \/ GcStep(p) \/ Crash(p)
    BY <1>3, OthersKeep
  <1>4. CASE UNCHANGED vars
    BY <1>4 DEF vars, LockInv, HolderOnRecord, WriterOwns, ReleasingHolds, StaleStays, WonOnFile,
                NoSweep, MineBounded, Holds, Expired, EmptyBy, LockBy
  <1> QED
    BY <1>1, <1>2, <1>3, <1>4 DEF Next

LEMMA LockInvariance ==
  ASSUME Disciplined
  PROVE  Spec => [](TypeOK /\ MutexInv /\ LockInv)
  <1>1. Init => MutexInv /\ LockInv
    BY MutexInit, LockInit
  <1>2. TypeOK /\ MutexInv /\ LockInv /\ [Next]_vars => MutexInv' /\ LockInv'
    BY MutexStep, LockStep, LockAssumption DEF Disciplined
  <1> QED
    BY <1>1, <1>2, TypeCorrect, PTL DEF Spec

\* Under the discipline the lock file is a true record of every live lease.
THEOREM HolderRecorded ==
  ASSUME Disciplined
  PROVE  Spec => []HolderOnRecord
  <1>1. LockInv => HolderOnRecord
    BY DEF LockInv
  <1> QED
    BY <1>1, LockInvariance, PTL

\* Under the discipline no two agents are ever within a granted lease.
THEOREM LeasesExclude ==
  ASSUME Disciplined
  PROVE  Spec => []MutualExclusion
  <1>1. HolderOnRecord => MutualExclusion
    BY DEF HolderOnRecord, MutualExclusion
  <1> QED
    BY <1>1, HolderRecorded, PTL

(***************************************************************************)
(* Refinement: the files and processes implement Lease.                    *)
(***************************************************************************)
LEMMA HolderIs ==
  MutualExclusion =>
    /\ \A p \in Agents : Holds(p) => Holder = p
    /\ (\A p \in Agents : ~Holds(p)) => Holder = NoAgent
  BY DEF MutualExclusion, Holder

HolderCorrect ==
  /\ \A p \in Agents : Holds(p) => Holder = p /\ HolderLeft = grant[p]
  /\ (\A p \in Agents : ~Holds(p)) => Holder = NoAgent /\ HolderLeft = 0

LEMMA HolderValueNow == MutualExclusion => HolderCorrect
  BY HolderIs, LockAssumption DEF HolderCorrect, HolderLeft, LockAssumption

LEMMA HolderValueThen == MutualExclusion' => HolderCorrect'
  BY HolderValueNow, PTL

LEMMA HolderValue ==
  ASSUME MutualExclusion
  PROVE  /\ \A p \in Agents : Holds(p) => Holder = p /\ HolderLeft = grant[p]
         /\ (\A p \in Agents : ~Holds(p)) => Holder = NoAgent /\ HolderLeft = 0
  BY HolderValueNow DEF HolderCorrect

LEMMA HolderValueNext ==
  ASSUME MutualExclusion'
  PROVE  /\ \A p \in Agents : Holds(p)' => Holder' = p /\ HolderLeft' = grant'[p]
         /\ (\A p \in Agents : ~Holds(p)') => Holder' = NoAgent /\ HolderLeft' = 0
  BY HolderValueThen DEF HolderCorrect

\* A step that changes no lease is invisible in Lease.
LEMMA SameLeases ==
  ASSUME LockAssumption, MutualExclusion, MutualExclusion', grant' = grant
  PROVE  UNCHANGED <<Holder, HolderLeft>>
  <1>1. CASE \E p \in Agents : Holds(p)
    BY <1>1, HolderValue, HolderValueNext DEF Holds
  <1>2. CASE \A p \in Agents : ~Holds(p)
    BY <1>2, HolderValue, HolderValueNext DEF Holds
  <1> QED BY <1>1, <1>2

\* A process that is told its claim succeeded takes a free lease, if anything
\* of the ttl is left.
LEMMA GrantTakes ==
  ASSUME LockAssumption, TypeOK, LockInv, MutualExclusion, MutualExclusion',
         NEW p \in Agents, \A q \in Agents : ~Holds(q),
         grant' = [grant EXCEPT ![p] = mine[p]]
  PROVE  Abstract!Take(p) \/ UNCHANGED <<Holder, HolderLeft>>
  <1>1. Holder = NoAgent /\ HolderLeft = 0
    BY HolderValue
  <1>2. CASE mine[p] > 0
    <2>1. Holder' = p /\ HolderLeft' = mine[p]
      BY <1>2, HolderValueNext DEF TypeOK, Holds
    <2>2. PICK t \in TTLs : mine[p] <= t
      BY <1>2 DEF LockInv, MineBounded
    <2>3. mine[p] \in 1 .. t
      BY <1>2, <2>2 DEF TypeOK, Left, LockAssumption
    <2>4. HolderLeft' \in Abstract!Bounds
      BY <2>1, <2>3 DEF Abstract!Bounds
    <2> QED BY <1>1, <2>1, <2>4 DEF Abstract!Take
  <1>3. CASE ~(mine[p] > 0)
    <2>1. \A q \in Agents : ~Holds(q)'
      BY <1>3 DEF TypeOK, Holds
    <2> QED BY <1>1, <2>1, HolderValueNext
  <1> QED BY <1>2, <1>3

LEMMA LeaseStep ==
  ASSUME LockAssumption, Disciplined, TypeOK, MutexInv, LockInv,
         MutualExclusion, MutualExclusion', [Next]_vars
  PROVE  [Abstract!LeaseNext]_<<Holder, HolderLeft>>
  <1> USE DEF Abstract!LeaseNext
  <1>1. CASE Tick
    <2>1. \A q \in Agents : grant'[q] = Aged(grant[q]) /\ grant[q] \in Left
      BY <1>1 DEF Tick, TypeOK
    <2>2. CASE \A q \in Agents : ~Holds(q)
      <3>1. \A q \in Agents : ~Holds(q)'
        BY <2>1, <2>2, AgedProps DEF Holds
      <3> QED BY <2>2, <3>1, HolderValue, HolderValueNext
    <2>3. ASSUME NEW p \in Agents, Holds(p)
          PROVE  Abstract!Pass
      <3>1. Holder = p /\ HolderLeft = grant[p] /\ p # NoAgent
        BY <2>3, HolderValue DEF LockAssumption
      <3>2. \A q \in Agents \ {p} : ~Holds(q)'
        BY <2>1, <2>3, AgedProps DEF MutualExclusion, Holds
      <3>3. grant'[p] = grant[p] - 1 /\ grant[p] \in Int /\ grant[p] > 0
        BY <2>1, <2>3 DEF Holds, Aged, Left
      <3>4. CASE grant[p] = 1
        <4>1. \A q \in Agents : ~Holds(q)'
          BY <3>2, <3>3, <3>4 DEF Holds
        <4> QED BY <3>1, <3>3, <3>4, <4>1, HolderValueNext DEF Abstract!Pass
      <3>5. CASE grant[p] # 1
        <4>1. Holds(p)'
          BY <3>3, <3>5 DEF Holds
        <4> QED BY <3>1, <3>3, <3>5, <4>1, HolderValueNext DEF Abstract!Pass
      <3> QED BY <3>4, <3>5
    <2> QED BY <2>2, <2>3
  <1>2. ASSUME NEW p \in Agents, WritePayload(p)
        PROVE  [Abstract!LeaseNext]_<<Holder, HolderLeft>>
    <2>1. \A q \in Agents : ~Holds(q)
      BY <1>2 DEF WritePayload, LockInv, WriterOwns, HolderOnRecord, EmptyBy
    <2> QED
      BY <1>2, <2>1, GrantTakes DEF WritePayload, Grant
  <1>3. ASSUME NEW p \in Agents, DropWon(p)
        PROVE  [Abstract!LeaseNext]_<<Holder, HolderLeft>>
    <2>1. \A q \in Agents : ~Holds(q)
      BY <1>3 DEF DropWon, LockInv, WonOnFile, HolderOnRecord, LockBy
    <2> QED
      BY <1>3, <2>1, GrantTakes DEF DropWon, Grant
  <1>4. ASSUME NEW p \in Agents, ReleaseUnlink(p)
        PROVE  Abstract!GiveBack
    <2>1. Holds(p)
      BY <1>4 DEF ReleaseUnlink, LockInv, ReleasingHolds
    <2>2. Holder = p /\ p # NoAgent
      BY <2>1, HolderValue DEF LockAssumption
    <2>3. \A q \in Agents : ~Holds(q)'
      BY <1>4, <2>1 DEF ReleaseUnlink, MutualExclusion, Holds, TypeOK
    <2> QED
      BY <2>2, <2>3, HolderValueNext DEF Abstract!GiveBack
  <1>5. ASSUME NEW p \in Agents, ReleaseRefuse(p)
        PROVE  FALSE
    BY <1>5 DEF ReleaseRefuse, MayRelease, LockInv, ReleasingHolds, HolderOnRecord
  <1>6. ASSUME NEW p \in Agents,
               \/ OpenFresh(p) \/ OpenExists(p) \/ LoadMissing(p) \/ Load(p) \/ Refuse(p)
               \/ JudgeStale(p) \/ MutexWin(p) \/ MutexTaken(p) \/ MutexStat(p) \/ MutexBreak(p)
               \/ ReclaimLoad(p) \/ ReclaimJudge(p) \/ Replace(p) \/ DropLost(p)
               \/ StartAcquire(p) \/ StartRelease(p) \/ StartGc(p) \/ ReleaseLoad(p)
               \/ GcStep(p) \/ Crash(p)
        PROVE  grant' = grant
    BY <1>6 DEF OpenFresh, OpenExists, LoadMissing, Load, Refuse, JudgeStale, MutexWin, MutexTaken,
                MutexStat, MutexBreak, ReclaimLoad, ReclaimJudge, Replace, DropLost, StartAcquire,
                StartRelease, StartGc, ReleaseLoad, GcStep, GcLoad, GcUnlink, GcStat, GcSweep, Crash
  <1>7. CASE UNCHANGED vars
    BY <1>7, SameLeases DEF vars
  <1> QED
    BY <1>1, <1>2, <1>3, <1>4, <1>5, <1>6, <1>7, SameLeases DEF Next, AcquireStep, ReleaseStep

\* Under the discipline, every behaviour of the lock files is one of Lease: a
\* lease is taken only when free, runs down with time, and ends early only by
\* its holder's own release.
THEOREM LeaseRefinement ==
  ASSUME Disciplined
  PROVE  Spec => ImplementsLease
  <1>1. Init => Abstract!LeaseInit
    <2> SUFFICES ASSUME Init PROVE Abstract!LeaseInit
      OBVIOUS
    <2>1. \A p \in Agents : ~Holds(p)
      BY DEF Init, Holds
    <2>2. MutualExclusion
      BY <2>1 DEF MutualExclusion
    <2> QED
      BY <2>1, <2>2, HolderValue, LockAssumption DEF Abstract!LeaseInit
  <1>2. /\ TypeOK /\ MutexInv /\ LockInv
        /\ MutualExclusion /\ MutualExclusion'
        /\ [Next]_vars
        => [Abstract!LeaseNext]_<<Holder, HolderLeft>>
    BY LeaseStep, LockAssumption
  <1> QED
    BY <1>1, <1>2, LockInvariance, LeasesExclude, PTL DEF Spec, ImplementsLease, Abstract!LeaseSpec
=============================================================================
