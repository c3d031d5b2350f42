---------------------------- MODULE ResourceLock ----------------------------
(***************************************************************************)
(* One named resource of straw_boss/resource_lock.py: the lock file        *)
(* locks/<resource>.json, its .reclaim-mutex companion, and the            *)
(* claim-resource.py processes that run acquire, release and gc on them.   *)
(*                                                                         *)
(* There is no server and no file-system lock: every command is its own    *)
(* short-lived process, and each system call it makes on the two files is  *)
(* one step here, so the steps of different processes interleave.  Time is *)
(* kept as remaining seconds instead of timestamps: a lock written with    *)
(* ttl_seconds = n starts at left = n and loses one per Tick down to -1,   *)
(* so  remaining > 0  in acquire is  left > 0  and  age > ttl_seconds  in  *)
(* reclaim_stale and gc is  left < 0.                                      *)
(***************************************************************************)
EXTENDS Integers, FiniteSets

CONSTANTS
  Agents,          \* holders; an agent runs one claim-resource command at a time
  NoAgent,
  TTLs,            \* values an agent passes as --ttl-seconds
  MutexStale,      \* RECLAIM_MUTEX_STALE_SECONDS
  Sweepers,        \* agents that also run gc
  Forcers,         \* agents that pass --force to release
  CrashPoints,     \* program points at which a process may die
  TimelyRelease,   \* TRUE: a holder only releases, start to end, within its lease
  Prompt           \* TRUE: a living process is never slow inside reclaim_stale

Critical == {"rLoad", "rJudge", "replace", "dropWon", "dropLost"}
Resting  == {"idle", "granted", "refused", "failed"}
Labels   == Critical \cup Resting \cup
            {"open", "write", "load", "judge",
             "mutexOpen", "mutexStat", "mutexBreak",
             "relLoad", "relUnlink",
             "gcLoad", "gcUnlink", "gcStat", "gcSweep"}

ASSUME LockAssumption ==
  /\ NoAgent \notin Agents
  /\ TTLs \subseteq Nat \ {0}
  /\ MutexStale \in Nat
  /\ Sweepers \subseteq Agents
  /\ Forcers \subseteq Agents
  /\ CrashPoints \subseteq Labels \ Resting
  /\ TimelyRelease \in BOOLEAN
  /\ Prompt \in BOOLEAN

VARIABLES
  file,    \* the lock file: absent, created but still empty, or a payload
  mutex,   \* age of the .reclaim-mutex file, NoMutex when there is none
  pc,      \* where each agent's current process is
  mine,    \* what is left of the lease in the payload the process would write
  seen,    \* the payload the process loaded and has yet to judge
  att,     \* attempt of acquire's two-pass loop
  mtry,    \* attempt of with_reclaim_mutex's two-pass loop
  grant    \* what is left of the lease the agent was told it holds

vars == <<file, mutex, pc, mine, seen, att, mtry, grant>>

Left    == {n \in Int : n >= -1}
NoMutex == -1

File   == [kind : {"absent", "empty", "lock"}, by : Agents \cup {NoAgent}, left : Left]
NoFile == [kind |-> "absent", by |-> NoAgent, left |-> -1]
EmptyBy(p)    == [kind |-> "empty", by |-> p, left |-> -1]
LockBy(p, n)  == [kind |-> "lock", by |-> p, left |-> n]

\* Mutant (not the code): stale a second too early.
ExpiredEarly(f)  == f.left < 2

Expired(f) == f.left < 0
Aged(n)    == IF n > -1 THEN n - 1 ELSE -1

Holds(p)      == grant[p] > 0
InCritical(p) == pc[p] \in Critical

Init ==
  /\ file  = NoFile
  /\ mutex = NoMutex
  /\ pc    = [p \in Agents |-> "idle"]
  /\ mine  = [p \in Agents |-> -1]
  /\ seen  = [p \in Agents |-> NoFile]
  /\ att   = [p \in Agents |-> 0]
  /\ mtry  = [p \in Agents |-> 0]
  /\ grant = [p \in Agents |-> -1]

(***************************************************************************)
(* acquire                                                                 *)
(***************************************************************************)
Goto(p, l) == pc' = [pc EXCEPT ![p] = l]

\* The command ends in l: its locals are gone with the process.
EndIn(p, l) ==
  /\ Goto(p, l)
  /\ mine' = [mine EXCEPT ![p] = -1]
  /\ seen' = [seen EXCEPT ![p] = NoFile]
  /\ att'  = [att EXCEPT ![p] = 0]
  /\ mtry' = [mtry EXCEPT ![p] = 0]

\* granted(): the holder is told it has the rest of the ttl in its payload.
Grant(p) ==
  /\ EndIn(p, "granted")
  /\ grant' = [grant EXCEPT ![p] = mine[p]]

\* `continue` in acquire's loop; after the second pass acquire raises.
NextAttempt(p) ==
  IF att[p] = 0
  THEN /\ Goto(p, "open")
       /\ att'  = [att EXCEPT ![p] = 1]
       /\ seen' = [seen EXCEPT ![p] = NoFile]
       /\ mtry' = [mtry EXCEPT ![p] = 0]
       /\ UNCHANGED mine
  ELSE EndIn(p, "failed")

\* The payload, acquired_at included, is built before the first attempt.
StartAcquire(p) ==
  /\ pc[p] \in Resting
  /\ \E t \in TTLs : mine' = [mine EXCEPT ![p] = t]
  /\ Goto(p, "open")
  /\ UNCHANGED <<file, mutex, seen, att, mtry, grant>>

\* Mutant: open(path, "w") instead of O_CREAT | O_EXCL.
OpenTruncating(p) ==
  /\ pc[p] = "open"
  /\ file' = EmptyBy(p)
  /\ Goto(p, "write")
  /\ UNCHANGED <<mutex, mine, seen, att, mtry, grant>>

OpenFresh(p) ==
  /\ pc[p] = "open"
  /\ file.kind = "absent"
  /\ file' = EmptyBy(p)
  /\ Goto(p, "write")
  /\ UNCHANGED <<mutex, mine, seen, att, mtry, grant>>

OpenExists(p) ==
  /\ pc[p] = "open"
  /\ file.kind # "absent"
  /\ Goto(p, "load")
  /\ UNCHANGED <<file, mutex, mine, seen, att, mtry, grant>>

\* The write goes to the inode this process created; if another process has
\* unlinked or replaced that file meanwhile, nothing at the path changes.
WritePayload(p) ==
  /\ pc[p] = "write"
  /\ file' = IF file = EmptyBy(p) THEN LockBy(p, mine[p]) ELSE file
  /\ Grant(p)
  /\ UNCHANGED mutex

LoadMissing(p) ==
  /\ pc[p] = "load"
  /\ file.kind # "lock"
  /\ NextAttempt(p)
  /\ UNCHANGED <<file, mutex, grant>>

Load(p) ==
  /\ pc[p] = "load"
  /\ file.kind = "lock"
  /\ seen' = [seen EXCEPT ![p] = file]
  /\ Goto(p, "judge")
  /\ UNCHANGED <<file, mutex, mine, att, mtry, grant>>

Refuse(p) ==
  /\ pc[p] = "judge"
  /\ seen[p].left > 0
  /\ EndIn(p, "refused")
  /\ UNCHANGED <<file, mutex, grant>>

JudgeStale(p) ==
  /\ pc[p] = "judge"
  /\ seen[p].left <= 0
  /\ Goto(p, "mutexOpen")
  /\ seen' = [seen EXCEPT ![p] = NoFile]
  /\ UNCHANGED <<file, mutex, mine, att, mtry, grant>>

(***************************************************************************)
(* with_reclaim_mutex and reclaim_stale                                    *)
(***************************************************************************)
MutexWin(p) ==
  /\ pc[p] = "mutexOpen"
  /\ mutex = NoMutex
  /\ mutex' = 0
  /\ Goto(p, "rLoad")
  /\ UNCHANGED <<file, mine, seen, att, mtry, grant>>

MutexTaken(p) ==
  /\ pc[p] = "mutexOpen"
  /\ mutex # NoMutex
  /\ Goto(p, "mutexStat")
  /\ UNCHANGED <<file, mutex, mine, seen, att, mtry, grant>>

\* `continue` in the mutex loop; when both passes are used up the caller
\* gets None and goes on to its next attempt.
MutexRetry(p) ==
  IF mtry[p] = 0
  THEN /\ Goto(p, "mutexOpen")
       /\ mtry' = [mtry EXCEPT ![p] = 1]
       /\ UNCHANGED <<mine, seen, att>>
  ELSE NextAttempt(p)

\* Mutant: an abandoned mutex is respected for ever.
MutexStatPatient(p) ==
  /\ pc[p] = "mutexStat"
  /\ IF mutex = NoMutex THEN MutexRetry(p) ELSE NextAttempt(p)
  /\ UNCHANGED <<file, mutex, grant>>

MutexStat(p) ==
  /\ pc[p] = "mutexStat"
  /\ \/ /\ mutex = NoMutex
        /\ MutexRetry(p)
     \/ /\ mutex > MutexStale
        /\ Goto(p, "mutexBreak")
        /\ UNCHANGED <<mine, seen, att, mtry>>
     \/ /\ mutex \in 0 .. MutexStale
        /\ NextAttempt(p)
  /\ UNCHANGED <<file, mutex, grant>>

\* unlink by path: it removes whichever mutex file is there by now.
MutexBreak(p) ==
  /\ pc[p] = "mutexBreak"
  /\ mutex' = NoMutex
  /\ MutexRetry(p)
  /\ UNCHANGED <<file, grant>>

ReclaimLoad(p) ==
  /\ pc[p] = "rLoad"
  /\ \/ /\ file.kind = "lock"
        /\ seen' = [seen EXCEPT ![p] = file]
        /\ Goto(p, "rJudge")
     \/ /\ file.kind # "lock"
        /\ Goto(p, "dropLost")
        /\ UNCHANGED seen
  /\ UNCHANGED <<file, mutex, mine, att, mtry, grant>>

\* Mutant: the verdict reached before the mutex is not checked again inside it.
ReclaimJudgeBlind(p) ==
  /\ pc[p] = "rJudge"
  /\ Goto(p, "replace")
  /\ seen' = [seen EXCEPT ![p] = NoFile]
  /\ UNCHANGED <<file, mutex, mine, att, mtry, grant>>

ReclaimJudge(p) ==
  /\ pc[p] = "rJudge"
  /\ Goto(p, IF Expired(seen[p]) THEN "replace" ELSE "dropLost")
  /\ seen' = [seen EXCEPT ![p] = NoFile]
  /\ UNCHANGED <<file, mutex, mine, att, mtry, grant>>

Replace(p) ==
  /\ pc[p] = "replace"
  /\ file' = LockBy(p, mine[p])
  /\ Goto(p, "dropWon")
  /\ UNCHANGED <<mutex, mine, seen, att, mtry, grant>>

\* The `finally` clause unlinks the mutex by path, then acquire goes on.
DropWon(p) ==
  /\ pc[p] = "dropWon"
  /\ mutex' = NoMutex
  /\ Grant(p)
  /\ UNCHANGED file

DropLost(p) ==
  /\ pc[p] = "dropLost"
  /\ mutex' = NoMutex
  /\ NextAttempt(p)
  /\ UNCHANGED <<file, grant>>

(***************************************************************************)
(* release                                                                 *)
(***************************************************************************)
StartRelease(p) ==
  /\ pc[p] \in Resting
  /\ TimelyRelease => Holds(p)
  /\ Goto(p, "relLoad")
  /\ UNCHANGED <<file, mutex, mine, seen, att, mtry, grant>>

MayRelease(p) == file.kind = "lock" /\ (file.by = p \/ p \in Forcers)

ReleaseLoad(p) ==
  /\ pc[p] = "relLoad"
  /\ MayRelease(p)
  /\ Goto(p, "relUnlink")
  /\ UNCHANGED <<file, mutex, mine, seen, att, mtry, grant>>

\* Nothing held, mid-write, or somebody else's: the command fails.
ReleaseRefuse(p) ==
  /\ pc[p] = "relLoad"
  /\ ~MayRelease(p)
  /\ EndIn(p, "failed")
  /\ grant' = [grant EXCEPT ![p] = -1]
  /\ UNCHANGED <<file, mutex>>

ReleaseUnlink(p) ==
  /\ pc[p] = "relUnlink"
  /\ file' = NoFile
  /\ EndIn(p, "idle")
  /\ grant' = [grant EXCEPT ![p] = -1]
  /\ UNCHANGED mutex

(***************************************************************************)
(* gc: the lock file first, then the mutex file                            *)
(***************************************************************************)
StartGc(p) ==
  /\ p \in Sweepers
  /\ pc[p] \in Resting
  /\ Goto(p, "gcLoad")
  /\ UNCHANGED <<file, mutex, mine, seen, att, mtry, grant>>

GcLoad(p) ==
  /\ pc[p] = "gcLoad"
  /\ \/ /\ file.kind = "lock"
        /\ seen' = [seen EXCEPT ![p] = file]
        /\ Goto(p, "gcUnlink")
     \/ /\ file.kind # "lock"
        /\ Goto(p, "gcStat")
        /\ UNCHANGED seen
  /\ UNCHANGED <<file, mutex, mine, att, mtry, grant>>

GcUnlink(p) ==
  /\ pc[p] = "gcUnlink"
  /\ file' = IF Expired(seen[p]) THEN NoFile ELSE file
  /\ seen' = [seen EXCEPT ![p] = NoFile]
  /\ Goto(p, "gcStat")
  /\ UNCHANGED <<mutex, mine, att, mtry, grant>>

GcStat(p) ==
  /\ pc[p] = "gcStat"
  /\ \/ /\ mutex > MutexStale
        /\ Goto(p, "gcSweep")
        /\ UNCHANGED <<mine, seen, att, mtry>>
     \/ /\ mutex <= MutexStale
        /\ EndIn(p, "idle")
  /\ UNCHANGED <<file, mutex, grant>>

GcSweep(p) ==
  /\ pc[p] = "gcSweep"
  /\ mutex' = NoMutex
  /\ EndIn(p, "idle")
  /\ UNCHANGED <<file, grant>>

(***************************************************************************)
(* The environment                                                         *)
(***************************************************************************)
\* The process dies between two of its system calls; the files stay as they are.
Crash(p) ==
  /\ pc[p] \in CrashPoints
  /\ EndIn(p, "idle")
  /\ UNCHANGED <<file, mutex, grant>>

\* What the timing assumptions say of a second passing.
MayTick ==
  /\ TimelyRelease => \A p \in Agents : pc[p] \in {"relLoad", "relUnlink"} => grant[p] > 1
  /\ Prompt => \A p \in Agents : /\ pc[p] # "rJudge"
                                 /\ InCritical(p) => mutex < MutexStale

Tick ==
  /\ MayTick
  /\ file'  = [file EXCEPT !.left = Aged(@)]
  /\ mutex' = IF mutex = NoMutex \/ mutex > MutexStale THEN mutex ELSE mutex + 1
  /\ mine'  = [p \in Agents |-> Aged(mine[p])]
  /\ seen'  = [p \in Agents |-> [seen[p] EXCEPT !.left = Aged(@)]]
  /\ grant' = [p \in Agents |-> Aged(grant[p])]
  /\ UNCHANGED <<pc, att, mtry>>

AcquireStep(p) ==
  \/ OpenFresh(p) \/ OpenExists(p) \/ WritePayload(p)
  \/ LoadMissing(p) \/ Load(p) \/ Refuse(p) \/ JudgeStale(p)
  \/ MutexWin(p) \/ MutexTaken(p) \/ MutexStat(p) \/ MutexBreak(p)
  \/ ReclaimLoad(p) \/ ReclaimJudge(p) \/ Replace(p) \/ DropWon(p) \/ DropLost(p)

ReleaseStep(p) == ReleaseLoad(p) \/ ReleaseRefuse(p) \/ ReleaseUnlink(p)

GcStep(p) == GcLoad(p) \/ GcUnlink(p) \/ GcStat(p) \/ GcSweep(p)

Next ==
  \/ Tick
  \/ \E p \in Agents :
       \/ StartAcquire(p) \/ StartRelease(p) \/ StartGc(p)
       \/ AcquireStep(p) \/ ReleaseStep(p) \/ GcStep(p)
       \/ Crash(p)

Spec == Init /\ [][Next]_vars

\* A started process runs on unless it crashes, time passes, and some waiter
\* keeps asking: wait_for calls acquire again after every refusal.
Fairness ==
  /\ WF_vars(Tick)
  /\ \A p \in Agents :
       /\ WF_vars(AcquireStep(p))
       /\ WF_vars(ReleaseStep(p))
       /\ WF_vars(GcStep(p))
       /\ WF_vars(StartAcquire(p))

FairSpec == Spec /\ Fairness

(***************************************************************************)
(* Properties                                                              *)
(***************************************************************************)

\* Every variable keeps its type.
TypeOK ==
  /\ file \in File
  /\ mutex \in Left
  /\ pc \in [Agents -> Labels]
  /\ mine \in [Agents -> Left]
  /\ seen \in [Agents -> File]
  /\ att \in [Agents -> {0, 1}]
  /\ mtry \in [Agents -> {0, 1}]
  /\ grant \in [Agents -> Left]

\* No two agents are at the same time within a lease acquire granted them:
\* the double grant with_reclaim_mutex exists to rule out.
MutualExclusion == \A p, q \in Agents : Holds(p) /\ Holds(q) => p = q

\* While an agent is within its lease, the file names it and does not call the
\* lock expired before the agent does, so `status` and `list` are a live
\* record of who holds what and acquire refuses everyone else.
HolderOnRecord ==
  \A p \in Agents : Holds(p) => /\ file.kind = "lock"
                                /\ file.by = p
                                /\ file.left >= grant[p]

\* At most one process is between winning the reclaim mutex and dropping it.
OneReclaimer == \A p, q \in Agents : InCritical(p) /\ InCritical(q) => p = q

\* A lock whose holder went away does not stay: once it is expired, it is
\* released, swept, or claimed again, provided processes do not die for ever.
CrashesStop == <>[][\A p \in Agents : ~Crash(p)]_vars
AbandonedLockIsRecovered ==
  CrashesStop =>
    ((file.kind = "lock" /\ Expired(file)) ~>
       \/ file.kind # "lock"
       \/ ~Expired(file)
       \/ \E p \in Agents : pc[p] = "granted")

\* The lease an observer sees: who holds the resource and for how long.
Holder     == IF \E p \in Agents : Holds(p) THEN CHOOSE p \in Agents : Holds(p) ELSE NoAgent
HolderLeft == IF Holder = NoAgent THEN 0 ELSE grant[Holder]

Abstract == INSTANCE Lease WITH owner <- Holder, left <- HolderLeft

\* The two files and their processes implement the lease claim-resource promises.
ImplementsLease == Abstract!LeaseSpec
=============================================================================
