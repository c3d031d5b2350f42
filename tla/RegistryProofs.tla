---------------------------- MODULE RegistryProofs ----------------------------
(***************************************************************************)
(* Theorems about Registry, for every set of agents, identities, commands  *)
(* and roles.  Type correctness needs nothing more.  The others are about  *)
(* a registry that is used with discipline: no registration outlives its   *)
(* mutex, one command at a time breaks a stale one, a re-key keeps out of  *)
(* the registrations, and no command dies between the write that gives a   *)
(* role and the write that takes it from the one who had it.               *)
(***************************************************************************)
EXTENDS Registry, TLAPS

Disciplined ==
  /\ Prompt /\ BreakAlone /\ RekeyApart
  /\ CrashPoints \cap {"sweep", "revoke", "rewrite", "keyUnlink"} = {}

(***************************************************************************)
(* Types                                                                   *)
(***************************************************************************)
LEMMA RecordValues ==
  /\ NoRec \in Records
  /\ \A r \in RoleNames \cup {NoRole} : Rec(r) \in Records
  /\ \A c \in Records : [c EXCEPT !.role = NoRole] \in Records /\ [c EXCEPT !.old = FALSE] \in Records
                        /\ [c EXCEPT !.old = TRUE] \in Records
                        /\ [c EXCEPT !.role = NoRole, !.old = FALSE] \in Records
                        /\ c.role \in RoleNames \cup {NoRole}
  BY DEF NoRec, Rec, Records

LEMMA CommandValues == \A p \in Procs : NoCmd(p) \in Commands
  <1> SUFFICES ASSUME NEW p \in Procs PROVE NoCmd(p) \in Commands
    OBVIOUS
  <1>1. First[On[p]] \in Keys
    BY RegistryAssumption
  <1>2. NoRec \in Records /\ [k \in Keys |-> NoRec] \in [Keys -> Records]
    BY RecordValues
  <1> QED
    BY <1>1, <1>2 DEF NoCmd, Commands, Labels

\* A command that goes on, ends, or begins anew is a command.
LEMMA Updated ==
  ASSUME TypeOK, NEW p \in Procs, NEW c \in Commands, cmd' = [cmd EXCEPT ![p] = c]
  PROVE  cmd' \in [Procs -> Commands]
  BY DEF TypeOK

LEMMA GoesOn ==
  ASSUME TypeOK, NEW p \in Procs, NEW x \in Labels, Goes(p, x)
  PROVE  cmd' \in [Procs -> Commands]
  <1>1. [cmd[p] EXCEPT !.pc = x] \in Commands
    BY DEF TypeOK, Commands
  <1>2. cmd' = [cmd EXCEPT ![p] = [cmd[p] EXCEPT !.pc = x]]
    BY DEF Goes
  <1> QED
    BY <1>1, <1>2, Updated

LEMMA IsOver ==
  ASSUME TypeOK, NEW p \in Procs, Ends(p)
  PROVE  cmd' \in [Procs -> Commands]
  BY CommandValues, Updated DEF Ends

LEMMA FreshValues ==
  ASSUME TypeOK, NEW p \in Procs
  PROVE  /\ key[On[p]] \in Keys /\ Fresh(p) \in Commands
  <1>1. key[On[p]] \in Keys /\ NoCmd(p) \in Commands
    BY RegistryAssumption, CommandValues DEF TypeOK
  <1> QED
    BY <1>1 DEF Fresh, Commands

LEMMA TypeInit == Init => TypeOK
  <1> SUFFICES ASSUME Init PROVE TypeOK
    OBVIOUS
  <1>1. [k \in Keys |-> NoRec] \in [Keys -> Records]
    BY RecordValues
  <1> QED
    BY <1>1, CommandValues, RegistryAssumption DEF Init, TypeOK, Free

LEMMA TypeRegister ==
  ASSUME TypeOK, NEW p \in Procs,
         MutexStep(p) \/ \E r \in RoleNames \cup {NoRole} : Register(p, r)
  PROVE  TypeOK'
  <1>r. Retry(p) => cmd' \in [Procs -> Commands]
    <2>1. [cmd[p] EXCEPT !.pc = "mutex", !.tries = 1] \in Commands
      <3>1. "mutex" \in Labels /\ 1 \in 0..1 /\ cmd[p] \in Commands
        BY DEF Labels, TypeOK
      <3> QED
        BY <3>1 DEF Commands
    <2>2. CASE cmd' = [cmd EXCEPT ![p] = [cmd[p] EXCEPT !.pc = "mutex", !.tries = 1]]
      BY <2>1, <2>2, Updated
    <2>3. CASE Ends(p)
      BY <2>3, IsOver
    <2> QED
      BY <2>2, <2>3 DEF Retry
  <1>s. SUFFICES ASSUME cmd' \in [Procs -> Commands] => TypeOK' PROVE cmd' \in [Procs -> Commands]
    <2>1. UNCHANGED recs /\ Files
      BY DEF MutexStep, Register, MutexOpen, MutexStat, MutexBreak, MutexUnlock, OnlyCmd
    <2>2. mutex' \in {Free, Taken, [held |-> TRUE, stale |-> TRUE]}
      BY DEF TypeOK, MutexStep, Register, MutexOpen, MutexStat, MutexBreak, MutexUnlock, OnlyCmd
    <2> QED
      BY <2>1, <2>2 DEF TypeOK, Files
  <1>1. ASSUME NEW r \in RoleNames \cup {NoRole}, Register(p, r) PROVE cmd' \in [Procs -> Commands]
    <2>1. LiveKeys \subseteq Keys
      BY DEF LiveKeys, Answers, TypeOK
    <2>2. [Fresh(p) EXCEPT !.pc = "mutex", !.ask = r, !.live = LiveKeys] \in Commands
      BY <2>1, FreshValues DEF Commands, Labels
    <2> QED
      BY <1>1, <2>2, Updated DEF Register
  <1>2. CASE MutexOpen(p)
    <2>1. [cmd[p] EXCEPT !.pc = "load", !.tries = 0] \in Commands
      <3>1. "load" \in Labels /\ 0 \in 0..1 /\ cmd[p] \in Commands
        BY DEF Labels, TypeOK
      <3> QED
        BY <3>1 DEF Commands
    <2>2. CASE Goes(p, "stat")
      BY <2>2, GoesOn DEF Labels
    <2>3. CASE cmd' = [cmd EXCEPT ![p] = [cmd[p] EXCEPT !.pc = "load", !.tries = 0]]
      BY <2>1, <2>3, Updated
    <2> QED
      BY <1>2, <2>2, <2>3 DEF MutexOpen
  <1>3. CASE MutexStat(p)
    <2>1. Goes(p, "break") => cmd' \in [Procs -> Commands]
      BY GoesOn DEF Labels
    <2> QED
      BY <1>3, <1>r, <2>1, IsOver DEF MutexStat
  <1>4. CASE MutexBreak(p)
    BY <1>4, <1>r DEF MutexBreak
  <1>5. CASE MutexUnlock(p)
    BY <1>5, IsOver DEF MutexUnlock
  <1> QED
    BY <1>1, <1>2, <1>3, <1>4, <1>5 DEF MutexStep

LEMMA TypeClaim ==
  ASSUME TypeOK, NEW p \in Procs, ClaimStep(p)
  PROVE  TypeOK'
  <1>c. cmd[p] \in Commands /\ recs \in [Keys -> Records]
    BY DEF TypeOK
  <1>s. SUFFICES recs' \in [Keys -> Records] /\ cmd' \in [Procs -> Commands]
    <2>1. UNCHANGED mutex /\ Files
      BY DEF ClaimStep, Load, Write, Sweep, Revoke, Rewrite, Prune, OnlyCmd
    <2> QED
      BY <2>1 DEF TypeOK, Files
  <1>1. CASE Load(p)
    <2> DEFINE role == IF cmd[p].ask # NoRole THEN cmd[p].ask ELSE recs[cmd[p].key].role
    <2>1. role \in RoleNames \cup {NoRole}
      BY <1>c, RecordValues DEF Commands
    <2>2. Rec(role) \in Records
      BY <2>1, RecordValues
    <2> HIDE DEF role
    <2>3. [cmd[p] EXCEPT !.pc = "write", !.ask = NoRole, !.rec = Rec(role)] \in Commands
      BY <1>c, <2>2 DEF Commands, Labels
    <2>4. cmd' = [cmd EXCEPT ![p] = [cmd[p] EXCEPT !.pc = "write", !.ask = NoRole, !.rec = Rec(role)]]
      BY <1>1 DEF Load, role
    <2> QED
      BY <1>1, <1>c, <2>3, <2>4, Updated DEF Load, OnlyCmd
  <1>2. CASE Write(p)
    <2>1. cmd[p].rec \in Records
      BY <1>c DEF Commands
    <2> QED
      BY <1>2, <1>c, <2>1, GoesOn DEF Write, Labels
  <1>3. CASE Sweep(p)
    <2>1. \A k \in Keys : (IF k # cmd[p].key /\ k \in Answers(On[p]) THEN NoRec ELSE recs[k]) \in Records
      BY <1>c, RecordValues
    <2>2. Goes(p, "prune") \/ Goes(p, "revoke")
      BY <1>3 DEF Sweep
    <2> QED
      BY <1>3, <2>1, <2>2, GoesOn DEF Sweep, Labels
  <1>4. CASE Revoke(p)
    <2> DEFINE pc == IF Others(p) = {} THEN "prune" ELSE "rewrite"
               was == [k \in Keys |-> IF k \in Others(p) THEN recs[k] ELSE NoRec]
    <2>1. pc \in Labels /\ Others(p) \subseteq Keys /\ was \in [Keys -> Records]
      BY <1>c, RecordValues DEF Labels, Others
    <2> HIDE DEF pc, was
    <2>2. [cmd[p] EXCEPT !.pc = pc, !.todo = Others(p), !.was = was] \in Commands
      BY <1>c, <2>1 DEF Commands
    <2>3. cmd' = [cmd EXCEPT ![p] = [cmd[p] EXCEPT !.pc = pc, !.todo = Others(p), !.was = was]]
      BY <1>4 DEF Revoke, pc, was
    <2> QED
      BY <1>4, <1>c, <2>2, <2>3, Updated DEF Revoke, OnlyCmd
  <1>5. ASSUME NEW k \in Keys, Rewrite(p, k)
        PROVE  recs' \in [Keys -> Records] /\ cmd' \in [Procs -> Commands]
    <2> DEFINE was == [cmd[p].was EXCEPT ![k] = NoRec]
               pc == IF cmd[p].todo = {k} THEN "prune" ELSE cmd[p].pc
    <2>1. cmd[p].was[k] \in Records /\ was \in [Keys -> Records] /\ pc \in Labels
      BY <1>c, RecordValues DEF Commands, Labels
    <2>2. [cmd[p].was[k] EXCEPT !.role = NoRole] \in Records
      BY <2>1, RecordValues
    <2>3. recs' \in [Keys -> Records]
      BY <1>5, <1>c, <2>2 DEF Rewrite
    <2> HIDE DEF was, pc
    <2>4. [cmd[p] EXCEPT !.todo = @ \ {k}, !.was = was, !.pc = pc] \in Commands
      BY <1>c, <2>1 DEF Commands
    <2>5. cmd' = [cmd EXCEPT ![p] = [cmd[p] EXCEPT !.todo = @ \ {k}, !.was = was, !.pc = pc]]
      BY <1>5 DEF Rewrite, was, pc
    <2> QED
      BY <2>3, <2>4, <2>5, Updated
  <1>6. CASE Prune(p)
    BY <1>6, <1>c, RecordValues, GoesOn DEF Prune, Labels
  <1> QED
    BY <1>1, <1>2, <1>3, <1>4, <1>5, <1>6 DEF ClaimStep

LEMMA TypeOther ==
  ASSUME TypeOK, NEW p \in Procs, OtherStep(p)
  PROVE  TypeOK'
  <1>c. /\ cmd[p] \in Commands /\ recs \in [Keys -> Records]
        /\ cmd[p].rec \in Records /\ cmd[p].key \in Keys /\ cmd[p].from \in Keys
    BY DEF TypeOK, Commands
  <1>s. SUFFICES recs' \in [Keys -> Records] /\ cmd' \in [Procs -> Commands]
    <2>1. UNCHANGED mutex /\ Files
      BY DEF OtherStep, ReleaseLoad, ReleaseWrite, AutoLook, AutoWrite, RekeyLoad, RekeyDump, RekeyUnlink, OnlyCmd
    <2> QED
      BY <2>1 DEF TypeOK, Files
  <1>l. ASSUME NEW x \in Labels, NEW k \in Keys, cmd' = [cmd EXCEPT ![p].pc = x, ![p].rec = recs[k]]
        PROVE  cmd' \in [Procs -> Commands]
    <2>1. [cmd[p] EXCEPT !.pc = x, !.rec = recs[k]] \in Commands
      BY <1>c DEF Commands
    <2>2. cmd' = [cmd EXCEPT ![p] = [cmd[p] EXCEPT !.pc = x, !.rec = recs[k]]]
      BY <1>l
    <2> QED
      BY <2>1, <2>2, Updated
  <1>1. CASE ReleaseLoad(p)
    BY <1>1, <1>c, <1>l, IsOver DEF ReleaseLoad, OnlyCmd, Labels
  <1>2. CASE ReleaseWrite(p)
    <2>1. [cmd[p].rec EXCEPT !.role = NoRole, !.old = FALSE] \in Records
      BY <1>c, RecordValues
    <2> QED
      BY <1>2, <1>c, <2>1, IsOver DEF ReleaseWrite
  <1>3. CASE AutoLook(p)
    BY <1>3, <1>c, IsOver, GoesOn DEF AutoLook, OnlyCmd, Labels
  <1>4. CASE AutoWrite(p)
    BY <1>4, <1>c, RecordValues, IsOver DEF AutoWrite
  <1>5. CASE RekeyLoad(p)
    BY <1>5, <1>c, <1>l, IsOver DEF RekeyLoad, OnlyCmd, Labels
  <1>6. CASE RekeyDump(p)
    <2>1. [cmd[p].rec EXCEPT !.old = FALSE] \in Records
      BY <1>c, RecordValues
    <2> QED
      BY <1>6, <1>c, <2>1, GoesOn DEF RekeyDump, Labels
  <1>7. CASE RekeyUnlink(p)
    BY <1>7, <1>c, RecordValues, IsOver DEF RekeyUnlink
  <1> QED
    BY <1>1, <1>2, <1>3, <1>4, <1>5, <1>6, <1>7 DEF OtherStep

LEMMA TypeStep == TypeOK /\ [Next]_vars => TypeOK'
  <1> SUFFICES ASSUME TypeOK, [Next]_vars PROVE TypeOK'
    OBVIOUS
  <1>1. ASSUME NEW p \in Procs, Step(p) PROVE TypeOK'
    BY <1>1, TypeRegister, TypeClaim, TypeOther DEF Step
  <1>2. ASSUME NEW p \in Procs, NEW r \in RoleNames \cup {NoRole}, Register(p, r) PROVE TypeOK'
    BY <1>2, TypeRegister
  <1>3. ASSUME NEW p \in Procs, Crash(p) PROVE TypeOK'
    BY <1>3, IsOver DEF Crash, OnlyCmd, Files, TypeOK
  <1>4. ASSUME NEW p \in Procs, NEW op \in Operations, NEW x \in Labels, Begin(p, op, x) PROVE TypeOK'
    <2>1. [Fresh(p) EXCEPT !.pc = x] \in Commands
      BY FreshValues DEF Commands
    <2>2. cmd' \in [Procs -> Commands]
      BY <1>4, <2>1, Updated DEF Begin
    <2> QED
      BY <1>4, <2>2 DEF Begin, OnlyCmd, Files, TypeOK
  <1>5. ASSUME NEW p \in Procs, NEW k \in Keys, Renew(p, k) PROVE TypeOK'
    <2>1. [NoCmd(p) EXCEPT !.pc = "keyLoad", !.key = k, !.from = key[On[p]]] \in Commands
      BY CommandValues, FreshValues DEF Commands, Labels
    <2>2. cmd' \in [Procs -> Commands]
      BY <1>5, <2>1, Updated DEF Renew
    <2> QED
      BY <1>5, <2>2 DEF Renew, TypeOK
  <1>6. ASSUME NEW a \in Agents, Close(a) PROVE TypeOK'
    BY <1>6 DEF Close, TypeOK
  <1>7. ASSUME NEW a \in Agents, NEW k \in Keys, Expose(a, k) PROVE TypeOK'
    BY <1>7 DEF Expose, TypeOK
  <1>8. ASSUME NEW k \in Keys, Age(k) PROVE TypeOK'
    <2>1. [recs[k] EXCEPT !.old = TRUE] \in Records
      BY RecordValues DEF TypeOK
    <2>2. recs' \in [Keys -> Records]
      BY <1>8, <2>1 DEF Age, TypeOK
    <2>3. mutex' \in {Free, [held |-> TRUE, stale |-> TRUE]}
      <3>1. mutex' = [mutex EXCEPT !.stale = mutex.held]
        BY <1>8 DEF Age
      <3>2. CASE mutex = Free
        BY <3>1, <3>2 DEF Free
      <3>3. CASE mutex = Taken
        BY <3>1, <3>3 DEF Taken
      <3>4. CASE mutex = [held |-> TRUE, stale |-> TRUE]
        BY <3>1, <3>4
      <3> QED
        BY <3>2, <3>3, <3>4 DEF TypeOK
    <2> QED
      BY <1>8, <2>2, <2>3 DEF Age, Files, TypeOK
  <1>9. CASE MutexAges
    BY <1>9 DEF MutexAges, Files, TypeOK, Free, Taken
  <1>10. CASE UNCHANGED vars
    BY <1>10 DEF vars, TypeOK
  <1> QED
    BY <1>1, <1>2, <1>3, <1>4, <1>5, <1>6, <1>7, <1>8, <1>9, <1>10 DEF Next, Operations, Labels

\* The shapes of the record files, the mutex and the commands, for every discipline.
THEOREM TypesHold == Spec => []TypeOK
  BY TypeInit, TypeStep, PTL DEF Spec

(***************************************************************************)
(* The mutex: one registration is inside, on a fresh mutex, nobody re-keys *)
(* meanwhile, and who is about to break the mutex is alone and found it    *)
(* stale.                                                                  *)
(***************************************************************************)
MutexInv ==
  /\ \A p, q \in Procs : cmd[p].pc \in Inside /\ cmd[q].pc \in Inside => p = q
  /\ \A p \in Procs : cmd[p].pc \in Inside => mutex = Taken
  /\ \A p, q \in Procs : cmd[p].pc = "break" /\ cmd[q].pc = "break" => p = q
  /\ \A p \in Procs : cmd[p].pc = "break" => mutex.held /\ mutex.stale
  /\ \A p, q \in Procs : cmd[p].pc \in Rekeys => cmd[q].pc \notin Inside

\* A command that stays where it is as far as the mutex goes, or leaves.
LEMMA StaysInOrLeaves ==
  ASSUME MutexInv, UNCHANGED mutex, NEW p \in Procs,
         \A q \in Procs \ {p} : cmd'[q].pc = cmd[q].pc,
         cmd'[p].pc \in Inside => cmd[p].pc \in Inside,
         cmd'[p].pc \in Rekeys => cmd[p].pc \in Rekeys,
         cmd'[p].pc # "break"
  PROVE  MutexInv'
  BY DEF MutexInv

LEMMA MutexInit == Init => MutexInv
  BY DEF Init, MutexInv, NoCmd, Inside, Rekeys

LEMMA MutexStepKept ==
  ASSUME TypeOK, Disciplined, MutexInv, NEW p \in Procs, MutexStep(p)
  PROVE  MutexInv'
  <1>c. cmd \in [Procs -> Commands] /\ (\A q \in Procs : NoCmd(q).pc = "idle")
    BY DEF TypeOK, NoCmd
  <1>o. \A q \in Procs \ {p} : cmd'[q] = cmd[q]
    BY <1>c DEF MutexStep, MutexOpen, MutexStat, MutexBreak, MutexUnlock, Goes, Ends, Retry
  <1>r. Retry(p) => cmd'[p].pc \in {"mutex", "idle"}
    BY <1>c DEF Retry, Ends, Commands
  <1> USE DEF Inside, Rekeys
  <1>1. CASE MutexOpen(p)
    <2>1. CASE mutex.held
      <3>1. cmd'[p].pc = "stat" /\ UNCHANGED mutex
        BY <1>1, <1>c, <2>1 DEF MutexOpen, Goes, Commands
      <3> QED
        BY <1>o, <3>1, StaysInOrLeaves
    <2>2. CASE ~mutex.held
      <3>1. \A q \in Procs : cmd[q].pc \notin Inside /\ cmd[q].pc \notin Rekeys /\ cmd[q].pc # "break"
        BY <1>1, <2>2 DEF MutexOpen, Clear, Disciplined, MutexInv, Taken
      <3>2. cmd'[p].pc = "load" /\ mutex' = Taken
        BY <1>1, <1>c, <2>2 DEF MutexOpen, Commands
      <3> QED
        BY <1>o, <3>1, <3>2 DEF MutexInv
    <2> QED
      BY <2>1, <2>2
  <1>2. CASE MutexStat(p)
    <2>1. CASE Goes(p, "break") /\ mutex.held /\ mutex.stale
      <3>1. cmd'[p].pc = "break" /\ UNCHANGED mutex
        BY <1>2, <1>c, <2>1 DEF MutexStat, Goes, Commands, OnlyCmd
      <3>2. \A q \in Procs : cmd[q].pc \notin Inside
        BY <2>1 DEF MutexInv, Taken
      <3>3. \A q \in Procs : cmd[q].pc # "break"
        <4>1. cmd[p].pc = "stat"
          BY <1>2 DEF MutexStat
        <4>2. ~Goes(p, "break") \/ \A q \in Procs : cmd[q].pc # "break"
          BY <1>2, <2>1 DEF MutexStat, Disciplined
        <4> QED
          BY <2>1, <4>2
      <3> QED
        BY <1>o, <2>1, <3>1, <3>2, <3>3 DEF MutexInv
    <2>2. CASE Retry(p) \/ Ends(p)
      <3>1. cmd'[p].pc \in {"mutex", "idle"} /\ UNCHANGED mutex
        BY <1>2, <1>c, <1>r, <2>2 DEF MutexStat, Ends, OnlyCmd
      <3> QED
        BY <1>o, <3>1, StaysInOrLeaves
    <2> QED
      BY <1>2, <2>1, <2>2 DEF MutexStat
  <1>3. CASE MutexBreak(p)
    <2>1. \A q \in Procs : cmd[q].pc \notin Inside /\ (cmd[q].pc = "break" => q = p)
      BY <1>3 DEF MutexBreak, MutexInv, Taken
    <2>2. cmd'[p].pc \in {"mutex", "idle"}
      BY <1>3, <1>r DEF MutexBreak
    <2> QED
      BY <1>o, <2>1, <2>2 DEF MutexInv
  <1>4. CASE MutexUnlock(p)
    <2>1. \A q \in Procs : cmd[q].pc # "break" /\ (cmd[q].pc \in Inside => q = p)
      BY <1>4 DEF MutexUnlock, MutexInv, Taken
    <2>2. cmd'[p].pc = "idle"
      BY <1>4, <1>c DEF MutexUnlock, Ends
    <2> QED
      BY <1>o, <2>1, <2>2 DEF MutexInv
  <1> QED
    BY <1>1, <1>2, <1>3, <1>4 DEF MutexStep

LEMMA MutexKept == Disciplined /\ TypeOK /\ MutexInv /\ [Next]_vars => MutexInv'
  <1> SUFFICES ASSUME Disciplined, TypeOK, MutexInv, [Next]_vars PROVE MutexInv'
    OBVIOUS
  <1>c. cmd \in [Procs -> Commands] /\ (\A q \in Procs : NoCmd(q).pc = "idle" /\ Fresh(q).pc = "idle")
    BY DEF TypeOK, NoCmd, Fresh
  <1> USE DEF Inside, Rekeys, OnlyCmd, Goes, Ends
  <1>1. ASSUME NEW p \in Procs, MutexStep(p) PROVE MutexInv'
    BY <1>1, MutexStepKept
  <1>2. ASSUME NEW p \in Procs, ClaimStep(p) PROVE MutexInv'
    <2>1. /\ UNCHANGED mutex /\ \A q \in Procs \ {p} : cmd'[q] = cmd[q]
          /\ cmd[p].pc \in Inside /\ cmd'[p].pc \in Inside
      <3>1. ASSUME NEW k \in Keys, Rewrite(p, k)
            PROVE  /\ UNCHANGED mutex /\ \A q \in Procs \ {p} : cmd'[q] = cmd[q]
                   /\ cmd[p].pc = "rewrite" /\ cmd'[p].pc \in {"rewrite", "prune"}
        BY <1>c, <3>1 DEF Rewrite, Commands
      <3>2. CASE Load(p)
        BY <1>c, <3>2 DEF Load, Commands
      <3>3. CASE Write(p)
        BY <1>c, <3>3 DEF Write, Commands
      <3>4. CASE Sweep(p)
        BY <1>c, <3>4 DEF Sweep, Commands
      <3>5. CASE Revoke(p)
        BY <1>c, <3>5 DEF Revoke, Commands
      <3>6. CASE Prune(p)
        BY <1>c, <3>6 DEF Prune, Commands
      <3> QED
        BY <1>2, <3>1, <3>2, <3>3, <3>4, <3>5, <3>6 DEF ClaimStep
    <2> QED
      BY <2>1, StaysInOrLeaves
  <1>3. ASSUME NEW p \in Procs, OtherStep(p) PROVE MutexInv'
    <2>1. UNCHANGED mutex /\ \A q \in Procs \ {p} : cmd'[q] = cmd[q]
      BY <1>3, <1>c DEF OtherStep, ReleaseLoad, ReleaseWrite, AutoLook, AutoWrite, RekeyLoad, RekeyDump, RekeyUnlink
    <2>2. CASE RekeyLoad(p)
      <3>1. \A q \in Procs : cmd[q].pc \notin Inside
        BY <2>2 DEF RekeyLoad, Disciplined
      <3>2. cmd'[p].pc \in {"keyDump", "idle"}
        BY <2>2, <1>c DEF RekeyLoad, Commands
      <3> QED
        BY <2>1, <3>1, <3>2 DEF MutexInv
    <2>3. CASE ~RekeyLoad(p)
      <3>1. cmd'[p].pc \notin Inside /\ cmd'[p].pc # "break" /\ (cmd'[p].pc \in Rekeys => cmd[p].pc \in Rekeys)
        BY <1>3, <1>c, <2>3 DEF OtherStep, ReleaseLoad, ReleaseWrite, AutoLook, AutoWrite, RekeyDump, RekeyUnlink, Commands
      <3> QED
        BY <2>1, <3>1, StaysInOrLeaves
    <2> QED
      BY <2>2, <2>3
  <1>4. ASSUME NEW p \in Procs,
               \/ Crash(p) \/ Begin(p, "release", "relLoad") \/ Begin(p, "auto", "autoLook")
               \/ \E r \in RoleNames \cup {NoRole} : Register(p, r)
               \/ \E k \in Keys : Renew(p, k)
        PROVE  MutexInv'
    <2>1. /\ UNCHANGED mutex /\ \A q \in Procs \ {p} : cmd'[q] = cmd[q]
          /\ cmd'[p].pc \in {"idle", "relLoad", "autoLook", "mutex", "keyLoad"}
      <3>1. NoCmd(p) \in Commands /\ Fresh(p) \in Commands
        BY CommandValues, FreshValues
      <3>2. CASE Crash(p)
        BY <1>c, <3>2 DEF Crash
      <3>3. CASE Begin(p, "release", "relLoad") \/ Begin(p, "auto", "autoLook")
        BY <1>c, <3>1, <3>3 DEF Begin, Commands
      <3>4. ASSUME NEW r \in RoleNames \cup {NoRole}, Register(p, r)
            PROVE  /\ UNCHANGED mutex /\ cmd'[p].pc = "mutex"
                   /\ \A q \in Procs \ {p} : cmd'[q] = cmd[q]
        BY <1>c, <3>1, <3>4 DEF Register, Commands
      <3>5. ASSUME NEW k \in Keys, Renew(p, k)
            PROVE  /\ UNCHANGED mutex /\ cmd'[p].pc = "keyLoad"
                   /\ \A q \in Procs \ {p} : cmd'[q] = cmd[q]
        BY <1>c, <3>1, <3>5 DEF Renew, Commands
      <3> QED
        BY <1>4, <3>2, <3>3, <3>4, <3>5
    <2> QED
      BY <2>1, StaysInOrLeaves
  <1>5. CASE MutexAges
    <2>1. \A q \in Procs : cmd[q].pc \notin Inside /\ cmd[q].pc # "break"
      BY <1>5 DEF MutexAges, Disciplined, MutexInv
    <2> QED
      BY <1>5, <2>1 DEF MutexAges, MutexInv
  <1>6. ASSUME NEW k \in Keys, Age(k) PROVE MutexInv'
    BY <1>6 DEF Age, MutexInv
  <1>7. CASE UNCHANGED <<mutex, cmd>>
    BY <1>7 DEF MutexInv
  <1> QED
    BY <1>1, <1>2, <1>3, <1>4, <1>5, <1>6, <1>7 DEF Next, Step, Close, Expose, vars

(***************************************************************************)
(* Identities: no two agents share one, a command works under its agent's, *)
(* and what is re-keyed is under an identity nobody answers to any more.   *)
(***************************************************************************)
Registering == {"mutex", "stat", "break"} \cup Inside
Renewing == {"keyLoad"} \cup Rekeys

IdentityInv ==
  /\ \A a, b \in Agents : key[a] = key[b] => a = b
  /\ \A a \in Agents : key[a] \in used
  /\ \A p \in Procs : cmd[p].pc # "idle" => cmd[p].key = key[On[p]]
  /\ \A p \in Procs : cmd[p].pc \in Registering => cmd[p].key \in cmd[p].live
  /\ \A p \in Procs : cmd[p].pc \in Renewing => cmd[p].from \in used /\ \A a \in Agents : cmd[p].from # key[a]
  /\ \A p, q \in Procs :
       cmd[p].pc \in Renewing /\ cmd[q].pc \in Renewing /\ cmd[p].from = cmd[q].from => p = q

\* The command under way keeps whom it is about.
SameCommand(p) ==
  /\ cmd[p].pc # "idle"
  /\ cmd'[p].key = cmd[p].key /\ cmd'[p].live = cmd[p].live /\ cmd'[p].from = cmd[p].from
  /\ cmd'[p].pc \in Registering => cmd[p].pc \in Registering
  /\ cmd'[p].pc \in Renewing => cmd[p].pc \in Renewing

LEMMA StepGoesOn ==
  ASSUME TypeOK, NEW p \in Procs, Step(p)
  PROVE  /\ Files /\ \A q \in Procs \ {p} : cmd'[q] = cmd[q]
         /\ cmd'[p].pc = "idle" \/ SameCommand(p)
  <1>c. cmd \in [Procs -> Commands] /\ NoCmd(p).pc = "idle"
    BY DEF TypeOK, NoCmd
  <1> USE <1>c DEF SameCommand, Registering, Renewing, Inside, Rekeys, Goes, Ends, OnlyCmd, Commands
  <1>1. CASE MutexOpen(p)
    BY <1>1 DEF MutexOpen
  <1>2. CASE MutexStat(p)
    BY <1>2 DEF MutexStat, Retry
  <1>3. CASE MutexBreak(p)
    BY <1>3 DEF MutexBreak, Retry
  <1>4. CASE MutexUnlock(p)
    BY <1>4 DEF MutexUnlock
  <1>5. CASE Load(p)
    BY <1>5 DEF Load
  <1>6. CASE Write(p)
    BY <1>6 DEF Write
  <1>7. CASE Sweep(p)
    BY <1>7 DEF Sweep
  <1>8. CASE Revoke(p)
    BY <1>8 DEF Revoke
  <1>9. CASE \E k \in Keys : Rewrite(p, k)
    BY <1>9 DEF Rewrite
  <1>10. CASE Prune(p)
    BY <1>10 DEF Prune
  <1>11. CASE ReleaseLoad(p)
    BY <1>11 DEF ReleaseLoad
  <1>12. CASE ReleaseWrite(p)
    BY <1>12 DEF ReleaseWrite
  <1>13. CASE AutoLook(p)
    BY <1>13 DEF AutoLook
  <1>14. CASE AutoWrite(p)
    BY <1>14 DEF AutoWrite
  <1>15. CASE RekeyLoad(p)
    BY <1>15 DEF RekeyLoad
  <1>16. CASE RekeyDump(p)
    BY <1>16 DEF RekeyDump
  <1>17. CASE RekeyUnlink(p)
    BY <1>17 DEF RekeyUnlink
  <1> QED
    BY <1>1, <1>2, <1>3, <1>4, <1>5, <1>6, <1>7, <1>8, <1>9, <1>10, <1>11, <1>12, <1>13, <1>14,
       <1>15, <1>16, <1>17 DEF Step, MutexStep, ClaimStep, OtherStep

LEMMA IdentityInit == Init => IdentityInv
  <1> SUFFICES ASSUME Init PROVE IdentityInv
    OBVIOUS
  <1>1. \A p \in Procs : cmd[p].pc = "idle"
    BY DEF Init, NoCmd
  <1> QED
    BY <1>1, RegistryAssumption DEF Init, IdentityInv, Registering, Renewing, Inside, Rekeys

LEMMA IdentityKept == TypeOK /\ IdentityInv /\ [Next]_vars => IdentityInv'
  <1> SUFFICES ASSUME TypeOK, IdentityInv, [Next]_vars PROVE IdentityInv'
    OBVIOUS
  <1>c. cmd \in [Procs -> Commands] /\ (\A q \in Procs : NoCmd(q).pc = "idle")
    BY DEF TypeOK, NoCmd
  <1>k. key \in [Agents -> Keys] /\ On \in [Procs -> Agents]
    BY RegistryAssumption DEF TypeOK
  <1> USE DEF Registering, Renewing, Inside, Rekeys
  <1>1. ASSUME NEW p \in Procs, Step(p) PROVE IdentityInv'
    BY <1>1, StepGoesOn DEF IdentityInv, SameCommand, Files
  <1>2. ASSUME NEW p \in Procs, Crash(p) PROVE IdentityInv'
    BY <1>2, <1>c DEF Crash, Ends, OnlyCmd, Files, IdentityInv
  <1>3. ASSUME NEW p \in Procs, Begin(p, "release", "relLoad") \/ Begin(p, "auto", "autoLook")
        PROVE  IdentityInv'
    <2>1. Fresh(p) \in Commands /\ Fresh(p).key = key[On[p]]
      BY FreshValues, CommandValues, <1>k DEF Fresh, Commands
    <2>2. /\ Files /\ \A q \in Procs \ {p} : cmd'[q] = cmd[q]
          /\ cmd'[p].pc \in {"relLoad", "autoLook"} /\ cmd'[p].key = key[On[p]]
      BY <1>3, <1>c, <2>1 DEF Begin, OnlyCmd, Commands
    <2> QED
      BY <2>2 DEF IdentityInv, Files
  <1>4. ASSUME NEW p \in Procs, NEW r \in RoleNames \cup {NoRole}, Register(p, r) PROVE IdentityInv'
    <2>1. Fresh(p) \in Commands /\ Fresh(p).key = key[On[p]]
      BY FreshValues, CommandValues, <1>k DEF Fresh, Commands
    <2>2. key[On[p]] \in LiveKeys
      BY <1>4, <1>k DEF Register, LiveKeys, Answers
    <2>3. /\ Files /\ \A q \in Procs \ {p} : cmd'[q] = cmd[q]
          /\ cmd'[p].pc = "mutex" /\ cmd'[p].key = key[On[p]] /\ cmd'[p].live = LiveKeys
      BY <1>4, <1>c, <2>1 DEF Register, OnlyCmd, Commands
    <2> QED
      BY <2>2, <2>3 DEF IdentityInv, Files
  <1>5. ASSUME NEW p \in Procs, NEW k \in Keys, Renew(p, k) PROVE IdentityInv'
    <2>1. NoCmd(p) \in Commands
      BY CommandValues
    <2>2. /\ cmd'[p].pc = "keyLoad" /\ cmd'[p].key = k /\ cmd'[p].from = key[On[p]]
          /\ \A q \in Procs \ {p} : cmd'[q] = cmd[q] /\ (cmd[q].pc # "idle" => On[q] # On[p])
      BY <1>5, <1>c, <2>1 DEF Renew, Commands, Idle
    <2>3. /\ key'[On[p]] = k /\ \A a \in Agents \ {On[p]} : key'[a] = key[a]
          /\ k \notin used /\ used' = used \cup {k}
      BY <1>5, <1>k DEF Renew
    <2>4. \A a, b \in Agents : key'[a] = key'[b] => a = b
      BY <2>3 DEF IdentityInv
    <2>5. \A q \in Procs : cmd'[q].pc # "idle" => cmd'[q].key = key'[On[q]]
      BY <1>k, <2>2, <2>3 DEF IdentityInv
    <2>6. \A q \in Procs : cmd'[q].pc \in Renewing =>
            cmd'[q].from \in used' /\ \A a \in Agents : cmd'[q].from # key'[a]
      BY <1>k, <2>2, <2>3 DEF IdentityInv
    <2>7. \A q \in Procs \ {p} : cmd[q].pc \in Renewing => cmd[q].from # cmd'[p].from
      BY <1>k, <2>2 DEF IdentityInv
    <2> QED
      BY <1>k, <2>2, <2>3, <2>4, <2>5, <2>6, <2>7 DEF IdentityInv
  <1>6. ASSUME NEW a \in Agents, NEW k \in Keys, Expose(a, k) PROVE IdentityInv'
    <2>1. /\ key'[a] = k /\ (\A b \in Agents \ {a} : key'[b] = key[b])
          /\ k \notin used /\ used' = used \cup {k} /\ UNCHANGED cmd
          /\ \A q \in Procs : cmd[q].pc # "idle" => On[q] # a
      BY <1>6, <1>k DEF Expose, Idle
    <2> QED
      BY <1>k, <2>1 DEF IdentityInv
  <1>7. CASE UNCHANGED <<cmd, key, used>>
    BY <1>7 DEF IdentityInv
  <1> QED
    BY <1>1, <1>2, <1>3, <1>4, <1>5, <1>6, <1>7 DEF Next, Close, Age, MutexAges, Files, vars

(***************************************************************************)
(* Roles                                                                   *)
(***************************************************************************)
Superseding == {"sweep", "revoke", "rewrite", "keyUnlink"}
Claimed == {"sweep", "revoke", "rewrite", "prune", "unlock"}

\* What is not there has no role.
Sane(c) == c.role # NoRole => c.there

\* A registration that writes the others back knows each one that still has its role.
KnowsOthers(p) ==
  /\ cmd[p].key \notin cmd[p].todo
  /\ \A k \in Keys \ {cmd[p].key} : recs[k].role = Want(p) => k \in cmd[p].todo

RolesInv ==
  /\ \A k \in Keys : Sane(recs[k])
  /\ \A p \in Procs : Sane(cmd[p].rec)
  /\ \A p \in Procs : cmd[p].pc \in {"revoke", "rewrite"} => Want(p) # NoRole
  /\ \A p \in Procs : cmd[p].pc = "rewrite" => KnowsOthers(p)
  /\ \A p \in Procs : cmd[p].pc = "keyDump" => cmd[p].rec.role = recs[cmd[p].from].role
  /\ \A p \in Procs : Sole(p) /\ cmd[p].pc \in Claimed => recs[cmd[p].key].role = Want(p)
  /\ RoleExclusive

Inv == TypeOK /\ MutexInv /\ IdentityInv /\ RolesInv

\* The role that the abstract book has for k.
Role(k) == IF Superseded(k) THEN NoRole ELSE recs[k].role

LEMMA BookSteps ==
  /\ \A D \in SUBSET Keys :
       (\A k \in Keys : Role(k)' = IF k \in D THEN NoRole ELSE Role(k)) => Book!Next
  /\ \A j, k \in Keys :
       /\ j # k /\ Role(k)' = Role(j) /\ Role(j)' = NoRole
       /\ \A i \in Keys \ {j, k} : Role(i)' = Role(i)
       => Book!Next
  /\ \A k \in Keys, r \in RoleNames :
       /\ Role(k)' = r
       /\ \A j \in Keys \ {k} : Role(j)' = IF Role(j) = r THEN NoRole ELSE Role(j)
       => Book!Next
  <1>1. ASSUME NEW D \in SUBSET Keys, \A k \in Keys : Role(k)' = IF k \in D THEN NoRole ELSE Role(k)
        PROVE  Book!Next
    <2>1. Book!Drop(D)
      BY <1>1 DEF Book!Drop, Role
    <2> QED
      BY <2>1 DEF Book!Next
  <1>2. ASSUME NEW j \in Keys, NEW k \in Keys, j # k, Role(k)' = Role(j), Role(j)' = NoRole,
               \A i \in Keys \ {j, k} : Role(i)' = Role(i)
        PROVE  Book!Next
    <2>1. Book!Inherit(j, k)
      BY <1>2 DEF Book!Inherit, Role
    <2> QED
      BY <1>2, <2>1 DEF Book!Next
  <1>3. ASSUME NEW k \in Keys, NEW r \in RoleNames, Role(k)' = r,
               \A j \in Keys \ {k} : Role(j)' = IF Role(j) = r THEN NoRole ELSE Role(j)
        PROVE  Book!Next
    <2>1. Book!Claim(k, r)
      BY <1>3 DEF Book!Claim, Role
    <2> QED
      BY <1>3, <2>1 DEF Book!Next
  <1> QED
    BY <1>1, <1>2, <1>3

\* What a step does to the role book, and that it keeps the invariant.
Good == RolesInv' /\ Book!Next

\* The records in D lose their roles, if they had one; a command that has no record on its
\* way out moves.
LEMMA DropsAt ==
  ASSUME Inv, NEW p \in Procs, NEW D \in SUBSET Keys,
         \A k \in Keys : recs'[k].role = (IF k \in D THEN NoRole ELSE recs[k].role) /\ Sane(recs'[k]),
         \A q \in Procs \ {p} : /\ cmd'[q] = cmd[q]
                                /\ cmd[q].pc = "keyDump" => cmd[q].from \notin D
                                /\ Sole(q) /\ cmd[q].pc \in Claimed => cmd[q].key \notin D,
         cmd[p].pc \notin Superseding, cmd'[p].pc \notin Superseding \cup {"keyDump"},
         cmd'[p].pc \in Claimed => /\ cmd[p].pc \in Claimed /\ cmd[p].key \notin D
                                   /\ cmd'[p].key = cmd[p].key /\ cmd'[p].rec = cmd[p].rec,
         Sane(cmd'[p].rec)
  PROVE  Good
  <1> USE DEF Inv, RolesInv, Superseding, Want
  <1>k. \A q \in Procs : cmd[q].key \in Keys /\ cmd[q].from \in Keys
    BY DEF TypeOK, Commands
  <1>1. \A k \in Keys : k \notin D => (Superseded(k)' <=> Superseded(k))
    BY DEF Superseded
  <1>2. \A k \in Keys : Role(k)' = IF k \in D THEN NoRole ELSE Role(k)
    BY <1>1 DEF Role
  <1>3. RoleExclusive'
    <2>1. \A r \in RoleNames, k \in Keys : Holds(k, r)' => Holds(k, r)
      BY <1>1, RegistryAssumption DEF Holds
    <2> QED
      BY <2>1 DEF RoleExclusive
  <1>4. \A q \in Procs : cmd'[q].pc = "rewrite" => KnowsOthers(q)'
    <2> SUFFICES ASSUME NEW q \in Procs, cmd'[q].pc = "rewrite" PROVE KnowsOthers(q)'
      OBVIOUS
    <2>1. q # p /\ cmd'[q] = cmd[q] /\ KnowsOthers(q) /\ Want(q) # NoRole
      OBVIOUS
    <2> QED
      BY <2>1 DEF KnowsOthers
  <1>5. \A q \in Procs : cmd'[q].pc = "keyDump" => cmd'[q].rec.role = recs'[cmd'[q].from].role
    BY <1>k
  <1>6. \A q \in Procs : Sole(q) /\ cmd'[q].pc \in Claimed => recs'[cmd'[q].key].role = cmd'[q].rec.role
    BY <1>k
  <1>7. \A q \in Procs : Sane(cmd'[q].rec) /\ (cmd'[q].pc \in {"revoke", "rewrite"} => cmd'[q].rec.role # NoRole)
    OBVIOUS
  <1>8. RolesInv'
    BY <1>3, <1>4, <1>5, <1>6, <1>7 DEF Sole
  <1> QED
    BY <1>2, <1>8, BookSteps DEF Good

\* While a registration is inside, no other record is on its way out but by its doing.
LEMMA InsideAlone ==
  ASSUME Inv, NEW p \in Procs, cmd[p].pc \in Inside
  PROVE  \A q \in Procs : /\ q # p => cmd[q].pc \notin Inside
                          /\ cmd[q].pc \notin Rekeys
  BY DEF Inv, MutexInv

LEMMA StepTypes ==
  ASSUME Inv, NEW p \in Procs
  PROVE  /\ cmd \in [Procs -> Commands] /\ recs \in [Keys -> Records]
         /\ cmd[p].key \in Keys /\ cmd[p].from \in Keys /\ cmd[p].todo \subseteq Keys
         /\ cmd[p].rec \in Records /\ cmd[p].rec.role \in RoleNames \cup {NoRole}
         /\ cmd[p].pc \in Labels /\ NoRole \notin RoleNames
         /\ NoCmd(p).pc = "idle" /\ NoCmd(p).rec = NoRec /\ Sane(NoRec)
         /\ \A k \in Keys : recs[k].role \in RoleNames \cup {NoRole}
  <1>1. cmd[p] \in Commands /\ cmd[p].rec \in Records /\ \A k \in Keys : recs[k] \in Records
    BY DEF Inv, TypeOK, Commands
  <1>2. Sane(NoRec)
    BY DEF Sane, NoRec
  <1> QED
    BY <1>1, <1>2, RecordValues, RegistryAssumption DEF Inv, TypeOK, Commands, NoCmd

LEMMA WriteGood == ASSUME Inv, NEW p \in Procs, Write(p) PROVE Good
  <1>t. cmd \in [Procs -> Commands] /\ recs \in [Keys -> Records] /\ cmd[p].key \in Keys
    BY StepTypes
  <1>a. \A q \in Procs : cmd[q].pc \notin Superseding /\ cmd[q].pc # "keyDump" /\ (q # p => cmd[q].pc \notin Claimed)
    <2>1. cmd[p].pc = "write"
      BY DEF Write
    <2> QED
      BY <2>1, InsideAlone DEF Superseding, Claimed, Inside, Rekeys
  <1>r. \A k \in Keys : recs'[k] = IF k = cmd[p].key THEN cmd[p].rec ELSE recs[k]
    BY <1>t DEF Write
  <1>c. /\ cmd'[p].pc = "sweep" /\ cmd'[p].key = cmd[p].key /\ cmd'[p].rec = cmd[p].rec
        /\ \A q \in Procs \ {p} : cmd'[q] = cmd[q]
    BY <1>t DEF Write, Goes, Commands
  <1>b. \A k \in Keys : ~Superseded(k)
    BY <1>a DEF Superseded, Superseding
  <1>s. \A k \in Keys : Superseded(k)' <=> k # cmd[p].key /\ recs[k].role = Want(p)
    BY <1>a, <1>c, <1>r DEF Superseded, Superseding, Want
  <1>1. RoleExclusive'
    <2>1. \A r \in RoleNames, k \in Keys : Holds(k, r) <=> recs[k].role = r
      BY <1>b DEF Holds
    <2>2. \A r \in RoleNames, k \in Keys : Holds(k, r)' =>
            IF k = cmd[p].key THEN r = Want(p) ELSE recs[k].role = r /\ r # Want(p)
      BY <1>r, <1>s DEF Holds, Want
    <2> QED
      BY <2>1, <2>2 DEF RoleExclusive, Inv, RolesInv
  <1>2. RolesInv'
    <2>1. \A k \in Keys : Sane(recs'[k])
      BY <1>r DEF Inv, RolesInv
    <2>2. \A q \in Procs : Sane(cmd'[q].rec)
      BY <1>c DEF Inv, RolesInv
    <2>3. \A q \in Procs : cmd'[q].pc \notin {"revoke", "rewrite", "keyDump"} /\ (cmd'[q].pc \in Claimed => q = p)
      BY <1>a, <1>c DEF Superseding
    <2>4. recs'[cmd'[p].key].role = Want(p)'
      BY <1>c, <1>r, <1>t DEF Want
    <2> QED
      BY <1>1, <2>1, <2>2, <2>3, <2>4 DEF RolesInv
  <1>3. Book!Next
    <2>1. \A k \in Keys : Role(k) = recs[k].role
      BY <1>b DEF Role
    <2>2. \A k \in Keys : Role(k)' = IF k = cmd[p].key THEN Want(p)
                                     ELSE IF recs[k].role = Want(p) THEN NoRole ELSE recs[k].role
      BY <1>r, <1>s DEF Role, Want
    <2>3. CASE Want(p) \in RoleNames
      BY <1>t, <2>1, <2>2, <2>3, BookSteps
    <2>4. CASE Want(p) = NoRole
      <3>1. {cmd[p].key} \in SUBSET Keys
        BY <1>t
      <3>2. \A k \in Keys : Role(k)' = IF k \in {cmd[p].key} THEN NoRole ELSE Role(k)
        BY <2>1, <2>2, <2>4
      <3> QED
        BY <3>1, <3>2, BookSteps
    <2> QED
      BY <2>3, <2>4, StepTypes DEF Want
  <1> QED
    BY <1>2, <1>3 DEF Good

\* A registration that is through with the write takes roles away from others.
LEMMA TakesAway ==
  ASSUME Inv, NEW p \in Procs, cmd[p].pc \in {"sweep", "revoke", "rewrite"}, NEW D \in SUBSET Keys,
         \A k \in Keys : recs'[k].role = (IF k \in D THEN NoRole ELSE recs[k].role) /\ Sane(recs'[k]),
         cmd[p].key \notin D,
         \A q \in Procs \ {p} : cmd'[q] = cmd[q],
         cmd'[p].key = cmd[p].key, cmd'[p].rec = cmd[p].rec,
         \/ cmd'[p].pc = "prune" /\ \A k \in Keys \ {cmd[p].key} :
              recs'[k].role = Want(p) => Want(p) = NoRole
         \/ cmd'[p].pc = "revoke" /\ Want(p) # NoRole
         \/ cmd'[p].pc = "rewrite" /\ Want(p) # NoRole /\ KnowsOthers(p)'
  PROVE  Good
  <1> USE DEF Inv, RolesInv, Superseding, Want
  <1>t. cmd[p].key \in Keys
    BY StepTypes
  <1>a. \A q \in Procs \ {p} : cmd[q].pc \notin Superseding \cup {"keyDump"} \cup Claimed
    BY InsideAlone DEF Inside, Rekeys, Claimed
  <1>s. \A k \in Keys : Superseded(k) <=> k # cmd[p].key /\ recs[k].role = Want(p)
    BY <1>a DEF Superseded
  <1>n. \A k \in Keys : recs'[k].role # NoRole =>
          (Superseded(k)' <=> Superseded(k))
    BY <1>a, <1>s DEF Superseded
  <1>1. \A k \in Keys : Role(k)' = IF k \in D THEN NoRole ELSE Role(k)
    BY <1>n, <1>s DEF Role
  <1>2. RoleExclusive'
    <2>1. \A r \in RoleNames, k \in Keys : Holds(k, r)' => Holds(k, r)
      BY <1>n, StepTypes DEF Holds
    <2> QED
      BY <2>1 DEF RoleExclusive
  <1>3. RolesInv'
    <2>1. \A q \in Procs \ {p} : cmd'[q].pc \notin {"revoke", "rewrite", "keyDump"} \cup Claimed
      BY <1>a
    <2>2. recs'[cmd'[p].key].role = recs[cmd[p].key].role
      BY <1>t
    <2>3. \A q \in Procs : Sole(q) /\ cmd'[q].pc \in Claimed => recs'[cmd'[q].key].role = cmd'[q].rec.role
      BY <2>1, <2>2 DEF Claimed
    <2> QED
      BY <1>2, <2>1, <2>3 DEF Sole
  <1> QED
    BY <1>1, <1>3, BookSteps DEF Good

LEMMA ClaimGood == ASSUME Inv, NEW p \in Procs, ClaimStep(p) PROVE Good
  <1>t. /\ cmd \in [Procs -> Commands] /\ recs \in [Keys -> Records]
        /\ cmd[p].key \in Keys /\ cmd[p].todo \subseteq Keys
        /\ NoRole \notin RoleNames /\ \A k \in Keys : Sane(recs[k])
    BY StepTypes DEF Inv, RolesInv
  <1>e. Sane(NoRec) /\ NoRec.role = NoRole
    BY DEF Sane, NoRec
  <1>1. CASE Load(p)
    <2>1. /\ UNCHANGED recs /\ \A q \in Procs \ {p} : cmd'[q] = cmd[q]
          /\ cmd[p].pc = "load" /\ cmd'[p].pc = "write" /\ cmd'[p].rec.there
      BY <1>1, <1>t DEF Load, OnlyCmd, Commands, Rec
    <2>2. {} \in SUBSET Keys
      OBVIOUS
    <2> QED
      BY <1>t, <2>1, <2>2, DropsAt DEF Superseding, Claimed, Sane
  <1>2. CASE Write(p)
    BY <1>2, WriteGood
  <1>3. CASE Sweep(p)
    <2> DEFINE D == {k \in Keys : k # cmd[p].key /\ k \in Answers(On[p])}
    <2>1. /\ \A q \in Procs \ {p} : cmd'[q] = cmd[q]
          /\ cmd[p].pc = "sweep" /\ cmd'[p].key = cmd[p].key /\ cmd'[p].rec = cmd[p].rec
          /\ cmd'[p].pc = IF Want(p) = NoRole THEN "prune" ELSE "revoke"
      BY <1>3, <1>t DEF Sweep, Goes, Commands
    <2>2. \A k \in Keys : recs'[k] = IF k \in D THEN NoRec ELSE recs[k]
      BY <1>3, <1>t DEF Sweep
    <2> HIDE DEF D
    <2>3. D \in SUBSET Keys /\ cmd[p].key \notin D
      BY DEF D
    <2> QED
      BY <1>t, <1>e, <2>1, <2>2, <2>3, TakesAway
  <1>4. CASE Revoke(p)
    <2>1. /\ UNCHANGED recs /\ \A q \in Procs \ {p} : cmd'[q] = cmd[q]
          /\ cmd[p].pc = "revoke" /\ cmd'[p].key = cmd[p].key /\ cmd'[p].rec = cmd[p].rec
          /\ cmd'[p].pc = IF Others(p) = {} THEN "prune" ELSE "rewrite"
          /\ cmd'[p].todo = Others(p)
      BY <1>4, <1>t DEF Revoke, OnlyCmd, Commands
    <2>2. Want(p) # NoRole /\ \A k \in Keys \ {cmd[p].key} : recs[k].role = Want(p) => k \in Others(p)
      BY <1>t, <2>1 DEF Others, Sane, Inv, RolesInv
    <2>3. KnowsOthers(p)'
      BY <2>1, <2>2 DEF KnowsOthers, Want, Others
    <2>4. {} \in SUBSET Keys
      OBVIOUS
    <2> QED
      BY <1>t, <2>1, <2>2, <2>3, <2>4, TakesAway
  <1>5. ASSUME NEW k \in Keys, Rewrite(p, k) PROVE Good
    <2>1. /\ \A q \in Procs \ {p} : cmd'[q] = cmd[q]
          /\ cmd[p].pc = "rewrite" /\ cmd'[p].key = cmd[p].key /\ cmd'[p].rec = cmd[p].rec
          /\ cmd'[p].pc = IF cmd[p].todo = {k} THEN "prune" ELSE "rewrite"
          /\ cmd'[p].todo = cmd[p].todo \ {k} /\ k \in cmd[p].todo
      BY <1>5, <1>t DEF Rewrite, Commands
    <2>2. KnowsOthers(p) /\ Want(p) # NoRole
      BY <2>1 DEF Inv, RolesInv
    <2>3. cmd[p].was[k] \in Records
      BY <1>t DEF Commands
    <2>4. recs'[k].role = NoRole
      BY <1>5, <1>t, <2>3 DEF Rewrite, Records
    <2>5. \A j \in Keys \ {k} : recs'[j] = recs[j]
      BY <1>5, <1>t DEF Rewrite
    <2>6. KnowsOthers(p)'
      BY <2>1, <2>2, <2>4, <2>5 DEF KnowsOthers, Want
    <2>7. cmd[p].todo = {k} => \A j \in Keys \ {cmd[p].key} : recs'[j].role # Want(p)
      BY <2>2, <2>4, <2>5 DEF KnowsOthers
    <2>8. {k} \in SUBSET Keys /\ cmd[p].key \notin {k}
      BY <2>1, <2>2 DEF KnowsOthers
    <2>9. \A j \in Keys : recs'[j].role = (IF j \in {k} THEN NoRole ELSE recs[j].role) /\ Sane(recs'[j])
      BY <1>t, <2>4, <2>5 DEF Sane
    <2> QED
      BY <2>1, <2>2, <2>6, <2>7, <2>8, <2>9, TakesAway
  <1>6. CASE Prune(p)
    <2> DEFINE D == {k \in Keys : recs[k].old /\ k \notin cmd[p].live}
    <2>1. /\ \A q \in Procs \ {p} : cmd'[q] = cmd[q]
          /\ cmd[p].pc = "prune" /\ cmd'[p].key = cmd[p].key /\ cmd'[p].rec = cmd[p].rec
          /\ cmd'[p].pc = "unlock"
      BY <1>6, <1>t DEF Prune, Goes, Commands
    <2>2. \A k \in Keys : recs'[k] = IF k \in D THEN NoRec ELSE recs[k]
      BY <1>6, <1>t DEF Prune
    <2>3. D \in SUBSET Keys /\ cmd[p].key \notin D
      BY <2>1 DEF Inv, IdentityInv, Registering, Inside
    <2> HIDE DEF D
    <2>4. \A q \in Procs \ {p} : cmd[q].pc # "keyDump" /\ cmd[q].pc \notin Claimed
      BY <2>1, InsideAlone DEF Inside, Rekeys, Claimed
    <2>5. Sane(cmd'[p].rec)
      BY <2>1 DEF Inv, RolesInv
    <2> QED
      BY <1>t, <1>e, <2>1, <2>2, <2>3, <2>4, <2>5, DropsAt DEF Superseding, Claimed
  <1> QED
    BY <1>1, <1>2, <1>3, <1>4, <1>5, <1>6 DEF ClaimStep

\* The two steps of a re-key.
LEMMA RekeyDumpGood == ASSUME Inv, NEW p \in Procs, RekeyDump(p) PROVE Good
  <1> USE DEF Inv, RolesInv, Superseding, Want
  <1>t. /\ cmd \in [Procs -> Commands] /\ recs \in [Keys -> Records]
        /\ cmd[p].key \in Keys /\ cmd[p].from \in Keys /\ NoRole \notin RoleNames /\ On \in [Procs -> Agents]
    BY StepTypes, RegistryAssumption
  <1>j. PICK j \in Keys, k \in Keys : j = cmd[p].from /\ k = cmd[p].key
    BY <1>t
  <1>a. \A q \in Procs : cmd[q].pc \notin Inside
    BY DEF RekeyDump, MutexInv, Rekeys
  <1>c. /\ cmd[p].pc = "keyDump" /\ cmd'[p].pc = "keyUnlink"
        /\ cmd'[p].from = cmd[p].from /\ cmd'[p].rec = cmd[p].rec
        /\ \A q \in Procs \ {p} : cmd'[q] = cmd[q]
    BY <1>t DEF RekeyDump, Goes, Commands
  <1>f. /\ j # k
        /\ \A q \in Procs \ {p} : cmd[q].pc \in Rekeys => cmd[q].from # j /\ cmd[q].from # k
    BY <1>c, <1>j, <1>t DEF IdentityInv, Renewing, Rekeys
  <1>r. /\ \A i \in Keys \ {k} : recs'[i] = recs[i]
        /\ recs'[k].role = recs[j].role /\ Sane(recs'[k])
    <2>1. cmd[p].rec \in Records /\ Sane(cmd[p].rec) /\ cmd[p].rec.role = recs[j].role
      BY <1>c, <1>j, StepTypes
    <2>2. recs' = [recs EXCEPT ![k] = [cmd[p].rec EXCEPT !.old = FALSE]]
      BY <1>j DEF RekeyDump
    <2> QED
      BY <1>t, <2>1, <2>2 DEF Records, Sane
  <1>b. \A i \in Keys : Superseded(i) <=> \E q \in Procs : cmd[q].pc = "keyUnlink" /\ i = cmd[q].from
    BY <1>a DEF Superseded, Inside
  <1>s. /\ \A i \in Keys \ {j} : Superseded(i)' <=> Superseded(i)
        /\ ~Superseded(j) /\ Superseded(j)'
        /\ ~Superseded(k)
    <2>1. \A i \in Keys : Superseded(i)' <=> \E q \in Procs : cmd'[q].pc = "keyUnlink" /\ i = cmd'[q].from
      BY <1>a, <1>c DEF Superseded, Inside
    <2> QED
      BY <1>b, <1>c, <1>f, <1>j, <1>t, <2>1 DEF Rekeys
  <1>1. Book!Next
    <2>1. Role(k)' = Role(j) /\ Role(j)' = NoRole
      BY <1>f, <1>r, <1>s, <1>t DEF Role
    <2>2. \A i \in Keys \ {j, k} : Role(i)' = Role(i)
      BY <1>r, <1>s DEF Role
    <2> QED
      BY <1>f, <1>t, <2>1, <2>2, BookSteps
  <1>2. RoleExclusive'
    <2>1. \A r \in RoleNames, i \in Keys :
            Holds(i, r)' => IF i = k THEN Holds(j, r) ELSE Holds(i, r) /\ i # j
      BY <1>r, <1>s, <1>t DEF Holds
    <2> QED
      BY <1>t, <2>1 DEF RoleExclusive
  <1>3. \A q \in Procs : cmd'[q].pc \notin {"revoke", "rewrite"} \cup Claimed
    BY <1>a, <1>c DEF Inside, Claimed
  <1>4. \A q \in Procs : cmd'[q].pc = "keyDump" => cmd'[q].rec.role = recs'[cmd'[q].from].role
    BY <1>c, <1>f, <1>j, <1>r, StepTypes DEF Rekeys
  <1>5. \A i \in Keys : Sane(recs'[i])
    BY <1>r
  <1>6. \A q \in Procs : Sane(cmd'[q].rec)
    BY <1>c
  <1>7. RolesInv'
    BY <1>2, <1>3, <1>4, <1>5, <1>6
  <1> QED
    BY <1>1, <1>7 DEF Good

LEMMA RekeyUnlinkGood == ASSUME Inv, NEW p \in Procs, RekeyUnlink(p) PROVE Good
  <1> USE DEF Inv, RolesInv, Superseding, Want
  <1>t. /\ cmd \in [Procs -> Commands] /\ recs \in [Keys -> Records]
        /\ cmd[p].from \in Keys /\ NoRole \notin RoleNames
    BY StepTypes
  <1>a. \A q \in Procs : cmd[q].pc \notin Inside
    BY DEF RekeyUnlink, MutexInv, Rekeys
  <1>c. /\ cmd[p].pc = "keyUnlink" /\ cmd'[p].pc = "idle" /\ cmd'[p].rec = NoRec
        /\ \A q \in Procs \ {p} : cmd'[q] = cmd[q]
    BY <1>t, StepTypes DEF RekeyUnlink, Ends
  <1>f. \A q \in Procs \ {p} : cmd[q].pc \in Rekeys => cmd[q].from # cmd[p].from
    BY <1>c DEF IdentityInv, Renewing, Rekeys
  <1>r. /\ \A k \in Keys \ {cmd[p].from} : recs'[k] = recs[k]
        /\ recs'[cmd[p].from].role = NoRole /\ Sane(recs'[cmd[p].from])
    BY <1>t DEF RekeyUnlink, NoRec, Sane
  <1>s. /\ Superseded(cmd[p].from)
        /\ \A k \in Keys \ {cmd[p].from} : Superseded(k)' <=> Superseded(k)
    BY <1>a, <1>c, <1>f DEF Superseded, Inside, Rekeys
  <1>1. \A k \in Keys : Role(k)' = Role(k)
    BY <1>r, <1>s, <1>t DEF Role
  <1>2. Book!Next
    <2>1. {} \in SUBSET Keys /\ \A k \in Keys : Role(k)' = IF k \in {} THEN NoRole ELSE Role(k)
      BY <1>1
    <2> QED
      BY <2>1, BookSteps
  <1>3. RoleExclusive'
    <2>1. \A r \in RoleNames, k \in Keys : Holds(k, r)' => Holds(k, r)
      BY <1>r, <1>s, <1>t DEF Holds
    <2> QED
      BY <2>1 DEF RoleExclusive
  <1>4. \A q \in Procs : cmd'[q].pc \notin {"revoke", "rewrite"} \cup Claimed
    BY <1>a, <1>c DEF Inside, Claimed
  <1>5. \A q \in Procs : cmd'[q].pc = "keyDump" => cmd'[q].rec.role = recs'[cmd'[q].from].role
    BY <1>c, <1>f, <1>r, StepTypes DEF Rekeys
  <1>6. \A q \in Procs : Sane(cmd'[q].rec)
    BY <1>c, StepTypes
  <1>7. RolesInv'
    BY <1>3, <1>4, <1>5, <1>6, <1>r
  <1> QED
    BY <1>2, <1>7 DEF Good

\* A command that writes no record, and has none on its way out.
LEMMA NothingWritten ==
  ASSUME Inv, NEW p \in Procs, UNCHANGED recs,
         \A q \in Procs \ {p} : cmd'[q] = cmd[q],
         cmd[p].pc \notin Superseding,
         cmd'[p].pc \notin Superseding \cup Claimed \cup {"keyDump"}, Sane(cmd'[p].rec)
  PROVE  Good
  <1> DEFINE D == {}
  <1>1. D \in SUBSET Keys
    OBVIOUS
  <1>2. \A k \in Keys : recs'[k].role = (IF k \in D THEN NoRole ELSE recs[k].role) /\ Sane(recs'[k])
    BY DEF Inv, RolesInv
  <1>3. \A q \in Procs \ {p} : /\ cmd[q].pc = "keyDump" => cmd[q].from \notin D
                               /\ Sole(q) /\ cmd[q].pc \in Claimed => cmd[q].key \notin D
    OBVIOUS
  <1>4. cmd'[p].pc \notin Superseding \cup {"keyDump"} /\ cmd'[p].pc \notin Claimed
    OBVIOUS
  <1> HIDE DEF D
  <1> QED
    BY <1>1, <1>2, <1>3, <1>4, DropsAt

LEMMA MutexGood == ASSUME Inv, NEW p \in Procs, MutexStep(p) PROVE Good
  <1>t. cmd \in [Procs -> Commands] /\ NoCmd(p).pc = "idle" /\ NoCmd(p).rec = NoRec /\ Sane(NoRec)
        /\ Sane(cmd[p].rec)
    BY StepTypes DEF Inv, RolesInv
  <1> USE <1>t DEF Goes, Ends, Commands, Superseding, Claimed
  <1>1. CASE MutexOpen(p)
    <2>1. /\ UNCHANGED recs /\ \A q \in Procs \ {p} : cmd'[q] = cmd[q]
          /\ cmd[p].pc = "mutex" /\ cmd'[p].pc \in {"stat", "load"} /\ cmd'[p].rec = cmd[p].rec
      BY <1>1 DEF MutexOpen
    <2> QED
      BY <2>1, NothingWritten
  <1>2. CASE MutexStat(p)
    <2>1. /\ UNCHANGED recs /\ \A q \in Procs \ {p} : cmd'[q] = cmd[q]
          /\ cmd[p].pc = "stat" /\ cmd'[p].pc \in {"mutex", "break", "idle"} /\ Sane(cmd'[p].rec)
      BY <1>2 DEF MutexStat, Retry, OnlyCmd
    <2> QED
      BY <2>1, NothingWritten
  <1>3. CASE MutexBreak(p)
    <2>1. /\ UNCHANGED recs /\ \A q \in Procs \ {p} : cmd'[q] = cmd[q]
          /\ cmd[p].pc = "break" /\ cmd'[p].pc \in {"mutex", "idle"} /\ Sane(cmd'[p].rec)
      BY <1>3 DEF MutexBreak, Retry
    <2> QED
      BY <2>1, NothingWritten
  <1>4. CASE MutexUnlock(p)
    <2>1. /\ UNCHANGED recs /\ \A q \in Procs \ {p} : cmd'[q] = cmd[q]
          /\ cmd[p].pc = "unlock" /\ cmd'[p].pc = "idle" /\ cmd'[p].rec = NoRec
      BY <1>4 DEF MutexUnlock
    <2> QED
      BY <2>1, NothingWritten
  <1> QED
    BY <1>1, <1>2, <1>3, <1>4 DEF MutexStep

\* The session's own record, written without a role: no re-key reads it, and no other
\* command that is sure of it is the only one of its session.
LEMMA OwnRecordDropped ==
  ASSUME Inv, NEW p \in Procs, cmd[p].pc \in {"relWrite", "autoWrite"}, NEW c \in Records, c.role = NoRole,
         recs' = [recs EXCEPT ![cmd[p].key] = c], Ends(p)
  PROVE  Good
  <1>t. /\ cmd \in [Procs -> Commands] /\ recs \in [Keys -> Records] /\ cmd[p].key \in Keys
        /\ NoCmd(p).pc = "idle" /\ NoCmd(p).rec = NoRec /\ Sane(NoRec)
    BY StepTypes
  <1> DEFINE D == {cmd[p].key}
  <1>1. D \in SUBSET Keys
    BY <1>t
  <1>2. \A k \in Keys : /\ recs'[k].role = (IF k \in D THEN NoRole ELSE recs[k].role)
                        /\ Sane(recs'[k])
    BY <1>t DEF Inv, RolesInv, Sane
  <1>3. /\ \A q \in Procs \ {p} : cmd'[q] = cmd[q]
        /\ cmd'[p].pc = "idle" /\ Sane(cmd'[p].rec)
    BY <1>t DEF Ends
  <1>4. \A q \in Procs \ {p} : cmd[q].pc = "keyDump" => cmd[q].from \notin D
    BY RegistryAssumption DEF Inv, IdentityInv, Renewing, Rekeys
  <1>5. \A q \in Procs \ {p} : Sole(q) /\ cmd[q].pc \in Claimed => cmd[q].key \notin D
    BY RegistryAssumption DEF Inv, IdentityInv, Sole, Claimed
  <1>6. cmd[p].pc \notin Superseding \cup Claimed /\ cmd'[p].pc \notin Superseding \cup Claimed \cup {"keyDump"}
    BY <1>3 DEF Superseding, Claimed
  <1> HIDE DEF D
  <1> QED
    BY <1>1, <1>2, <1>3, <1>4, <1>5, <1>6, DropsAt

LEMMA RekeyLoadGood == ASSUME Inv, NEW p \in Procs, RekeyLoad(p) PROVE Good
  <1> USE DEF Inv, RolesInv, Superseding, Want
  <1>t. /\ cmd \in [Procs -> Commands] /\ recs \in [Keys -> Records] /\ cmd[p].from \in Keys
        /\ NoCmd(p).pc = "idle" /\ NoCmd(p).rec = NoRec /\ Sane(NoRec)
    BY StepTypes
  <1>1. CASE ~recs[cmd[p].from].there
    <2>1. /\ UNCHANGED recs /\ \A q \in Procs \ {p} : cmd'[q] = cmd[q]
          /\ cmd[p].pc = "keyLoad" /\ cmd'[p].pc = "idle" /\ cmd'[p].rec = NoRec
      BY <1>1, <1>t DEF RekeyLoad, Ends, OnlyCmd
    <2> QED
      BY <1>t, <2>1, NothingWritten DEF Claimed
  <1>2. CASE recs[cmd[p].from].there
    <2>1. /\ UNCHANGED recs /\ \A q \in Procs \ {p} : cmd'[q] = cmd[q]
          /\ cmd[p].pc = "keyLoad" /\ cmd'[p].pc = "keyDump"
          /\ cmd'[p].from = cmd[p].from /\ cmd'[p].rec = recs[cmd[p].from]
      BY <1>2, <1>t DEF RekeyLoad, OnlyCmd, Commands
    <2>2. \A k \in Keys : Superseded(k)' <=> Superseded(k)
      BY <2>1 DEF Superseded
    <2>3. \A k \in Keys : Role(k)' = Role(k)
      BY <2>1, <2>2 DEF Role
    <2>4. {} \in SUBSET Keys /\ \A k \in Keys : Role(k)' = IF k \in {} THEN NoRole ELSE Role(k)
      BY <2>3
    <2>5. Book!Next
      BY <2>4, BookSteps
    <2>6. RoleExclusive'
      BY <2>1, <2>2 DEF RoleExclusive, Holds
    <2>7. \A q \in Procs : cmd'[q].pc = "rewrite" => KnowsOthers(q)'
      <3> SUFFICES ASSUME NEW q \in Procs, cmd'[q].pc = "rewrite" PROVE KnowsOthers(q)'
        OBVIOUS
      <3>1. cmd'[q] = cmd[q] /\ KnowsOthers(q)
        BY <2>1
      <3> QED
        BY <2>1, <3>1 DEF KnowsOthers
    <2>8. RolesInv'
      BY <1>t, <2>1, <2>6, <2>7 DEF Sole, Claimed
    <2> QED
      BY <2>5, <2>8 DEF Good
  <1> QED
    BY <1>1, <1>2

LEMMA OtherGood == ASSUME Inv, NEW p \in Procs, OtherStep(p) PROVE Good
  <1>t. /\ cmd \in [Procs -> Commands] /\ recs \in [Keys -> Records]
        /\ cmd[p].key \in Keys /\ cmd[p].rec \in Records
        /\ NoCmd(p).pc = "idle" /\ NoCmd(p).rec = NoRec /\ Sane(NoRec)
        /\ (\A k \in Keys : Sane(recs[k])) /\ Sane(cmd[p].rec)
    BY StepTypes DEF Inv, RolesInv
  <1>1. CASE ReleaseLoad(p)
    <2>1. /\ UNCHANGED recs /\ \A q \in Procs \ {p} : cmd'[q] = cmd[q]
          /\ cmd[p].pc = "relLoad" /\ cmd'[p].pc \in {"relWrite", "idle"} /\ Sane(cmd'[p].rec)
      BY <1>1, <1>t DEF ReleaseLoad, OnlyCmd, Ends, Commands
    <2> QED
      BY <2>1, NothingWritten DEF Superseding, Claimed
  <1>2. CASE ReleaseWrite(p)
    <2> DEFINE c == [cmd[p].rec EXCEPT !.role = NoRole, !.old = FALSE]
    <2>1. c \in Records /\ c.role = NoRole
      BY <1>t, RecordValues DEF Records
    <2> QED
      BY <1>2, <2>1, OwnRecordDropped DEF ReleaseWrite
  <1>3. CASE AutoLook(p)
    <2>1. /\ UNCHANGED recs /\ \A q \in Procs \ {p} : cmd'[q] = cmd[q]
          /\ cmd[p].pc = "autoLook" /\ cmd'[p].pc \in {"autoWrite", "idle"} /\ Sane(cmd'[p].rec)
      BY <1>3, <1>t DEF AutoLook, OnlyCmd, Goes, Ends, Commands
    <2> QED
      BY <2>1, NothingWritten DEF Superseding, Claimed
  <1>4. CASE AutoWrite(p)
    <2>1. Rec(NoRole) \in Records /\ Rec(NoRole).role = NoRole
      BY RecordValues DEF Rec
    <2> QED
      BY <1>4, <2>1, OwnRecordDropped DEF AutoWrite
  <1> QED
    BY <1>1, <1>2, <1>3, <1>4, RekeyLoadGood, RekeyDumpGood, RekeyUnlinkGood DEF OtherStep

LEMMA BeginsGood ==
  ASSUME Inv, Disciplined, NEW p \in Procs,
         \/ Crash(p) \/ Begin(p, "release", "relLoad") \/ Begin(p, "auto", "autoLook")
         \/ \E r \in RoleNames \cup {NoRole} : Register(p, r)
         \/ \E k \in Keys : Renew(p, k)
  PROVE  Good
  <1>t. /\ cmd \in [Procs -> Commands] /\ NoCmd(p) \in Commands /\ Fresh(p) \in Commands
        /\ NoCmd(p).pc = "idle" /\ NoCmd(p).rec = NoRec /\ Fresh(p).rec = NoRec /\ Sane(NoRec)
    BY StepTypes, CommandValues, FreshValues DEF Inv, Fresh, NoCmd
  <1>1. CASE Crash(p)
    <2>1. /\ UNCHANGED recs /\ \A q \in Procs \ {p} : cmd'[q] = cmd[q]
          /\ cmd[p].pc \notin Superseding /\ cmd'[p].pc = "idle" /\ cmd'[p].rec = NoRec
      BY <1>1, <1>t DEF Crash, Ends, OnlyCmd, Disciplined, Superseding
    <2> QED
      BY <1>t, <2>1, NothingWritten DEF Superseding, Claimed
  <1>2. CASE Begin(p, "release", "relLoad") \/ Begin(p, "auto", "autoLook")
    <2>1. /\ UNCHANGED recs /\ \A q \in Procs \ {p} : cmd'[q] = cmd[q]
          /\ cmd[p].pc = "idle" /\ cmd'[p].pc \in {"relLoad", "autoLook"} /\ cmd'[p].rec = NoRec
      BY <1>2, <1>t DEF Begin, OnlyCmd, Commands
    <2> QED
      BY <1>t, <2>1, NothingWritten DEF Superseding, Claimed
  <1>3. ASSUME NEW r \in RoleNames \cup {NoRole}, Register(p, r) PROVE Good
    <2>1. /\ UNCHANGED recs /\ \A q \in Procs \ {p} : cmd'[q] = cmd[q]
          /\ cmd[p].pc = "idle" /\ cmd'[p].pc = "mutex" /\ cmd'[p].rec = NoRec
      BY <1>3, <1>t DEF Register, OnlyCmd, Commands
    <2> QED
      BY <1>t, <2>1, NothingWritten DEF Superseding, Claimed
  <1>4. ASSUME NEW k \in Keys, Renew(p, k) PROVE Good
    <2>1. /\ UNCHANGED recs /\ \A q \in Procs \ {p} : cmd'[q] = cmd[q]
          /\ cmd[p].pc = "idle" /\ cmd'[p].pc = "keyLoad" /\ cmd'[p].rec = NoRec
      BY <1>4, <1>t, RegistryAssumption DEF Renew, Idle, Commands
    <2> QED
      BY <1>t, <2>1, NothingWritten DEF Superseding, Claimed
  <1> QED
    BY <1>1, <1>2, <1>3, <1>4

\* Where no command moves, no role does.
LEMMA WorldGood ==
  ASSUME Inv, UNCHANGED cmd, \A k \in Keys : recs'[k].role = recs[k].role /\ recs'[k].there = recs[k].there
  PROVE  RolesInv' /\ \A k \in Keys : Role(k)' = Role(k)
  <1>k. \A q \in Procs : cmd[q].key \in Keys /\ cmd[q].from \in Keys
    BY StepTypes
  <1>1. \A k \in Keys : Superseded(k)' <=> Superseded(k)
    BY DEF Superseded, Want
  <1>2. RoleExclusive'
    BY <1>1 DEF RoleExclusive, Holds, Inv, RolesInv
  <1>3. \A q \in Procs : KnowsOthers(q) => KnowsOthers(q)'
    BY DEF KnowsOthers, Want
  <1>4. RolesInv'
    BY <1>k, <1>2, <1>3 DEF Inv, RolesInv, Sane, Want, Sole
  <1> QED
    BY <1>1, <1>4 DEF Role

LEMMA RolesKept == Inv /\ Disciplined /\ [Next]_vars =>
  RolesInv' /\ (Book!Next \/ \A k \in Keys : Role(k)' = Role(k))
  <1> SUFFICES ASSUME Inv, Disciplined, [Next]_vars
               PROVE  RolesInv' /\ (Book!Next \/ \A k \in Keys : Role(k)' = Role(k))
    OBVIOUS
  <1>1. ASSUME NEW p \in Procs, Step(p) PROVE Good
    BY <1>1, MutexGood, ClaimGood, OtherGood DEF Step
  <1>2. ASSUME NEW p \in Procs,
               \/ Crash(p) \/ Begin(p, "release", "relLoad") \/ Begin(p, "auto", "autoLook")
               \/ \E r \in RoleNames \cup {NoRole} : Register(p, r)
               \/ \E k \in Keys : Renew(p, k)
        PROVE  Good
    BY <1>2, BeginsGood
  <1>3. CASE UNCHANGED <<recs, cmd>>
    BY <1>3, WorldGood
  <1>4. ASSUME NEW k \in Keys, Age(k)
        PROVE  RolesInv' /\ \A j \in Keys : Role(j)' = Role(j)
    <2>1. recs \in [Keys -> Records] /\ recs' = [recs EXCEPT ![k].old = TRUE] /\ UNCHANGED cmd
      BY <1>4 DEF Age, Inv, TypeOK
    <2>2. \A j \in Keys : recs'[j].role = recs[j].role /\ recs'[j].there = recs[j].there
      BY <2>1 DEF Records
    <2> QED
      BY <2>1, <2>2, WorldGood
  <1> QED
    BY <1>1, <1>2, <1>3, <1>4 DEF Good, Next, Close, Expose, MutexAges, vars

LEMMA InitInv == Init => Inv /\ Book!Init
  <1> SUFFICES ASSUME Init PROVE Inv /\ Book!Init
    OBVIOUS
  <1>1. (\A p \in Procs : cmd[p].pc = "idle" /\ cmd[p].rec = NoRec) /\ \A k \in Keys : recs[k] = NoRec
    BY DEF Init, NoCmd
  <1>2. \A k \in Keys : recs[k].role = NoRole /\ Sane(recs[k])
    BY <1>1 DEF NoRec, Sane
  <1>3. RolesInv
    BY <1>1, <1>2, RegistryAssumption DEF RolesInv, Claimed, RoleExclusive, Holds, NoRec, Sane
  <1>4. Book!Init
    BY <1>2 DEF Book!Init
  <1> QED
    BY <1>3, <1>4, TypeInit, MutexInit, IdentityInit DEF Inv

LEMMA InvKept == Inv /\ Disciplined /\ [Next]_vars => Inv'
  BY TypeStep, MutexKept, IdentityKept, RolesKept DEF Inv

LEMMA Invariance == ASSUME Disciplined PROVE Spec => []Inv
  BY InitInv, InvKept, PTL DEF Spec

\* register's "the same role can never be held by two records at once", for a registry that
\* is used with discipline.
THEOREM RoleExclusiveAlways == ASSUME Disciplined PROVE Spec => []RoleExclusive
  <1>1. Inv => RoleExclusive
    BY DEF Inv, RolesInv
  <1> QED
    BY <1>1, Invariance, PTL

\* A registration that is through holds the role it asked for.
THEOREM ClaimLandsAlways == ASSUME Disciplined PROVE Spec => []ClaimLands
  <1>1. Inv => ClaimLands
    BY DEF Inv, RolesInv, ClaimLands, Claimed
  <1> QED
    BY <1>1, Invariance, PTL

\* The files implement the abstract role book: a role has one holder at most, taken by a
\* claim or inherited from the conversation continued.
THEOREM RolesImplemented == ASSUME Disciplined PROVE Spec => ImplementsRoles
  <1>1. Init => Book!Init
    BY InitInv
  <1>2. Inv /\ [Next]_vars =>
          [Book!Next]_[k \in Keys |-> IF Superseded(k) THEN NoRole ELSE recs[k].role]
    BY RolesKept DEF Role
  <1> QED
    BY <1>1, <1>2, Invariance, PTL DEF Spec, ImplementsRoles, Book!Spec
=============================================================================
