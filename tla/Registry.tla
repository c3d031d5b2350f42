------------------------------ MODULE Registry ------------------------------
(***************************************************************************)
(* The orchestrator directory: one JSON record for every session identity   *)
(* (orchestrator.py), written by register, release_role and the automatic   *)
(* registration of a dispatch, and re-keyed when a conversation is renewed  *)
(* (renewal.py).                                                            *)
(*                                                                         *)
(* Only register takes the registration mutex.  Everything between two      *)
(* accesses to a file may be overtaken by the other commands, those of the  *)
(* same session included.                                                   *)
(***************************************************************************)
EXTENDS Naturals, FiniteSets

CONSTANTS
  Agents, Keys,
  First,           \* the identity each agent has at the start
  Exposing,        \* agents known by their terminal until a conversation id appears
  Stays,           \* agents that are never closed
  Procs, On,       \* the commands that may run side by side, and whose they are
  Runs,            \* which operations each runs
  RoleNames, NoRole,
  CrashPoints,     \* where a command may be killed
  Prompt,          \* whether a live registration is over before its mutex is stale
  BreakAlone,      \* whether at most one command at a time is about to break the mutex
  RekeyApart       \* whether a re-key and a registration keep out of each other's way

Labels == {"idle", "mutex", "stat", "break", "load", "write", "sweep", "revoke", "rewrite", "prune", "unlock",
           "relLoad", "relWrite", "autoLook", "autoWrite", "keyLoad", "keyDump", "keyUnlink"}
Operations == {"register", "release", "auto", "renew"}
Inside == {"load", "write", "sweep", "revoke", "rewrite", "prune", "unlock"}
Rekeys == {"keyDump", "keyUnlink"}

ASSUME RegistryAssumption ==
  /\ First \in [Agents -> Keys] /\ \A a, b \in Agents : First[a] = First[b] => a = b
  /\ On \in [Procs -> Agents]
  /\ Runs \in [Procs -> SUBSET Operations]
  /\ Exposing \subseteq Agents /\ Stays \subseteq Agents
  /\ NoRole \notin RoleNames
  /\ CrashPoints \subseteq Labels \ {"idle"}
  /\ Prompt \in BOOLEAN /\ BreakAlone \in BOOLEAN /\ RekeyApart \in BOOLEAN

VARIABLES
  recs,     \* the record files
  mutex,    \* .register.mutex: absent, or whose it is and whether it is stale by age
  cmd,      \* the command each process runs
  key,      \* the identity each agent answers to
  alias,    \* an identity it still answers to: its terminal's
  used,     \* identities that exist or existed
  gone      \* agents that were closed

vars == <<recs, mutex, cmd, key, alias, used, gone>>

NoRec   == [there |-> FALSE, role |-> NoRole, old |-> FALSE]
Rec(r)  == [there |-> TRUE, role |-> r, old |-> FALSE]
Free    == [held |-> FALSE, stale |-> FALSE]
Taken   == [held |-> TRUE, stale |-> FALSE]
NoCmd(p) == [pc |-> "idle", tries |-> 0, key |-> First[On[p]], from |-> First[On[p]], ask |-> NoRole,
             rec |-> NoRec, live |-> {}, was |-> [k \in Keys |-> NoRec], todo |-> {}]
Fresh(p) == [NoCmd(p) EXCEPT !.key = key[On[p]]]

Answers(a) == {key[a]} \cup alias[a]
LiveKeys   == UNION {Answers(a) : a \in Agents \ gone}
Want(p)    == cmd[p].rec.role     \* the role a registration resolved for its record
Goes(p, pc) == cmd' = [cmd EXCEPT ![p].pc = pc]
Ends(p)    == cmd' = [cmd EXCEPT ![p] = NoCmd(p)]
Files      == UNCHANGED <<key, alias, used, gone>>
OnlyCmd    == UNCHANGED <<recs, mutex>> /\ Files

Init ==
  /\ recs = [k \in Keys |-> NoRec]
  /\ mutex = Free
  /\ key = First
  /\ cmd = [p \in Procs |-> NoCmd(p)]
  /\ alias = [a \in Agents |-> {}]
  /\ used = {First[a] : a \in Agents}
  /\ gone = {}

(***************************************************************************)
(* register: the mutex around it                                            *)
(***************************************************************************)
\* The live agents are read first; role is what --role names, NoRole without it.
Register(p, role) ==
  /\ "register" \in Runs[p] /\ cmd[p].pc = "idle" /\ On[p] \notin gone
  /\ cmd' = [cmd EXCEPT ![p] = [Fresh(p) EXCEPT !.pc = "mutex", !.ask = role, !.live = LiveKeys]]
  /\ OnlyCmd

\* A second pass over, the registration gives up; so does one that meets a fresh mutex.
Retry(p) == IF cmd[p].tries = 0 THEN cmd' = [cmd EXCEPT ![p].pc = "mutex", ![p].tries = 1] ELSE Ends(p)

\* A registration keeps out of a re-key under way, when RekeyApart holds.
Clear == RekeyApart => \A q \in Procs : cmd[q].pc \notin Rekeys

MutexOpen(p) ==
  /\ cmd[p].pc = "mutex"
  /\ IF mutex.held THEN Goes(p, "stat") /\ UNCHANGED mutex
     ELSE Clear /\ mutex' = Taken /\ cmd' = [cmd EXCEPT ![p].pc = "load", ![p].tries = 0]
  /\ UNCHANGED recs /\ Files

\* [mutant] a mutex is broken however young it is
StatBreaksAny(p) ==
  /\ cmd[p].pc = "stat"
  /\ IF mutex.held THEN Goes(p, "break") ELSE Retry(p)
  /\ OnlyCmd

\* [mutant] a mutex is never broken, however old it is
StatNeverBreaks(p) ==
  /\ cmd[p].pc = "stat"
  /\ IF mutex.held THEN Ends(p) ELSE Retry(p)
  /\ OnlyCmd

MutexStat(p) ==
  /\ cmd[p].pc = "stat"
  /\ CASE ~mutex.held -> Retry(p)
       [] mutex.held /\ mutex.stale -> /\ BreakAlone => \A q \in Procs : cmd[q].pc # "break"
                                       /\ Goes(p, "break")
       [] OTHER -> Ends(p)
  /\ OnlyCmd

\* Unlinked by path, whatever the file is by now.
MutexBreak(p) ==
  /\ cmd[p].pc = "break"
  /\ mutex' = Free
  /\ Retry(p)
  /\ UNCHANGED recs /\ Files

MutexUnlock(p) ==
  /\ cmd[p].pc = "unlock"
  /\ mutex' = Free
  /\ Ends(p)
  /\ UNCHANGED recs /\ Files

\* Ten seconds pass.
MutexAges ==
  /\ mutex.held /\ ~mutex.stale
  /\ Prompt => \A p \in Procs : cmd[p].pc \notin Inside
  /\ mutex' = [mutex EXCEPT !.stale = TRUE]
  /\ UNCHANGED <<recs, cmd>> /\ Files

(***************************************************************************)
(* register: claim                                                          *)
(***************************************************************************)
Load(p) ==
  /\ cmd[p].pc = "load"
  /\ cmd' = [cmd EXCEPT ![p].pc = "write", ![p].ask = NoRole,
       ![p].rec = Rec(IF cmd[p].ask # NoRole THEN cmd[p].ask ELSE recs[cmd[p].key].role)]
  /\ OnlyCmd

Write(p) ==
  /\ cmd[p].pc = "write"
  /\ recs' = [recs EXCEPT ![cmd[p].key] = cmd[p].rec]
  /\ Goes(p, "sweep")
  /\ UNCHANGED mutex /\ Files

\* Records of this very agent under another identity are removed.
Sweep(p) ==
  /\ cmd[p].pc = "sweep"
  /\ recs' = [k \in Keys |-> IF k # cmd[p].key /\ k \in Answers(On[p]) THEN NoRec ELSE recs[k]]
  /\ Goes(p, IF Want(p) = NoRole THEN "prune" ELSE "revoke")
  /\ UNCHANGED mutex /\ Files

\* [mutant] only records that some live agent answers to lose the role
OthersLive(p) == {k \in Keys \ {cmd[p].key} : k \in cmd[p].live /\ recs[k].there /\ recs[k].role = Want(p)}

Others(p) == {k \in Keys \ {cmd[p].key} : recs[k].there /\ recs[k].role = Want(p)}

\* All records are read once, those that carry the role are written back one by one.
Revoke(p) ==
  /\ cmd[p].pc = "revoke"
  /\ cmd' = [cmd EXCEPT ![p].pc = IF Others(p) = {} THEN "prune" ELSE "rewrite", ![p].todo = Others(p),
                        ![p].was = [k \in Keys |-> IF k \in Others(p) THEN recs[k] ELSE NoRec]]
  /\ OnlyCmd

Rewrite(p, k) ==
  /\ cmd[p].pc = "rewrite" /\ k \in cmd[p].todo
  /\ recs' = [recs EXCEPT ![k] = [cmd[p].was[k] EXCEPT !.role = NoRole]]
  /\ cmd' = [cmd EXCEPT ![p].todo = @ \ {k}, ![p].was[k] = NoRec, ![p].pc = IF cmd[p].todo = {k} THEN "prune" ELSE @]
  /\ UNCHANGED mutex /\ Files

\* prune_retired: over a week old, and not live when the registration looked.
Prune(p) ==
  /\ cmd[p].pc = "prune"
  /\ recs' = [k \in Keys |-> IF recs[k].old /\ k \notin cmd[p].live THEN NoRec ELSE recs[k]]
  /\ Goes(p, "unlock")
  /\ UNCHANGED mutex /\ Files

(***************************************************************************)
(* The writers outside the mutex                                            *)
(***************************************************************************)
Begin(p, op, pc) ==
  /\ op \in Runs[p] /\ cmd[p].pc = "idle" /\ On[p] \notin gone
  /\ cmd' = [cmd EXCEPT ![p] = [Fresh(p) EXCEPT !.pc = pc]]
  /\ OnlyCmd

\* release_role.
ReleaseLoad(p) ==
  /\ cmd[p].pc = "relLoad"
  /\ IF recs[cmd[p].key].there
     THEN cmd' = [cmd EXCEPT ![p].pc = "relWrite", ![p].rec = recs[cmd[p].key]]
     ELSE Ends(p)
  /\ OnlyCmd

\* [mutant] the release writes the record back with the role it read
ReleaseWritesBack(p) ==
  /\ cmd[p].pc = "relWrite"
  /\ recs' = [recs EXCEPT ![cmd[p].key] = [cmd[p].rec EXCEPT !.old = FALSE]]
  /\ Ends(p)
  /\ UNCHANGED mutex /\ Files

ReleaseWrite(p) ==
  /\ cmd[p].pc = "relWrite"
  /\ recs' = [recs EXCEPT ![cmd[p].key] = [cmd[p].rec EXCEPT !.role = NoRole, !.old = FALSE]]
  /\ Ends(p)
  /\ UNCHANGED mutex /\ Files

\* auto_register_from_dispatch, called by dispatch-task.py write.
AutoLook(p) ==
  /\ cmd[p].pc = "autoLook"
  /\ IF recs[cmd[p].key].there THEN Ends(p) ELSE Goes(p, "autoWrite")
  /\ OnlyCmd

AutoWrite(p) ==
  /\ cmd[p].pc = "autoWrite"
  /\ recs' = [recs EXCEPT ![cmd[p].key] = Rec(NoRole)]
  /\ Ends(p)
  /\ UNCHANGED mutex /\ Files

\* _rekey_orchestrator_record, in the SessionStart hook of the renewed conversation.
RekeyLoad(p) ==
  /\ cmd[p].pc = "keyLoad"
  /\ RekeyApart => \A q \in Procs : cmd[q].pc \notin Inside
  /\ IF recs[cmd[p].from].there
     THEN cmd' = [cmd EXCEPT ![p].pc = "keyDump", ![p].rec = recs[cmd[p].from]]
     ELSE Ends(p)
  /\ OnlyCmd

RekeyDump(p) ==
  /\ cmd[p].pc = "keyDump"
  /\ recs' = [recs EXCEPT ![cmd[p].key] = [cmd[p].rec EXCEPT !.old = FALSE]]
  /\ Goes(p, "keyUnlink")
  /\ UNCHANGED mutex /\ Files

RekeyUnlink(p) ==
  /\ cmd[p].pc = "keyUnlink"
  /\ recs' = [recs EXCEPT ![cmd[p].from] = NoRec]
  /\ Ends(p)
  /\ UNCHANGED mutex /\ Files

(***************************************************************************)
(* The agents                                                               *)
(***************************************************************************)
Idle(a) == \A p \in Procs : On[p] = a => cmd[p].pc = "idle"

\* Its conversation is renewed: cleared while it is idle, the hook of the new one re-keys.
Renew(p, k) ==
  /\ "renew" \in Runs[p] /\ On[p] \notin gone /\ Idle(On[p]) /\ k \notin used
  /\ key' = [key EXCEPT ![On[p]] = k]
  /\ used' = used \cup {k}
  /\ cmd' = [cmd EXCEPT ![p] = [NoCmd(p) EXCEPT !.pc = "keyLoad", !.key = k, !.from = key[On[p]]]]
  /\ UNCHANGED <<recs, mutex, alias, gone>>

\* A conversation id appears for an agent that had none.
Expose(a, k) ==
  /\ a \in Exposing \ gone /\ Idle(a) /\ key[a] = First[a] /\ k \notin used
  /\ key' = [key EXCEPT ![a] = k]
  /\ alias' = [alias EXCEPT ![a] = {key[a]}]
  /\ used' = used \cup {k}
  /\ UNCHANGED <<recs, mutex, cmd, gone>>

Close(a) ==
  /\ a \in Agents \ (gone \cup Stays) /\ Idle(a)
  /\ gone' = gone \cup {a}
  /\ UNCHANGED <<recs, mutex, cmd, key, alias, used>>

\* A week passes without an update of one record; no command takes that long.
Age(k) ==
  /\ recs[k].there /\ ~recs[k].old /\ \A p \in Procs : cmd[p].pc = "idle"
  /\ recs' = [recs EXCEPT ![k].old = TRUE]
  /\ mutex' = [mutex EXCEPT !.stale = mutex.held]
  /\ UNCHANGED cmd /\ Files

Crash(p) ==
  /\ cmd[p].pc \in CrashPoints
  /\ Ends(p)
  /\ OnlyCmd

MutexStep(p) == MutexOpen(p) \/ MutexStat(p) \/ MutexBreak(p) \/ MutexUnlock(p)
ClaimStep(p) ==
  \/ Load(p) \/ Write(p) \/ Sweep(p) \/ Revoke(p) \/ Prune(p)
  \/ \E k \in Keys : Rewrite(p, k)
OtherStep(p) ==
  \/ ReleaseLoad(p) \/ ReleaseWrite(p) \/ AutoLook(p) \/ AutoWrite(p)
  \/ RekeyLoad(p) \/ RekeyDump(p) \/ RekeyUnlink(p)
Step(p) == MutexStep(p) \/ ClaimStep(p) \/ OtherStep(p)

Next ==
  \/ \E p \in Procs :
       \/ Step(p) \/ Crash(p)
       \/ \E r \in RoleNames \cup {NoRole} : Register(p, r)
       \/ Begin(p, "release", "relLoad") \/ Begin(p, "auto", "autoLook")
       \/ \E k \in Keys : Renew(p, k)
  \/ \E a \in Agents : Close(a) \/ \E k \in Keys : Expose(a, k)
  \/ \E k \in Keys : Age(k)
  \/ MutexAges

Spec == Init /\ [][Next]_vars

\* Commands go on, time passes, and a session that wants to register asks again: it is
\* told to "try again shortly".
Asks(p) == On[p] \in Stays /\ \E r \in RoleNames \cup {NoRole} : Register(p, r)

Fairness ==
  /\ \A p \in Procs : WF_vars(Step(p)) /\ SF_vars(Asks(p))
  /\ WF_vars(MutexAges)

FairSpec == Spec /\ Fairness

(***************************************************************************)
(* Properties                                                               *)
(***************************************************************************)
Records == [there : BOOLEAN, role : RoleNames \cup {NoRole}, old : BOOLEAN]
Commands == [pc : Labels, tries : 0..1, key : Keys, ask : RoleNames \cup {NoRole}, rec : Records,
             live : SUBSET Keys, was : [Keys -> Records], todo : SUBSET Keys, from : Keys]

\* The shapes of the files and commands.
TypeOK ==
  /\ recs \in [Keys -> Records]
  /\ mutex \in {Free, Taken, [held |-> TRUE, stale |-> TRUE]}
  /\ cmd \in [Procs -> Commands]
  /\ key \in [Agents -> Keys]
  /\ alias \in [Agents -> SUBSET Keys]
  /\ used \subseteq Keys
  /\ gone \subseteq Agents

\* A record on its way out: a registration is past writing its own and has yet to revoke
\* the role from this one, or a re-key has yet to unlink it.
Superseded(k) == \E p \in Procs :
  \/ cmd[p].pc \in {"sweep", "revoke", "rewrite"} /\ k # cmd[p].key /\ recs[k].role = Want(p)
  \/ cmd[p].pc = "keyUnlink" /\ k = cmd[p].from

Holds(k, r) == recs[k].role = r /\ ~Superseded(k)

\* register: "the same role can never be held by two records at once, live or not",
\* although releases, automatic registrations and re-keys write outside the mutex.
RoleExclusive == \A r \in RoleNames, j, k \in Keys : Holds(j, r) /\ Holds(k, r) => j = k

\* with_registration_mutex: the role never ends up held by neither of two sessions.  A
\* registration that is through carries the role, unless another command of the same
\* session wrote the record as well.
Sole(p) == \A q \in Procs : On[q] = On[p] => q = p
ClaimLands == \A p \in Procs :
  Sole(p) /\ cmd[p].pc = "unlock" => recs[cmd[p].key].role = Want(p)

\* The registry implements Roles: records that are on their way out hold nothing.
Book == INSTANCE Roles WITH role <- [k \in Keys |-> IF Superseded(k) THEN NoRole ELSE recs[k].role]
ImplementsRoles == Book!Spec

\* A mutex whose command died blocks registration for a while, not for good.
Orphaned == mutex.held /\ \A p \in Procs : cmd[p].pc \notin Inside
DeadMutexIsBroken == Orphaned ~> ~Orphaned
=============================================================================
