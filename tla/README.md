# straw-boss: a verification project

straw-boss lets one coding agent (the *main agent*, or coordinator) hand work to
others (*workers*) that run in panes of the Herdr terminal multiplexer. There is no
server: every operation is a short Python command that reads some JSON files under
`~/.straw-boss`, asks Herdr something, and writes the files back. Several
agents run such commands side by side, the user closes panes, conversations restart,
and any command may be killed between two system calls. Almost none of it is locked.

The specifications here model those commands at the granularity at which they
interleave: a read of a shared file, a write, a call to Herdr that something else can
overtake. TLC checks them on small instances; TLAPS proves the most important
properties for every instance.

- Run a check: `tlc -workers 2 -config task_lifecycle.cfg MCTaskLifecycle`
- Check the proofs: `tlapm TaskLifecycleProofs.tla`

Every property of a passing run has a mutant: a plausible bug in one mapped definition
(marked "Mutant" in the modules, and never used by the specification itself) that makes
the run find the property violated.

`PROJECT.json` lists components, runs, mutants, hazards, findings and theorems, and
maps each definition to the source lines it stands for.


## 1. Inventory

Paths are under `src/scripts/`; `sb/` is `straw_boss/`.

| Component | State it keeps | Operations | Meets the others through |
|---|---|---|---|
| **Resource lock** `sb/resource_lock.py` | `locks/<r>.json`, `<r>.reclaim-mutex` | acquire, reclaim_stale, release, gc, status | any agent that shares a port, a database, ... |
| **Resource claim client** `claim-resource.py`, `wait_for` | the wait's own counters | one claim, a claim that waits, port ranges | calls the lock in a loop |
| **Dispatched task** `dispatch-task.py`, `report-task-status.py`, `reply-to-worker.py`, `recover-`, `clear-task-status.py`, `close-worker-pane.py`, `wrap-up-task.py`, `dispatched-agent-stop-guard.py` | instruction, status, archive, progress notes | write, confirm, report, reply, cancel, recover, clear, close, wrap up, stop | instruction and status file, plan.json, the worker's pane |
| **Plan and scheduling** `read-plan-status.py`, `watch-plan-status.py`, plan part of `dispatch-task.py` and `wrap-up-task.py` | `plan.json`, the watcher's seen revisions | mark, sync, ready wave, in-flight count, watch | every plan task's status file |
| **Launch** `launch-dispatched-agent.py`, `sb/dispatch/launch/` | `.launch.json` receipt, `.launch-failure.json` | attempt, retry, rotate a session id, prompt, confirm, repair | Herdr panes, provider session stores, the instruction |
| **Route transfer** `sb/dispatch/transfer.py`, `handoff-orchestrator.py`, `accept-orchestrator-handoff.py`, `take-over-dispatch.py`, `adopt-dispatch.py` | main and root routes in instructions, `handoffs/*.json` | offer, accept, time out, take over, adopt | the instructions the other commands compare and write |
| **Endpoint repair** `adopt-worker-endpoint.py`, `rebind-dispatch.py` | worker endpoint fields | compare and write | the same instructions |
| **Orchestrator registry** `sb/orchestrator.py`, `register-orchestrator.py` | `orchestrators/*.json`, a registration mutex | register, revoke, release, prune | messages between orchestrators, renewal |
| **Context renewal** `sb/renewal.py`, `renew-context.py`, `deliver-renewal.py`, `context-renewal-guard.py`, `orchestrator-priming.py` | renewal records, the pane's delivery lock | request, deliver, claim, confirm, re-point routes | instructions, registry, ledger |
| **Messages and ledger** `sb/dispatch/messages.py`, `sb/herdr/transport.py`, `send-dispatch-message.py` | `*.messages.json` ledger | prompt, record, answer, retry | every notification |
| **Coworkers** `dispatch-coworker.py` | the coworker's instruction | write, launch, confirm | parent's instruction and route |
| **Roll call** `roll-call.py` | none | read Herdr, the instructions, their siblings, the archive; judge | reads what every other command writes |
| **Straw net** `straw-net.py` | none | run the node command | nothing in this repository |
| **Queries and setup** session identity, permission tiers, names, app registry, provider arguments, pane layout | none of their own | validate, derive | inputs to the others |
| **Context pruning** `sb/jev_*.py`, `src/hooks/jev*` | provider transcripts, usage records | score, rewrite | nothing that coordinates |

What is hard in this code:

- **No locks.** `plan.json`, instructions and status files are read, changed and written
  back whole. Some commands compare what they loaded before they write (transfer,
  adoption, repair), some do not (mark, reply, wrap-up). The order of two commands
  decides whose change survives.
- **Atomic or in place.** `dump_json` replaces a file atomically; a report truncates the
  status file and then writes it, and readers do meet the empty file.
- **A lock made of files.** The one lock there is has to recover from its own holders'
  deaths, with a mutex file that has to recover from deaths of its own.
- **Crashes.** A killed command leaves the files half-way; the next command is a retry
  by somebody who does not know.
- **Answers that do not tell.** A prompt whose confirmation failed may have been
  delivered; a pane that is gone may be gone or be somebody else's.
- **Reports made of reads.** A roll call judges an instruction of now by the agents of
  a moment ago; a message is addressed to a session that is renewed before it arrives.
- **Timeouts that race.** A source stops waiting while its receiver is moving
  dispatches; a provider starts late on a session id that is being retried.

What makes each modelled component correct:

- *Lock*: no two agents inside a granted lease; the file names the holder; nothing
  abandoned blocks the resource for good.
- *Task*: a worker's terminal report stands; plan and status file agree on settled
  tasks; a worker that stops has said why; a dead worker's task gets settled; nobody
  closes a pane that belongs to another agent by now.
- *Plan*: a task is given to one worker, after its prerequisites, under the cap; every
  status reaches the coordinator; every ready task gets dispatched.
- *Launch*: one worker has the task and got it once; a session id is never reused; the
  pane of a working agent is never closed and no other pane is forgotten; the dispatch
  ends up confirmed.
- *Routes*: no command writes a file back to what it was; an acceptance takes only what
  was offered and says accepted only of what it got; a source that leaves, leaves
  nothing behind; coworkers follow; an orphan can always be taken over.
- *Registry*: a role has one holder, which got it by a claim or inherited it; a claim
  that is through holds its role; a dead command's mutex is broken in the end.
- *Renewal*: the session that stays owns every route of the sessions it continues, and
  none that another pane took over; a pane is cleared only for a record that the next
  session may claim; every request is delivered.
- *Messages*: a question submitted to or by a session that was renewed can still be
  answered.
- *Claim client*: a wait ends by its deadline, and gives up under churn only.
- *Roll call*: no live worker that shows its session is called absent, and none goes
  unattributed.

The 40 hazards this comes from are listed in `PROJECT.json`, each with its line.


## 2. Modules

| Module | Models | Proofs |
|---|---|---|
| `Lease` | abstract: one holder at a time, a lease that runs down | |
| `ResourceLock` | the lock at system-call granularity, several agents | `ResourceLockProofs` |
| `PlanTask` | abstract: what plan.json promises about one task | |
| `TaskLifecycle` | one plan task, coordinator and worker | `TaskLifecycleProofs` |
| `PlanFile` | several tasks, one coordinator's commands and its watcher | `PlanFileProofs` |
| `Launch` | launcher attempts and reruns for one dispatch | `LaunchProofs` |
| `Routes` | dispatches, coworkers and the main agents that move them | `RoutesProofs` |
| `Roles` | abstract: a role has one holder, by claim or inheritance | |
| `Registry` | the orchestrator records, their mutex, commands of several sessions | `RegistryProofs` |
| `Renewal` | one pane: guard, record, deliverer, clear, hook, adoption | `RenewalProofs` |
| `Messages` | extends `Renewal`: questions to and from the pane that is renewed | `RenewalProofs` |
| `ClaimWait` | extends `Lease`: the loop of a waiting claim | `ClaimWaitProofs` |
| `RollCall` | extends `TaskLifecycle`: the reads of a report beside one task | `TaskLifecycleProofs` |

`MC*` modules hold the instances for TLC. Three modules compose components: `Messages`
runs over `Renewal`'s sessions and ledgers, `RollCall` reads what `TaskLifecycle`
writes, `ClaimWait` competes for the `Lease` that `ResourceLock` is shown to implement.
Otherwise the modules meet in the files: `PlanFile`
abstracts a task to the reports its worker makes, which `TaskLifecycle` details;
`TaskLifecycle` takes the launch as one step, which `Launch` details; `Routes` takes
confirmation, wrap-up and repair as one change each. `PlanFile` and `TaskLifecycle` are
shown to implement the same abstract `PlanTask`: the one for each task of the shared
file, the other for the task it details, with every crash point. What a `PlanFile` does
that a `TaskLifecycle` cannot is not compared further. That the other cuts refine one
another is not claimed.

### ResourceLock and Lease

State: `file` (absent, empty between `O_EXCL` create and write, or a payload with its
holder and remaining seconds), `mutex` (the age of the mutex file), and per agent the
program counter of its `claim-resource.py` process, the payload in hand, the attempt
counters, and `grant`, the lease it was told it has. Time is remaining seconds: a lock
written with ttl n counts from n to -1, so `remaining > 0` in `acquire` is `left > 0`
and `age > ttl` in `reclaim_stale` is `left < 0`; the one-second difference between
the two is in the model. Each system call on the two files is an action; the actions
carry the functions' names (`open`, `load`, `judge`, mutex steps, `relUnlink`,
`gcUnlink`).

`ImplementsLease` maps the holder and what is left of its grant to `Lease`.

### TaskLifecycle

State: the instruction (`inst`), launch `receipt`, `archive`, status file (`stat`),
plan entry, the `pane`, the `worker`'s session, the report being written (`rpt`), its
last wait note, how far the coordinator's command has come (`at`) and the status it
holds in memory (`copy`). `ImplementsTask` maps plan entry, pane and the wrap-up's
outcome to `PlanTask`. Each coordinator command is the sequence of its reads and
writes (`ReplyLoad` ... `ReplyResolve`, `WrapLoad`, `WrapArchive`, `WrapUnlink`,
`WrapSync`, ...). Worker steps interleave at any point except those in `Quiet`.

`Troubles` says what may go wrong: panes that vanish, a launch whose confirmation is
lost, commands that die at each point (by name), a torn report, a worker that stops
before confirmation, a conversation that renews itself, a report for another task
(`"strayCancel"`: `report-task-status.py --plan --task`, which needs no instruction).
`CloseFirst` and `ClearOthers` are the documented ways to use wrap-up and clear.

### PlanFile

State: `plan.json`, status files with revision numbers, the outcomes each worker has
reported (`outcomes`, history), per process the command and the copy of the plan it has
loaded, launched runs, archived tasks, the scheduler's chosen wave and the watcher's
`seen` map. A worker may report again after an outcome (same-task continuation in
plan-mechanics.md), up to `MaxReports`. `Effective`, `Ready` and `InFlight` are
`read-plan-status.py`'s; `Schedule` is the round `boss-say` documents. `ImplementsTasks`
maps each task's entry, its launches and the outcome its wrap-up has in hand to a
`PlanTask` of its own.

### Launch

State: the instruction, the failure record, the receipt, the run under way (attempt,
session id, spent ids, pane, prompts), every pane split and what its agent was told, and
the ids the provider has seen. A pane that Herdr would not close, or that it split
without saying so, is `stuck`: open, and in no file. Anything Herdr, the provider or the
machine does wrong is an outcome of the step it strikes and spends one of `MaxFaults`.

### Routes

State: each dispatch's file (status, main route, trail of moves, repairs), each
coworker's file (root route), which conversation each pane hosts, per pane the accept or
takeover it runs (`cmd`), the source's `handoff-orchestrator.py` (`src`), and the
handoff file (`offer`). `Load`, `Prove`, `Compare`, `Write`, `Cascade`, `Record` are the
steps of `move_main_routes` and of the acceptance around it; between `Load` and `Prove`
any other command may write, and `Prove` may find the mover's own session not live and
refuse. A coworker is asked for with its parent's route in hand and written later;
`late` (history) marks one whose parent moved between the two. `Adopt` and `Repair` are
one step each: both compare the whole file right before they write it. The source makes
the tab, starts the receiver in it and writes the offer (`CreateTab`, `StartReceiver`),
each of which may fail, before it looks for the acceptance.

### Registry and Roles

State: one record for each session identity (role, whether it is old enough to be
pruned), the registration mutex (free, held, stale by age), the identities each agent
answers to, and per process how far its command is and what it has loaded. A
registration is `MutexOpen`, `MutexStat`, `MutexBreak`, `Load`, `Write`, `Sweep`,
`Revoke`, `Rewrite`, `Prune`, `MutexUnlock`; releases, automatic registrations and
re-keys run outside the mutex, two commands of one agent side by side.

`ImplementsRoles` maps a record to the role it carries, except records that are on
their way out (`Superseded`): a claim passes the role in the step that writes the
claimant's record, and the sweep that follows only cleans up.

### Renewal and Messages

State: the pane's record, the session in the pane and its turn, the deliverer that holds
the pane's lock, the SessionStart hook of each session (how far it is, the record it
looked at, the routes it read), routes, lineage file, ledgers and directory entries.
`line` is history: the sessions the holder of the record in fact continues. Sessions are
numbered in the order they start, and have the main agent's role. The hook's steps
follow `orchestrator-priming.py` and `adopt_renewed_session`: look, consume, check the
pane, read every instruction, write each, append the lineage, carry the ledger, remove
the old one, re-key the record. `Stop` is the guard: a turn's end is allowed, or blocked
for a report or a renewal; one whose tokens cannot be counted is allowed.

`Messages` adds each question's way from its sender to its ledger (`Resolve`, `Prompt`,
`RecordDelivery`), deaths in between, and the reply check `validate_peer_reply`.

### ClaimWait

State: the lease and its ttl as the lock file has it, whether an outsider occupies the
port, and the waiter's elapsed time, sleep and largest ttl seen. `Contended` computes
the deadline, gives up, or sleeps: what is left of the lease in whole seconds, between
`ShortestNap` and `LongestNap`, but not beyond the budget. The shortest sleep may
outlast the lease it met.

### RollCall

State: what the report has read so far, and whether Herdr's list showed it the worker's
session: a lookup that fails (`orchestrator.py:136-142`) leaves a worker nobody can be
matched with. Every read is a step, and `TaskLifecycle` moves
between any two of them.


## 3. Runs

All passing runs finish with no error; together they take every action.

| Run | Distinct states | Checks | Shows |
|---|---|---|---|
| `lock_disciplined` | 1.7 million | MutualExclusion, HolderOnRecord, ImplementsLease | Three agents acquire and release one lock, dying anywhere outside the reclaim mutex: no double grant, the file names the holder, and the whole implements the abstract lease. |
| `lock_recovery` | 218 thousand | AbandonedLockIsRecovered | With gc, --force, slow processes and deaths everywhere except between creating and writing the lock file, an abandoned lock or mutex never blocks the resource for good. |
| `task_lifecycle` | 9.4 thousand | StoppedIsExplained, PlanAgrees, FinalWordStands, ClosedStaysClosed, DeadWorkerIsSettled | One task from dispatch to wrap-up with panes that vanish, pane ids that are reused, commands that die half-way and a worker that reports whenever it likes outside the named windows: the files agree, reports last, only a clear leaves a stopped worker without an explanation, closed panes are left alone, and a dead worker's task is settled. |
| `task_reply_race` | violation | FinalWordStands | A worker that reports done while its coordinator is still recording the reply loses the report: the reply writes back the payload it loaded before it sent. |
| `plan_schedule` | 144 thousand | PrerequisitesDone, CapRespected, ImplementsTasks, EveryStatusIsTold, ReadyIsDispatched | One coordinator, one command at a time, works three tasks off under a cap of one: each is marked, then run and settled once as `PlanTask` promises, and none before its prerequisites were reported done; tasks at their first outcome stay within the cap, every status is emitted and every ready task is dispatched, although commands die, sessions restart and the prerequisite may be continued after its outcome. |
| `launch_retry` | 525 thousand | ToldOnce, OneWorker, RefusalsAreDeaths, BoundToItsWorker, NoStrayPane, HeldPaneStands, GetsItsWorker | A Claude or Codex worker is launched, relaunched and repaired under up to four faults (failed splits and starts, gates, stalls, dropped and ambiguous prompts, vanished agents, refused closes, killed launchers): but for a worker whose pane Herdr would not close, one worker gets the task once; no session id is handed out twice, no held pane is closed, none is forgotten that the launcher could close, and the dispatch ends up confirmed. |
| `routes_move` | 620 thousand | AcceptedMeansMoved, HandedOverWhole, CoworkersFollow, NothingUndone, TakenStaysTaken, TakeoverRecovers | Two dispatches and a coworker are handed off, taken over and adopted while conversations restart, tabs fail and files change between a move's check and its write: no change is undone, an acceptance takes only what was offered, a coworker written while its parent's route was the one it names follows it, and an orphaned dispatch can always be taken over. |
| `registry_roles` | 418 thousand | RoleExclusive, ClaimLands, ImplementsRoles, DeadMutexIsBroken | Two agents register, release, auto-register, are renewed, change identity and close, one of them with two commands side by side: a named role has one holder, a claim that is through holds, the files implement the abstract role book, and a dead registration blocks the next ones for a while only. |
| `roll_call` | 9.5 million | AbsentMeansGone, WorkerIsNamed | A roll call reads herdr, the instruction, its siblings and the archive one after the other while its dispatch is launched, confirmed, answered, recovered, closed and wrapped up: no worker whose session it could read is called absent while it lives, and none goes unattributed. |
| `renewal_messages` | 676 thousand | RoutesFollow, Answerable, StaysElsewhere, ClearIsClaimed, RequestIsDelivered | A pane goes through up to three clears, asked for or not, some of whose sessions never reach a Stop or die while the ledger is carried, while another pane takes dispatches over and a peer asks and answers: routes, lineage and ledger reach the session that stays, and every request to renew is delivered. |
| `renewal_stranded` | violation | RoutesFollow | A throwaway session claims the record and is cleared away before it has moved a route; the session that reclaims looks for the throwaway's routes only, so the renewed session's stay behind for good. |
| `claim_wait` | 169 thousand | OnTime, GivesUpUnderChurn | A worker waits for a resource that two others lease one after the other and that something outside may occupy: the wait is over by its deadline, a single slow holder is waited out, and it gives up under churn only; naps outlast leases, and a third holder in a row may be given up on. |

### The bounds, and why they are enough

- *Lock*: three agents are what the two-reclaimer race needs (one that died, two that
  break its mutex); ttl 2 and mutex age 1 let a process be overtaken by expiry and by
  the age-based break. Recovery uses two agents and ttl 1 but allows gc, `--force`,
  slow processes and deaths everywhere except in the write itself.
- *Task*: one task with no counter at all; every variable is finite, so the run covers
  arbitrarily long sequences of commands.
- *Plan*: three tasks (one prerequisite, one independent) under a cap of one, so that a
  dependant and an independent task compete; the prerequisite's worker reports twice, so
  that a status, an outcome too, is replaced while it is watched. `MaxReports` is the
  only bound. One process is enough where one command runs at a time.
- *Launch*: the code's own limits (three attempts, two prompts) and four faults: enough
  for every attempt of a run to fail and for a rerun to fail once more.
- *Routes*: two dispatches, one coworker, four panes: a source, a receiver, somebody
  else who takes over, a pane to resume in. `MaxEvents = 2` bounds restarts,
  adoptions, file changes beside the moves and takeovers that no orphan needs; takeovers
  of orphans and the handoff's own two attempts are not counted. One handoff.
- *Registry*: two agents, one of which runs two commands side by side (it registers
  or is renewed in one while the other releases or auto-registers); three identities, so
  that a conversation may be renewed or show its id late. One role is enough for
  exclusion.
- *Renewal*: four sessions in the pane: the one that asks, two throwaways and the one
  that stays; one dispatch and one question. The proofs cover any number. The
  violation run has two dispatches, so that a hook may die between them.
- *Claim wait*: polls of 3 to 5 units, leases of 1, 2 and 6, two rivals, two lost races:
  a lease shorter than the shortest poll and one that outlasts the longest, so that three
  full leases with the sleeps that outlast them exceed the deadline. `MaxLeases = 8`:
  more leases only help the property.
- *Roll call*: everything finite; any number of reports one after the other.

`CHECK_DEADLOCK FALSE` is set where the system does come to rest: a task wrapped up, a
plan worked off, a dispatch confirmed, nobody left to move anything, the last session
of the pane busy for good, a wait that is over.

### Fairness

- *Lock* (`FairSpec`): time passes, a process takes its next step, agents that want the
  resource try again. Processes may die; the property asks only that they do not die
  for ever.
- *Task*: a command that has begun goes on (`Proceed`); recovery and wrap-up are tried
  again whenever they can be (strong fairness: they are disabled while another command
  runs). That is the coordinator's documented duty (SKILL.md of dispatching-work), not
  a property of a script.
- *Plan*: the coordinator keeps scheduling (strong, for the same reason), processes go
  on, the watcher scans every task at each poll, workers report in the end.
- *Launch*: the launcher goes on, a failed launch is rerun, the pane a failure left open
  is disposed of, a lost confirmation is repaired.
- *Routes*: commands run to their end, Herdr answers a takeover that is tried again and
  again (strong, for `Proved`: a takeover whose session is not found live refuses and
  may be started again), a coworker that is being launched gets its file, and the user
  has an orphan taken over: `take-over-dispatch.py` exists for exactly that decision and
  infers nothing by itself. The handoff itself needs no fairness.
- *Registry*: a command goes on, the mutex's age passes its limit, and an agent that
  stays (`Stays`) asks again and again (strongly fair: it is often busy).
- *Messages* (for `RequestIsDelivered`): sends and hooks run on, as processes do; a turn
  ends (strong fairness: a send of its own interrupts it); a pane that is idle again and
  again is cleared (strong, because `deliver-renewal.py` waits for the idle state in
  Herdr, for thirty minutes: `Reliable` says that it is not given up before).


## 4. Disagreements with what the repository says

Two runs are kept for these; each quotes a statement of the repository and checks it.

- `task_reply_race`: the reply and its resolution are recorded "atomically"; the payload
  loaded before the prompt is written back after it.
- `renewal_stranded`: "a throwaway session ... cannot strand the record on itself". It
  cannot, but it strands the routes: killed between the claim and the moves, it leaves
  them with the session that asked, and the session that reclaims looks for those of the
  throwaway only (`renewal.py:366-371`).

The others were found with the same models, by the constant or the step named, and no
run is kept for them.

Lock and claim client:

- `gc` "never touches a lock still within its own ttl" (`resource_lock.py:446`), but it
  judges one payload and unlinks by path (462-468): a lock that was reclaimed in between
  goes. `ResourceLockProofs` keeps gc away from live claims for this reason.
- "at most one of their subsequent os.open(O_CREAT|O_EXCL) attempts can still win":
  after a death inside the mutex, two processes that judge it stale both unlink it, the
  slower one the winner's.
- `wait_for` gives up under churn only, says its docstring (259-273); a holder that
  listens on the port it leased is reported with the outsider's 30 seconds instead of
  its own ttl (173-190), so a waiter with a short ttl gives up on one lease
  (`Listens = TRUE`).
- A poll that loses acquire's race sleeps and polls again without a look at the deadline
  (281-289). `OnTime` counts each as one more poll.
- The docstring wants to "never give up before *that holder's own* ttl_seconds would make
  it reclaimable" (265-267). That holds for a holder met alone. A sleep lasts five
  seconds at least (228) and may outlast the lease it met; two of them are enough for the
  third of three full leases to be cut off, and where all ttls are shorter than a poll,
  for the second. `GivesUpUnderChurn` claims what is left.

Task, plan and launch:

- `clear-task-status.py` looks at the plan entry and at the status, never at the worker
  (40-73): clearing a terminal status of a worker that has stopped leaves it idle, its
  task in progress and nothing that explains it, until somebody prompts it.
  `StoppedIsExplained` names the clear as the one step that does this.
- `report-task-status.py --plan --task` writes a status with no instruction at hand
  (151-160): a cancel of a task that is already settled makes status file and plan.json
  disagree (`PlanAgrees` fails with `"strayCancel"`).
- A write killed between the instruction and the mark leaves an instruction that can be
  launched while plan.json still says planned (`"marking"`, kept out of
  `TaskImplemented`; PlanTask wants the mark first).
- A worker continued after its outcome works again, and nothing counts it before it
  reports: with it more workers than the cap may be at work. A report of it that is no
  outcome hides its `done` from tasks still to be chosen; one that was chosen before
  is launched all the same. `CapRespected` speaks of tasks at their first outcome,
  `PrerequisitesDone` of outcomes reported.
- "No pane survived this", says the comment on a failed split
  (`launch/__init__.py:268-269`); but a failed clean-up or a lost answer of a split
  (`pane.py:192-206`) leaves one, as does a close that fails, which is noted as an error
  and passed over (398-405): a pane, and a worker that may have been told, stay open in no
  record, and a rerun starts a second one. `OneWorker` and `NoStrayPane` leave
  those panes (`stuck`) out.
- Recovery is "the one exception" that settles a worker that died before its report; it
  cannot parse the empty file of a report that dies in its write (`"torn"`).
- `write` "marks plan.json's matching task dispatched"; a command beside it writes the
  old mark back (`Overlap = TRUE`).
- The "generous tail" that prevents a resend is not used for Codex, whose visible screen
  is read: a task that has scrolled off is sent again (`Scrolls = TRUE`).

Registry:

- Two breakers of the registration mutex meet like those of the lock
  (`BreakAlone = FALSE`), and a registration that outlives its mutex removes the next
  one's (`Prompt = FALSE`).
- "the same role can never be held by two records at once" (`orchestrator.py:86-88`), but
  a re-key runs outside the mutex (`renewal.py:416-427`): a registration that revokes
  the role between the re-key's read and its write is undone (`RekeyApart = FALSE`). So
  is one that is killed between its write and its sweep.
- An automatic registration that looked before an explicit one and writes after it takes
  its role away (`orchestrator.py:479`, `499`).
- A Codex session that registers again by its conversation id without naming a role
  loses the one its terminal record had (364-366, 385-409).

Renewal and messages (the property that fails under each constant):

- A hook that finds itself in another pane, or dies at "check" or "move", leaves the
  routes (`RoutesFollow`); so do hooks that overlap (`Overlap = TRUE`). A death at
  "begin", "consume" or "lineage" does not, though one at "consume" leaves the record
  for the next session (and `RequestIsDelivered` fails when there is none).
- A takeover between the hook's read and its write is undone: `StaysElsewhere` fails
  with `Apart = FALSE`.
- A session prompted between its start and the deliverer's prompt may confirm its claim,
  ask to renew again and find the pane's lock taken by a deliverer that has cleared
  already: `ClearIsClaimed` and `RequestIsDelivered` fail with `Swift = FALSE`.
- A send that resolved its target before the ledger was carried records its question on
  the old ledger: `Answerable` fails with `SendsPromptly = FALSE`. A sender killed after
  its prompt leaves a question nobody can answer (`"lost"`).
- A hook that dies before its re-key leaves the directory record with the old session.

Roll call:

- "every row is judged against the same instant" (`roll-call.py:259-261`) holds for the
  agents only: a worker started after Herdr was read is called never launched, or
  orphaned. `AbsentMeansGone` speaks of those that were there.
- A dispatch that was wrapped up before it was confirmed has no pane on file: its live
  worker is listed as unattributed. `WorkerIsNamed` speaks of confirmed dispatches.
- A session lookup that fails is swallowed (`orchestrator.py:136-142`): the report then
  finds nobody for a dispatch with a session on file and calls a live worker's dispatch
  orphaned, without the flag because its pane is in the row (`roll-call.py:449`), and
  lists the worker's pane as unattributed (536-542). Both properties speak of workers
  whose session was readable.

Routes (each is a constant away, `Kills` or `Overlaps`, or follows from the model's
shape):

- With `Kills = TRUE`, `CoworkersFollow` fails: killed between a dispatch and its
  coworkers, the retry skips the dispatch as moved already and the coworkers keep the
  old root (`transfer.py:165-169`; `transfer.py`'s header promises that the root route
  is carried along).
- With `Overlaps = TRUE`, `NothingUndone` fails: a wrap-up between the comparison (185)
  and the write (189) is undone and the instruction comes back.
- `take-over-dispatch.py:12-13` says "one refusal writes nothing"; a dispatch that
  changes after its check refuses after earlier ones were written (`transfer.py:185`).
- `skills/handoff-orchestrator/SKILL.md:24` says "Final failure closes the new tab and
  leaves ownership here"; when the wait runs out while the receiver is moving the
  dispatches, the closed tab is their coordinator. `TakeoverRecovers` says what then
  saves them.
- An adoption leaves the coworkers' root routes as they were, and later moves skip them
  because the roots no longer match; `CoworkersFollow` leaves adopted parents out.
- `dispatch-task.py` reads the parent's main route for a coworker (189-194), asks Herdr,
  and writes it (344): after a move in between, the coworker's root is stale and later
  moves skip it (`transfer.py:195`). `CoworkersFollow` leaves out what was written `late`.
- A dispatch that is still pending when the offer is made is in no list; confirmed
  afterwards, it stays with the pane that closes. `HandedOverWhole` speaks of the
  dispatches under way at the offer.


## 5. Proofs

tlapm checks every theorem from `Spec` of the module, for every value of the constants
that its `ASSUME` allows. Each follows the same line: a strengthened invariant, then
`Init => Inv`, `Inv /\ [Next]_vars => Inv'` with one step for each action, then PTL.

**Lock** (`ResourceLockProofs`)

- `TypeCorrect`: no assumption.
- `ReclaimersExcluded`: under `MutexRespected` (nobody dies or dawdles between winning
  the mutex and dropping it; late releases and gc are allowed). `MutexInv`: the mutex
  file exists exactly while somebody is inside, and is never old enough to break.
  That one agent at most is inside is not inductive by itself: it has to know that the
  file is there.
- `HolderRecorded`, `LeasesExclude`, `LeaseRefinement`: under `Disciplined`, which adds
  that a release ends within its lease, no `--force`, and no gc beside live claims.
  `LockInv` adds what each process between two steps may still do: that an empty file
  belongs to its creator, and that a reclaimer which judged a payload expired is the
  only one who can replace it. Every step is then `Take`, `GiveBack`, `Pass` or a
  stutter of `Lease`.

**Task** (`TaskLifecycleProofs`)

- `TypeCorrect`: no assumption on troubles.
- `PlanAgreesAlways`: under `CloseFirst`, which SKILL.md asks of the coordinator, and
  without a cancel of a task that has no live instruction (`"strayCancel"`).
  `SettleInv` tracks the value a wrap-up carries from its read to its sync.
- `FinalWordStandsAlways`: if the worker takes no step in the four windows
  (`QuietWhileWriting`) and a clear is used as documented (`ClearOthers`).
  `task_reply_race` shows what one of the windows costs.
- `StoppedIsExplainedAlways`: under `QuietWhileWriting`, and the stop guard judges every
  stop and a cancel is seen through (`GuardJudges`); any status may be cleared.
  `StopInv`: an answer under way was begun on a worker that had not stopped, and what a
  recovery records is a final outcome.
- `ClosedStaysClosedAlways`: no assumption.
- `TaskImplemented`: if no write is killed between the instruction and the mark
  (`"marking"`), since `PlanTask` gives a task to a worker only once its entry says
  dispatched. `EntryInv`: nobody is in a pane before the instruction
  is written, an entry being marked is still planned and nobody's, and a sync comes after
  the unlink. Five actions are steps of `PlanTask`; the rest touch nothing it sees
  (`ElsewhereStep`). No run lists `ImplementsTask`, which this theorem states.
- Roll call, proved in the same module over the task's actions and the reader's:
  `RollTypeCorrect`, `AbsentMeansGoneAlways`, `WorkerIsNamedAlways`, no assumption; the
  two properties speak of workers whose session the report could read (`Recognised`).
  `PaneFacts` says what never turns back: a pane that has left its worker has left it for
  good, and an archived copy still open is that of a confirmed dispatch. `AttendedInv` and
  `RowInv` carry it through a report: while the worker herdr listed sits in its pane, its
  dispatch stays on file where the reader has still to look or in what it has read, in
  the status it was read with or a later one (`StatusOnward`). The order of the reads is
  what this rests on: herdr first, the instruction and its siblings before the archive.

**Plan** (`PlanFileProofs`)

- `TypeCorrect` and `PrerequisitesDoneAlways`: no assumption. The second holds even for
  overlapping commands: `OutcomeInv` says that every outcome in a file, in the plan, in a
  command's copy or in its hand was reported, and a report is not unsaid by a later one.
- `OneRunPerTaskAlways`, `MarkStandsAlways`: under `~Overlap`. `SerialInv` says that a
  process's copy of the plan is the plan as long as it is the only one running.
- `TasksImplemented`: under `~Overlap`. `HandInv`: a wrap-up's task was run and is archived.
  With `SerialInv` every dump changes its own task's entry alone, so that it is a `Mark`
  or `Sync` of one `PlanTask` and a stutter of all others; a crash is the `LoseSync` of
  the wrap-up it strikes.
- `CapRespectedAlways`: under `~Overlap`. A task has a slot from its choice until its
  first outcome (`FirstSlots`). No step but the scheduler's adds a slot (`SlotsShrink`),
  because a task being marked is still among the chosen (`MarkingChosen`), and the
  scheduler counts the tasks at work exactly (`InFlightAtWork`).
- `NothingForgottenAlways`: under `~Overlap`. It is the safety core of
  `ReadyIsDispatched`, and no run lists it: a scheduler that nothing will wake
  (`Settled`: no news, every final status shown to it, no dead command) has chosen every
  ready task or has no slot left. `WakeInv`: the watcher has shown no revision that was
  not written, and a status is that of a task that was run. A step that makes a task
  ready or frees a slot leaves something that wakes the scheduler (`NothingStirs`), and
  its round fills the slots (`ScheduleFills`).

**Launch** (`LaunchProofs`)

- `TypeCorrect`, `RefusalsAreDeathsAlways`, `BoundToItsWorkerAlways`,
  `HeldPaneStandsAlways`, `NoStrayPaneAlways`: no assumption, every crash point and every
  fault allowed; the last speaks of the panes Herdr did not refuse to close or hide.
- `ReceiptConfirmsAlways`: no assumption. It is the safety core of `GetsItsWorker`, and no
  run lists it: a receipt on file names the session `confirm_dispatch` asks for.
  `Fitting`: Claude's agent runs under the session of its attempt, which no rotation
  changes before the receipt is written.
- `ToldOnceAlways`: under `~Scrolls` (a delivered task can be read back).
- `OneWorkerAlways`: of workers in panes that Herdr did not refuse to close; also that
  no launcher is killed between delivering the task and writing that down ("read",
  "bind", "receipt", "close", "record"); killed there, the code keeps no trace of the
  worker, and a rerun starts a second one.
- The invariants are layered: what the panes were told (`Once`, `Alone`), what the
  record on disk knows (`Kept`, `Landed`), which ids are spent (`Sessions`, `Primed`),
  and, until a launcher is killed, that no pane is open but the one in hand or those
  on record (`Tidy`).

**Routes** (`RoutesProofs`)

- `TypesHold`: no assumption. `AtHome` is needed for it (a command dies with the
  conversation that runs it), and `Counted`, which bounds the repairs of a copy.
- `HandedOverWholeAlways`: no assumption; overlapping writes and kills are allowed.
  `WholeInv`: a source without `--retains` has offered all it has, a dispatch never comes
  back to a source that is handing over, and those it would leave behind are ahead of
  the acceptance that is under way (`Ahead`: still listed, or queued and not written).
- `NothingUndoneAlways`, `TakenStaysTakenAlways`, `AcceptedMeansMovedAlways`: under
  `~Overlaps`. `SerialInv`: one command moves at a time, the file between its comparison
  and its write is the copy in hand, and an open coworker's copy has its repairs.
  `OfferedInv` (what is queued was offered so) and `AcceptInv` (an offered dispatch has
  reached the receiver or is ahead of the acceptance) rest on it.
- `CoworkersFollowAlways`: also under `~Kills`, and of coworkers that were not written
  `late`. `OnceInv`: a move has every dispatch once.
  `ReadInv`: coworkers of the dispatches ahead are as they were read. `FollowInv` says what
  holds inside a move: those not carried over yet are the ones it still has in hand.

**Registry** (`RegistryProofs`)

- `TypesHold`: no assumption.
- `RoleExclusiveAlways`, `ClaimLandsAlways`, `RolesImplemented`: under `Disciplined`, which
  is what section 4's registry entries show to be needed. `MutexInv`: the mutex is
  never stale under a live registration, and only one command is inside.
  `IdentityInv`: identities are never shared, and a process writes under one its agent
  answers to; one that is being left is nobody's and is re-keyed once.
  `RolesInv`: a registration about to rewrite other records has them as they are on
  disk, and so has a re-key the role it carries over; with it `RoleExclusive` is
  inductive. Records still to be swept are what the refinement mapping calls superseded.

**Renewal** (`RenewalProofs`)

- `TypesHold`: no assumption. `FromKnown` is needed for it: a hook that adopts knows
  whom it continues, because a record that may be claimed names somebody.
- `RoutesFollowAlways`: under `Orderly` (hooks one at a time, in the pane, not killed
  before the moves are over). `OneHook`: the only hook that runs is the last session's, and
  the record it holds is the one on disk. `LineInv` and `AllPlaced`: a route of the line is
  with the record's holder, or with the one whose routes the holder's hook is about to
  read, or among those it has read. `renewal_stranded` shows what a hook's death costs.
- `StaysElsewhereAlways`: under `Apart` alone. `SnapInv`: what a hook has read and not
  written is with a session of the pane.
- `ClearIsClaimedAlways`: under `Swift` and `~Overlap`. `Waiting`: while the deliverer
  waits, the record is there and no claim of it is confirmed, since the claimant takes
  no turn.
- `AnswerableAlways` (of `Messages`): under `CarriesAll`, which is `Orderly`, no hook death
  between the lineage entry and the ledger's move, and senders that record what they
  prompted before the pane is renewed (`SendsPromptly`). `Heir`: every session of the line
  is in the lineage of the record's holder, or of the session its hook has yet to name.
  `Booked`: a question sent is in the ledger of a session of that lineage, or in the
  hands of the hook that carries it (`OnTheWay` for those prompted and not recorded).
  `Lineage` is stated as the least set closed under the lineage file and not by
  recursion, so that `LineageHasSelf`, `LineageGoesBack` and `LineageGrows` follow
  without induction.

**Claim wait** (`ClaimWaitProofs`)

- `TypesHold` and `OnTimeAlways`: no assumption. `GivesUpUnderChurnAlways`: under
  `~Listens`, for every shortest and longest poll. `Accounted` says which leases fit into
  the time waited so far: each but the last takes no more than the longest ttl and what
  the poll after it is late (`Span`), each lost race no more than a shortest poll.

Left to TLC: liveness (`AbandonedLockIsRecovered`, `DeadWorkerIsSettled`,
`EveryStatusIsTold`, `ReadyIsDispatched`, `GetsItsWorker`, `TakeoverRecovers`,
`DeadMutexIsBroken`, `RequestIsDelivered`), which needs fairness and ENABLED. Every other
property of the passing runs is a theorem.


## 6. Limits

What the models leave out, and where the passing runs keep a known case away:

- *Lock*: `CrashOutsideMutex`, `Prompt` and `TimelyRelease` in the disciplined run;
  section 4 says why. A late release removes another agent's lock: the code
  compares the holder and unlinks in two steps. `claim-port` only asks for
  the next number when acquire says no.
- *Task*: a pane that vanished and whose loss nobody recorded is still closed by id; the
  property speaks of recorded closes. A worker that stops before confirmation
  (`earlyStop`) is not held to a report; a renewing conversation (`renewing`) and a torn
  report are kept out of the passing run. A wrap-up that dies before its sync leaves
  "dispatched" in plan.json for good, which readers see through because the status
  file is authoritative. A cancel of a task without an instruction and a clear of the
  worker's own status are in `roll_call` but not in `task_lifecycle`. Standalone
  dispatches and message bodies are not modelled.
- *Plan*: one command at a time in the passing run; with overlap, lost marks also break
  the cap. `clear-task-status.py` and the slug chosen for a re-dispatch are left out.
  A crash at the wrap-up sync is not repeated.
- *Launch*: one launcher in the foreground. The coordinator reruns it only when no
  receipt exists and the panes left open are closed, as dispatch-mechanics.md asks.
  Panes that Herdr would not close, or split without an answer, are exempt from two
  properties (section 4); the rerun goes on beside them.
- *Routes*: one handoff, no registration of the receiver. `Overlaps` and `Kills` are
  FALSE in the run (section 4). What proves an identity (process trees, registries,
  provider logs) is an input: a pane hosts a conversation or it does not.
- *Registry*: the scope text and names of a record, and what a directory listing shows.
  `Prompt`, `BreakAlone`, `RekeyApart` and the crash points keep section 4's cases out.
- *Renewal*: a standalone worker's record, whose claim moves neither routes nor lineage
  nor ledger (`renewal.py:369-371`); sessions outside Herdr, how tokens are counted, the
  Jev request of a Codex session, a worker's checkpoint notes. One pane; `Swift`,
  `Apart`, `SendsPromptly` and the death points keep section 4's cases out. A user's
  clear is possible at any idle moment.
- *Messages*: a peer that is not renewed; `inform`, references, bodies; the ledgers of
  dispatch instructions, which no renewal moves.
- *Roll call*: one dispatch; the coordinator's own liveness, `--mine`, panes kept at a
  startup gate, a worker that moved, and the rendering. A kept gate's pane id that was
  reused is still reported with that dispatch (`roll-call.py:156-177`).

Not modelled, and why, is listed for every component in `PROJECT.json`: queries without
state, pure validation and argument tables, pane geometry, installation helpers,
statistics, and transcript pruning, which rewrites data and coordinates nothing.


## 7. Plan

Done: lock and lease, claim wait, task, plan, launch, routes, registry and roles, renewal,
messages and roll call, with their proofs; task and plan against one abstract task. Next,
in this order:

1. **Renewal of workers**: the checkpoint before the record, and the record that stays
   when it fails; the guard's view of it.
2. **Roll call of several dispatches**, with the coordinator's liveness and kept panes.
3. **Launch**: the session a Claude pane shows late or never (`_bind_session`).
