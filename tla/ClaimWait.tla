------------------------------ MODULE ClaimWait ------------------------------
(***************************************************************************)
(* claim-resource.py wait (wait_for in resource_lock.py): a worker polls    *)
(* acquire until the resource is its own, or until its deadline, three      *)
(* times the largest ttl it has observed, is over.  The lock is taken at    *)
(* its word, as the Lease that ResourceLock implements; here others lease   *)
(* it, one after the other.                                                 *)
(***************************************************************************)
EXTENDS Lease

CONSTANTS
  Me,              \* the waiting worker
  MyTTL,           \* its --ttl-seconds
  MaxWait,         \* its --max-wait-seconds, or NoLimit
  NoLimit,
  ShortestNap,     \* the shortest poll, five seconds: it may outlast the lease it met
  LongestNap,      \* the longest poll: thirty seconds
  OutsideTTL,      \* the ttl reported for a port that something outside occupies
  Outside,         \* whether such occupants come and go
  Listens,         \* whether a holder of the resource occupies its port itself
  MaxLost, MaxLeases  \* bounds: polls lost to a race; leases granted to others

Churn == 3

ASSUME ClaimWaitAssumption ==
  /\ NoAgent \notin Agents /\ Me \in Agents
  /\ TTLs \subseteq Nat \ {0} /\ MyTTL \in Nat \ {0} /\ OutsideTTL \in Nat \ {0}
  /\ MaxWait \in Nat \cup {NoLimit} /\ NoLimit \notin Nat
  /\ ShortestNap \in Nat \ {0} /\ LongestNap \in Nat \ {0} /\ MaxLost \in Nat /\ MaxLeases \in Nat
  /\ Outside \in BOOLEAN /\ Listens \in BOOLEAN

VARIABLES
  ttl,      \* the ttl the current lease was granted with
  busy,     \* the port is occupied from outside
  pc,       \* ready, waiting, granted, or gaveUp
  elapsed,  \* since the wait began
  nap,      \* until the next poll
  seen,     \* max_ttl_seen
  lost,     \* polls that lost acquire's race
  leases,   \* history: leases of others since the wait began, the one it met included
  saw       \* history: whether a poll met an occupant from outside

vars == <<owner, left, ttl, busy, pc, elapsed, nap, seen, lost, leases, saw>>

Larger(a, b) == IF a >= b THEN a ELSE b
Smaller(a, b) == IF a <= b THEN a ELSE b

Init ==
  /\ LeaseInit /\ ttl = 0 /\ busy = FALSE
  /\ pc = "ready" /\ elapsed = 0 /\ nap = 0 /\ seen = MyTTL
  /\ lost = 0 /\ leases = 0 /\ saw = FALSE

(***************************************************************************)
(* The others, and time                                                     *)
(***************************************************************************)
Waiter == <<pc, elapsed, nap, seen, lost, saw>>

Compete(p) ==
  /\ p # Me /\ leases < MaxLeases
  /\ Take(p) /\ left' \in TTLs
  /\ ttl' = left' /\ leases' = leases + 1
  /\ UNCHANGED <<busy, Waiter>>

GivesBack ==
  /\ owner # Me /\ GiveBack
  /\ ttl' = 0
  /\ UNCHANGED <<busy, leases, Waiter>>

Occupy == Outside /\ busy' = ~busy /\ UNCHANGED <<owner, left, ttl, leases, Waiter>>

\* A poll that is due comes first.
Tick ==
  /\ pc = "waiting" => nap > 0
  /\ IF owner # NoAgent THEN Pass ELSE UNCHANGED <<owner, left>>
  /\ ttl' = IF owner # NoAgent /\ left = 1 THEN 0 ELSE ttl
  /\ IF pc = "waiting" THEN elapsed' = elapsed + 1 /\ nap' = nap - 1 ELSE UNCHANGED <<elapsed, nap>>
  /\ UNCHANGED <<busy, pc, seen, lost, leases, saw>>

(***************************************************************************)
(* wait_for                                                                 *)
(***************************************************************************)
Start ==
  /\ pc = "ready"
  /\ pc' = "waiting"
  /\ leases' = IF owner = NoAgent THEN 0 ELSE 1
  /\ UNCHANGED <<owner, left, ttl, busy, elapsed, nap, seen, lost, saw>>

\* acquire looks at the port before it looks at the lock file.
Masked == busy \/ (Listens /\ owner # NoAgent)
HeldTTL == IF Masked THEN OutsideTTL ELSE ttl

\* The time a lease has left is cut to whole seconds, so it may be called one less.
Retries == IF Masked THEN {ShortestNap}
           ELSE {Larger(ShortestNap, Smaller(LongestNap, r)) : r \in {left - 1, left}}

\* [mutant] the largest ttl seen, without the allowance for churn
DeadlineOfOne(s) == IF MaxWait = NoLimit THEN s ELSE Smaller(s, MaxWait)

Deadline(s) == IF MaxWait = NoLimit THEN Churn * s ELSE Smaller(Churn * s, MaxWait)

Due == pc = "waiting" /\ nap = 0

Granted ==
  /\ Due /\ ~Masked /\ owner = NoAgent
  /\ Take(Me) /\ left' = MyTTL /\ ttl' = MyTTL
  /\ pc' = "granted"
  /\ UNCHANGED <<busy, elapsed, nap, seen, lost, leases, saw>>

\* acquire lost its race twice over: poll again shortly, whatever the deadline.
Loses ==
  /\ Due /\ ~Masked /\ lost < MaxLost
  /\ lost' = lost + 1 /\ nap' = ShortestNap
  /\ UNCHANGED <<owner, left, ttl, busy, pc, elapsed, seen, leases, saw>>

\* [mutant] the last sleep is not cut to what is left of the budget
ContendedOversleeps ==
  /\ Due /\ (Masked \/ owner # NoAgent)
  /\ seen' = Larger(seen, HeldTTL)
  /\ saw' = (saw \/ busy)
  /\ IF Deadline(seen') - elapsed <= 0 THEN pc' = "gaveUp" /\ UNCHANGED nap
     ELSE nap' \in Retries /\ UNCHANGED pc
  /\ UNCHANGED <<owner, left, ttl, busy, elapsed, lost, leases>>

Contended ==
  /\ Due /\ (Masked \/ owner # NoAgent)
  /\ seen' = Larger(seen, HeldTTL)
  /\ saw' = (saw \/ busy)
  /\ LET budget == Deadline(seen') - elapsed IN
     IF budget <= 0 THEN pc' = "gaveUp" /\ UNCHANGED nap
     ELSE (\E r \in Retries : nap' = Smaller(r, budget)) /\ UNCHANGED pc
  /\ UNCHANGED <<owner, left, ttl, busy, elapsed, lost, leases>>

Poll == Granted \/ Loses \/ Contended

Next ==
  \/ Start \/ Poll \/ Tick \/ Occupy \/ GivesBack
  \/ \E p \in Agents : Compete(p)

Spec == Init /\ [][Next]_vars

(***************************************************************************)
(* Properties                                                               *)
(***************************************************************************)
\* The shapes of the lock, of the wait and of its counters.
TypeOK ==
  /\ owner \in Agents \cup {NoAgent} /\ left \in Nat /\ ttl \in Nat /\ busy \in BOOLEAN
  /\ pc \in {"ready", "waiting", "granted", "gaveUp"}
  /\ elapsed \in Nat /\ nap \in Nat /\ seen \in Nat \ {0}
  /\ lost \in Nat /\ leases \in Nat /\ saw \in BOOLEAN

\* "guaranteeing termination under churn", "exits nonzero once reached": the wait is over
\* by its deadline, except for the polls that lost a race, which look at no deadline.
OnTime == elapsed + nap <= Deadline(seen) + lost * ShortestNap

\* Without --max-wait-seconds a single holder that is "legitimately slow" is waited out, and
\* only churn ends the wait: when the longest lease met is no shorter than the shortest poll,
\* three holders at least had the resource one after the other (a lost race stands for one).
\* Four would be too many to ask: the polls that outlast the leases they met come out of the
\* budget, so a third holder in a row may be given up on before its ttl is over.
GivesUpUnderChurn ==
  pc = "gaveUp" /\ MaxWait = NoLimit /\ ~saw =>
    /\ leases + lost >= 2
    /\ seen >= ShortestNap => leases + lost >= Churn
=============================================================================
