--------------------------- MODULE ClaimWaitProofs ---------------------------
(***************************************************************************)
(* Theorems about ClaimWait, for every set of workers, every ttl and every *)
(* limit; the one about giving up is for resources whose holder does not   *)
(* occupy the port itself.                                                 *)
(***************************************************************************)
EXTENDS ClaimWait, TLAPS

LEMMA LargerLargest == \A a, b \in Int : Larger(a, b) \in Int /\ Larger(a, b) >= a /\ Larger(a, b) >= b
  BY DEF Larger

LEMMA SmallerSmallest == \A a, b \in Int :
  Smaller(a, b) \in {a, b} /\ Smaller(a, b) <= a /\ Smaller(a, b) <= b
  BY DEF Smaller

\* The deadline never comes nearer as longer leases are observed.
LEMMA DeadlineGrows ==
  \A s, t \in Nat : /\ Deadline(s) \in Nat
                    /\ s <= t => Deadline(s) <= Deadline(t)
  BY ClaimWaitAssumption DEF Deadline, Smaller, Churn

LEMMA BoundsAreWhole == Bounds \subseteq Nat \ {0}
  BY ClaimWaitAssumption DEF Bounds

\* A lease that is held has time left, and no more than it was granted with.
LeaseRuns ==
  /\ owner = NoAgent => left = 0
  /\ owner # NoAgent => left >= 1 /\ left <= ttl

(***************************************************************************)
(* How long the wait can have lasted.  The current lease either was not    *)
(* met by a poll yet, so that only the earlier ones account for the time   *)
(* waited, or it was, and then the poll after its end is less than a        *)
(* shortest poll late.  A lease and the poll that outlasts it take a Span,  *)
(* a lost race a shortest poll.                                             *)
(***************************************************************************)
Span == seen + ShortestNap - 1
Extra == lost * ShortestNap
Earlier == elapsed + nap <= (leases - 1) * Span + Extra
Met == elapsed + left <= (leases - 1) * Span + seen + Extra /\ nap < left + ShortestNap

Accounted ==
  /\ pc = "ready" => elapsed = 0 /\ nap = 0
  /\ pc = "waiting" /\ ~saw =>
       IF owner = NoAgent THEN elapsed + nap <= leases * Span + Extra
       ELSE leases >= 1 /\ (Earlier \/ Met)

Inv == TypeOK /\ LeaseRuns /\ OnTime

LEMMA InitInv == Init => Inv
  <1> SUFFICES ASSUME Init PROVE Inv
    OBVIOUS
  <1>1. Deadline(seen) \in Nat
    BY ClaimWaitAssumption, DeadlineGrows DEF Init
  <1>2. OnTime
    <2>1. lost * ShortestNap = 0
      BY ClaimWaitAssumption DEF Init
    <2> QED
      BY <1>1, <2>1 DEF Init, OnTime
  <1> QED
    BY <1>2, ClaimWaitAssumption DEF Init, LeaseInit, Inv, TypeOK, LeaseRuns

\* What one lease more, or a longer one, makes of a product.
LEMMA ProductGrows ==
  ASSUME NEW n \in Nat, NEW s \in Nat, NEW t \in Nat, s <= t
  PROVE  n * s \in Nat /\ n * s <= n * t /\ (n + 1) * s = n * s + s
  OBVIOUS

LEMMA ProductIsWhole == ASSUME NEW n \in Nat, NEW s \in Nat PROVE n * s \in Nat
  OBVIOUS

LEMMA OneLess ==
  ASSUME NEW n \in Nat, n >= 1, NEW s \in Nat
  PROVE  (n - 1) * s \in Nat /\ n * s = (n - 1) * s + s
  OBVIOUS

\* A poll after a meeting comes no sooner than the shortest, and outlasts the lease it met by
\* less than that.
LEMMA RetriesArePolls ==
  ASSUME left \in Nat
  PROVE  /\ Retries \subseteq Nat \ {0}
         /\ ~Masked /\ left >= 1 => \A r \in Retries : r < left + ShortestNap
  BY ClaimWaitAssumption DEF Retries, Larger, Smaller

LEMMA ContendedInv ==
  ASSUME Inv, Contended
  PROVE  /\ Inv' /\ seen' >= seen /\ seen' >= HeldTTL
         /\ pc' = "gaveUp" => nap' = 0 /\ elapsed' >= Deadline(seen')
         /\ pc' = "waiting" => \E r \in Retries : nap' <= r
         /\ pc' \in {"waiting", "gaveUp"}
  <1> USE DEF Inv
  <1>1. HeldTTL \in Nat /\ Retries \subseteq Nat \ {0}
    <2>1. HeldTTL \in Nat
      BY ClaimWaitAssumption DEF HeldTTL, TypeOK
    <2>2. Retries \subseteq Nat \ {0}
      BY RetriesArePolls DEF TypeOK
    <2> QED
      BY <2>1, <2>2
  <1>2. seen' \in Nat \ {0} /\ seen' >= seen /\ seen' >= HeldTTL
    <2>1. seen' = Larger(seen, HeldTTL)
      BY DEF Contended
    <2>2. seen \in Nat \ {0}
      BY DEF TypeOK
    <2>3. /\ Larger(seen, HeldTTL) \in Int
          /\ Larger(seen, HeldTTL) >= seen /\ Larger(seen, HeldTTL) >= HeldTTL
      BY <1>1, <2>2, LargerLargest
    <2> QED
      BY <2>1, <2>2, <2>3
  <1>3. Deadline(seen) \in Nat /\ Deadline(seen') \in Nat
    BY <1>2, DeadlineGrows DEF TypeOK
  <1>4. Deadline(seen) <= Deadline(seen')
    BY <1>2, DeadlineGrows DEF TypeOK
  <1> DEFINE budget == Deadline(seen') - elapsed
  <1>6. budget \in Int
    BY <1>3 DEF TypeOK
  <1>7. /\ pc = "waiting" /\ nap = 0
        /\ IF budget <= 0 THEN pc' = "gaveUp" /\ UNCHANGED nap
           ELSE (\E r \in Retries : nap' = Smaller(r, budget)) /\ UNCHANGED pc
        /\ UNCHANGED <<owner, left, ttl, busy, elapsed, lost, leases>>
    BY DEF Contended, Due
  <1>8. nap' \in Nat /\ (budget > 0 => nap' <= budget /\ \E r \in Retries : nap' <= r)
    <2>1. CASE budget > 0
      <3>1. PICK r \in Retries : nap' = Smaller(r, budget)
        BY <1>6, <1>7, <2>1
      <3>2. r \in Nat \ {0}
        BY <1>1
      <3>3. nap' \in {r, budget} /\ nap' <= r /\ nap' <= budget
        BY <1>6, <3>1, <3>2, SmallerSmallest
      <3> QED
        BY <1>6, <2>1, <3>2, <3>3
    <2>2. CASE ~(budget > 0)
      BY <1>6, <1>7, <2>2 DEF TypeOK
    <2> QED
      BY <2>1, <2>2
  <1>9. TypeOK'
    BY <1>2, <1>7, <1>8 DEF TypeOK, Contended
  <1>10. LeaseRuns'
    BY <1>7 DEF LeaseRuns
  <1>11. lost * ShortestNap \in Nat
    BY ClaimWaitAssumption, ProductIsWhole DEF TypeOK
  <1>12. OnTime'
    <2> DEFINE extra == lost * ShortestNap
    <2>0. extra \in Nat /\ elapsed + nap <= Deadline(seen) + extra
      BY <1>11 DEF OnTime
    <2>1. elapsed + nap' <= Deadline(seen') + extra
      <3> HIDE DEF extra
      <3>1. CASE budget <= 0
        BY <2>0, <3>1, <1>3, <1>4, <1>7 DEF TypeOK
      <3>2. CASE budget > 0
        BY <2>0, <3>2, <1>3, <1>7, <1>8 DEF TypeOK
      <3> QED
        BY <3>1, <3>2, <1>6
    <2>2. UNCHANGED <<elapsed, lost>>
      BY <1>7
    <2> QED
      BY <2>1, <2>2 DEF OnTime, Deadline
  <1>13. budget <= 0 => elapsed' >= Deadline(seen')
    BY <1>3, <1>7 DEF TypeOK
  <1> QED
    BY <1>2, <1>6, <1>7, <1>8, <1>9, <1>10, <1>12, <1>13

LEMMA StepInv == Inv /\ [Next]_vars => Inv'
  <1> SUFFICES ASSUME Inv, [Next]_vars PROVE Inv'
    OBVIOUS
  <1>d. Deadline(seen) \in Nat
    BY DeadlineGrows DEF Inv, TypeOK
  <1> USE <1>d, ClaimWaitAssumption, BoundsAreWhole DEF Inv, TypeOK, LeaseRuns, OnTime
  <1>1. CASE Start
    BY <1>1 DEF Start, Deadline
  <1>2. CASE Granted
    BY <1>2 DEF Granted, Take, Deadline
  <1>3. CASE Loses
    BY <1>3 DEF Loses, Due, Deadline
  <1>4. CASE Contended
    BY <1>4, ContendedInv
  <1>5. CASE Tick
    <2>1. CASE owner # NoAgent
      BY <1>5, <2>1 DEF Tick, Pass, Deadline
    <2>2. CASE owner = NoAgent
      BY <1>5, <2>2 DEF Tick, Deadline
    <2> QED
      BY <2>1, <2>2
  <1>6. CASE Occupy
    BY <1>6 DEF Occupy, Waiter, Deadline
  <1>7. CASE GivesBack
    BY <1>7 DEF GivesBack, GiveBack, Waiter, Deadline
  <1>8. ASSUME NEW p \in Agents, Compete(p) PROVE Inv'
    BY <1>8 DEF Compete, Take, Waiter, Deadline
  <1>9. CASE UNCHANGED vars
    BY <1>9 DEF vars, Deadline
  <1> QED
    BY <1>1, <1>2, <1>3, <1>4, <1>5, <1>6, <1>7, <1>8, <1>9 DEF Next, Poll

\* The shapes of the lock, of the wait and of its counters (wait_for).
THEOREM TypesHold == Spec => []TypeOK
  <1>1. Inv => TypeOK
    BY DEF Inv
  <1> QED
    BY <1>1, InitInv, StepInv, PTL DEF Spec

\* The wait is over by its deadline, but for the polls that lost acquire's race.
THEOREM OnTimeAlways == Spec => []OnTime
  <1>1. Inv => OnTime
    BY DEF Inv
  <1> QED
    BY <1>1, InitInv, StepInv, PTL DEF Spec

(***************************************************************************)
(* Giving up                                                               *)
(***************************************************************************)
LEMMA SpanGrows ==
  ASSUME Inv, Contended
  PROVE  /\ Span \in Nat /\ Span' \in Nat /\ Span <= Span' /\ Extra' = Extra /\ Extra \in Nat
         /\ seen' \in Nat \ {0} /\ seen <= seen' /\ Span' = seen' + ShortestNap - 1
  <1>1. seen' >= seen /\ seen' \in Nat \ {0} /\ seen \in Nat /\ lost' = lost
    BY ContendedInv DEF Inv, TypeOK, Contended
  <1>2. Extra' = Extra /\ Extra \in Nat
    BY <1>1, ProductIsWhole, ClaimWaitAssumption DEF Extra, Inv, TypeOK
  <1>3. Span = seen + ShortestNap - 1 /\ Span' = seen' + ShortestNap - 1
    BY DEF Span
  <1>4. Span \in Nat /\ Span' \in Nat /\ Span <= Span'
    <2>1. ShortestNap \in Nat /\ ShortestNap >= 1
      BY ClaimWaitAssumption
    <2>2. \A a, b, p \in Nat : a <= b /\ p >= 1 =>
            a + p - 1 \in Nat /\ b + p - 1 \in Nat /\ a + p - 1 <= b + p - 1
      OBVIOUS
    <2>3. seen' \in Nat
      BY <1>1
    <2>4. /\ seen + ShortestNap - 1 \in Nat /\ seen' + ShortestNap - 1 \in Nat
          /\ seen + ShortestNap - 1 <= seen' + ShortestNap - 1
      BY <1>1, <2>1, <2>2, <2>3
    <2> QED
      BY <1>3, <2>4
  <1> QED
    BY <1>1, <1>2, <1>3, <1>4

\* A poll that meets a holder accounts for its lease.
LEMMA PollMeets ==
  ASSUME Inv, Accounted, ~Listens, Contended, ~saw', owner # NoAgent
  PROVE  elapsed + left <= (leases - 1) * Span' + seen' + Extra /\ leases >= 1
  <1>1. /\ pc = "waiting" /\ nap = 0 /\ ~saw /\ ~busy
        /\ elapsed \in Nat /\ left \in Nat /\ left <= ttl /\ ttl \in Nat /\ leases \in Nat
    BY DEF Contended, Due, Inv, TypeOK, LeaseRuns
  <1>2. left <= seen'
    <2>1. HeldTTL = ttl
      BY <1>1 DEF HeldTTL, Masked
    <2>2. seen' \in Nat /\ seen' >= HeldTTL
      BY ContendedInv, SpanGrows
    <2> QED
      BY <1>1, <2>1, <2>2
  <1>3. leases >= 1 /\ (Earlier \/ Met)
    BY <1>1 DEF Accounted
  <1> DEFINE before == (leases - 1) * Span  before2 == (leases - 1) * Span'
  <1>4. before \in Nat /\ before2 \in Nat /\ before <= before2
    <2>1. leases - 1 \in Nat
      BY <1>1, <1>3
    <2> QED
      BY <2>1, SpanGrows, ProductGrows
  <1>5. elapsed <= before + Extra \/ elapsed + left <= before + seen + Extra
    <2>1. Earlier => elapsed <= before + Extra
      BY <1>1 DEF Earlier
    <2>2. Met => elapsed + left <= before + seen + Extra
      BY DEF Met
    <2> QED
      BY <1>3, <2>1, <2>2
  <1> HIDE DEF before, before2
  <1>6. elapsed + left <= before2 + seen' + Extra
    <2>1. seen \in Nat
      BY DEF Inv, TypeOK
    <2> QED
      BY <1>1, <1>2, <1>4, <1>5, <2>1, SpanGrows
  <1> QED
    BY <1>3, <1>6 DEF before2

\* Three times the longest lease is more than one of them can account for, and more than
\* two of them unless it is shorter than a poll.
LEMMA ThreeRunOut ==
  ASSUME NEW n \in Nat, NEW s \in Nat, NEW o \in Nat, NEW e \in Nat, NEW l \in Nat,
         NEW p \in Nat, NEW w \in Nat, w = s + p - 1,
         n >= 1, s >= 1, l >= 1, p >= 1, e + l <= (n - 1) * w + s + o * p, e >= 3 * s
  PROVE  n + o >= 2 /\ (s >= p => n + o >= 3)
  <1>1. CASE n = 1 /\ o = 0
    <2>1. (n - 1) * w = 0 /\ o * p = 0
      BY <1>1
    <2> QED
      BY <2>1
  <1>2. CASE n = 1 /\ o = 1
    <2>1. (n - 1) * w = 0 /\ o * p = p
      BY <1>2
    <2> QED
      BY <1>2, <2>1
  <1>3. CASE n = 2 /\ o = 0
    <2>1. (n - 1) * w = w /\ o * p = 0
      BY <1>3
    <2> QED
      BY <1>3, <2>1
  <1> QED
    BY <1>1, <1>2, <1>3

Waited == Inv /\ Accounted /\ GivesUpUnderChurn

\* What a poll leaves behind: the time waited accounted for, and enough leases if it gives up.
LEMMA ContendedWaited ==
  ASSUME Waited, ~Listens, Contended
  PROVE  Accounted' /\ GivesUpUnderChurn'
  <1> USE DEF Inv, TypeOK, LeaseRuns, Waited
  <1>0. pc' \in {"waiting", "gaveUp"}
    BY ContendedInv
  <1>1. CASE saw'
    BY <1>0, <1>1 DEF Accounted, GivesUpUnderChurn
  <1>2. CASE ~saw'
    <2>1. owner # NoAgent /\ left >= 1
      BY <1>2 DEF Contended, Masked
    <2>2. elapsed + left <= (leases - 1) * Span' + seen' + Extra /\ leases >= 1
      BY <1>2, <2>1, PollMeets
    <2>3. UNCHANGED <<owner, left, elapsed, lost, leases>> /\ seen' \in Nat \ {0}
      BY ContendedInv DEF Contended
    <2>4. nap' < left + ShortestNap
      <3>1. ~Masked
        BY <1>2 DEF Masked, Contended
      <3>2. nap' = 0 \/ \E r \in Retries : nap' <= r
        BY <1>0, ContendedInv
      <3>3. nap' \in Nat
        BY ContendedInv
      <3> QED
        BY <2>1, <3>1, <3>2, <3>3, RetriesArePolls, ClaimWaitAssumption
    <2>5. Met'
      BY <2>2, <2>3, <2>4, SpanGrows DEF Met
    <2>6. Accounted'
      BY <1>0, <2>1, <2>2, <2>3, <2>5 DEF Accounted
    <2>7. ASSUME pc' = "gaveUp", MaxWait = NoLimit
          PROVE  leases + lost >= 2 /\ (seen' >= ShortestNap => leases + lost >= 3)
      <3>1. Deadline(seen') = 3 * seen'
        BY <2>7 DEF Deadline, Churn
      <3>2. elapsed >= 3 * seen'
        BY <2>3, <2>7, <3>1, ContendedInv
      <3>3. /\ leases \in Nat /\ seen' \in Nat /\ lost \in Nat /\ elapsed \in Nat /\ left \in Nat
            /\ seen' >= 1 /\ ShortestNap \in Nat /\ ShortestNap >= 1
        BY <2>3, ClaimWaitAssumption
      <3>4. Span' \in Nat /\ Span' = seen' + ShortestNap - 1
        BY SpanGrows
      <3>5. elapsed + left <= (leases - 1) * Span' + seen' + lost * ShortestNap
        BY <2>2 DEF Extra
      <3> HIDE DEF Inv, TypeOK, LeaseRuns, Waited
      <3> QED
        BY <2>1, <2>2, <3>2, <3>3, <3>4, <3>5, ThreeRunOut
    <2>8. GivesUpUnderChurn'
      BY <2>3, <2>7 DEF GivesUpUnderChurn, Churn
    <2> QED
      BY <2>6, <2>8
  <1> QED
    BY <1>1, <1>2

LEMMA WaitedStep == ~Listens /\ Waited /\ [Next]_vars => Waited'
  <1> SUFFICES ASSUME ~Listens, Waited, [Next]_vars PROVE Accounted' /\ GivesUpUnderChurn'
    BY StepInv DEF Waited
  <1> DEFINE all == leases * Span  before == (leases - 1) * Span
  <1>s. Span \in Nat /\ seen \in Nat /\ Span = seen + ShortestNap - 1 /\ ShortestNap >= 1 /\ ShortestNap \in Nat
    BY ClaimWaitAssumption DEF Waited, Inv, TypeOK, Span
  <1>e. Extra \in Nat
    BY ProductIsWhole, ClaimWaitAssumption DEF Waited, Inv, TypeOK, Extra
  <1>n. all \in Nat /\ (leases >= 1 => before \in Nat /\ all = before + Span)
    BY <1>s, ProductIsWhole, OneLess DEF Waited, Inv, TypeOK
  <1>f. ASSUME UNCHANGED <<seen, lost, leases>>
        PROVE  Span' = Span /\ Extra' = Extra /\ leases' * Span' = all /\ (leases' - 1) * Span' = before
    BY <1>f DEF Span, Extra
  <1>t. /\ elapsed \in Nat /\ nap \in Nat /\ left \in Nat /\ leases \in Nat /\ lost \in Nat
        /\ owner = NoAgent => left = 0
        /\ owner # NoAgent => left >= 1
    BY DEF Waited, Inv, TypeOK, LeaseRuns
  <1>g. /\ pc = "waiting" /\ ~saw /\ owner = NoAgent => elapsed + nap <= all + Extra
        /\ pc = "waiting" /\ ~saw /\ owner # NoAgent =>
             /\ leases >= 1
             /\ \/ elapsed + nap <= before + Extra
                \/ elapsed + left <= before + seen + Extra /\ nap < left + ShortestNap
    BY DEF Waited, Accounted, Earlier, Met
  <1>1. CASE Start
    <2>1. 0 * Span' = 0 /\ (1 - 1) * Span' = 0 /\ Extra' = Extra
      BY <1>1, <1>s DEF Start, Span, Extra
    <2>2. elapsed' = 0 /\ nap' = 0 /\ pc' = "waiting" /\ leases' = IF owner' = NoAgent THEN 0 ELSE 1
      BY <1>1 DEF Start, Waited, Accounted
    <2>3. Accounted'
      <3>1. CASE owner' = NoAgent
        BY <1>e, <2>1, <2>2, <3>1 DEF Accounted
      <3>2. CASE owner' # NoAgent
        BY <1>e, <2>1, <2>2, <3>2 DEF Accounted, Earlier
      <3> QED
        BY <3>1, <3>2
    <2> QED
      BY <2>2, <2>3 DEF GivesUpUnderChurn
  <1>2. CASE Granted
    BY <1>2 DEF Granted, Due, Accounted, GivesUpUnderChurn
  <1>3. CASE Loses
    <2>1. /\ pc = "waiting" /\ nap = 0 /\ lost' = lost + 1 /\ nap' = ShortestNap
          /\ UNCHANGED <<owner, left, pc, elapsed, seen, leases, saw>>
      BY <1>3 DEF Loses, Due
    <2>2. Extra' = Extra + ShortestNap
      BY <1>s, <1>t, <2>1, ProductGrows DEF Extra
    <2>3. Span' = Span /\ leases' * Span' = all /\ (leases' - 1) * Span' = before
      BY <2>1 DEF Span
    <2>4. Accounted'
      <3>1. CASE saw
        BY <2>1, <3>1 DEF Accounted
      <3>2. CASE ~saw /\ owner = NoAgent
        <4> HIDE DEF all, before
        <4>1. elapsed' + nap' <= all + Extra'
          BY <1>e, <1>g, <1>n, <1>s, <1>t, <2>1, <2>2, <3>2
        <4> QED
          BY <2>1, <2>3, <3>2, <4>1 DEF Accounted
      <3>3. CASE ~saw /\ owner # NoAgent
        <4> HIDE DEF all, before
        <4>1. /\ leases >= 1
              /\ \/ elapsed' + nap' <= before + Extra'
                 \/ elapsed' + left' <= before + seen' + Extra' /\ nap' < left' + ShortestNap
          BY <1>e, <1>g, <1>n, <1>s, <1>t, <2>1, <2>2, <3>3
        <4> QED
          BY <2>1, <2>3, <3>3, <4>1 DEF Accounted, Earlier, Met
      <3> QED
        BY <3>1, <3>2, <3>3
    <2> QED
      BY <2>1, <2>4 DEF GivesUpUnderChurn
  <1>4. CASE Contended
    BY <1>4, ContendedWaited
  <1>5. CASE Tick
    <2>1. /\ UNCHANGED <<pc, seen, lost, leases, saw>>
          /\ IF pc = "waiting" THEN nap > 0 /\ elapsed' = elapsed + 1 /\ nap' = nap - 1
             ELSE UNCHANGED <<elapsed, nap>>
          /\ IF owner # NoAgent THEN left' = left - 1 /\ owner' = IF left = 1 THEN NoAgent ELSE owner
             ELSE UNCHANGED <<owner, left>>
      BY <1>5 DEF Tick, Pass
    <2>2. Span' = Span /\ Extra' = Extra /\ leases' * Span' = all /\ (leases' - 1) * Span' = before
      BY <1>f, <2>1
    <2>3. CASE pc # "waiting" \/ saw
      BY <2>1, <2>3 DEF Accounted, GivesUpUnderChurn, Waited
    <2>4. CASE pc = "waiting" /\ ~saw /\ owner' = NoAgent
      <3> HIDE DEF all, before
      <3>1. elapsed' + nap' <= all + Extra
        BY <1>e, <1>g, <1>n, <1>s, <1>t, <2>1, <2>4
      <3> QED
        BY <2>1, <2>2, <2>4, <3>1 DEF Accounted, GivesUpUnderChurn
    <2>5. CASE pc = "waiting" /\ ~saw /\ owner' # NoAgent
      <3> HIDE DEF all, before
      <3>1. owner # NoAgent
        BY <2>1, <2>5
      <3>2. /\ leases' >= 1
            /\ \/ elapsed' + nap' <= before + Extra
               \/ elapsed' + left' <= before + seen' + Extra /\ nap' < left' + ShortestNap
        BY <1>e, <1>g, <1>n, <1>s, <1>t, <2>1, <2>5, <3>1
      <3> QED
        BY <2>1, <2>2, <2>5, <3>2 DEF Accounted, GivesUpUnderChurn, Earlier, Met
    <2> QED
      BY <2>3, <2>4, <2>5
  <1>6. CASE Occupy
    <2>1. UNCHANGED <<owner, left, pc, elapsed, nap, seen, lost, leases, saw>>
      BY <1>6 DEF Occupy, Waiter
    <2> QED
      BY <2>1, <1>f DEF Waited, Accounted, GivesUpUnderChurn, Earlier, Met
  <1>7. CASE GivesBack
    <2>1. /\ owner # NoAgent /\ owner' = NoAgent /\ left' = 0
          /\ UNCHANGED <<pc, elapsed, nap, seen, lost, leases, saw>>
      BY <1>7 DEF GivesBack, GiveBack, Waiter
    <2>2. Extra' = Extra /\ leases' * Span' = all
      BY <1>f, <2>1
    <2> HIDE DEF all, before
    <2>3. pc = "waiting" /\ ~saw => elapsed + nap <= all + Extra
      BY <1>e, <1>g, <1>n, <1>s, <1>t, <2>1
    <2> QED
      BY <2>1, <2>2, <2>3 DEF Waited, Accounted, GivesUpUnderChurn
  <1>8. ASSUME NEW p \in Agents, Compete(p) PROVE Accounted' /\ GivesUpUnderChurn'
    <2>1. /\ owner = NoAgent /\ owner' # NoAgent /\ leases' = leases + 1 /\ leases' - 1 = leases
          /\ UNCHANGED <<pc, elapsed, nap, seen, lost, saw>>
      BY <1>8, <1>t, ClaimWaitAssumption DEF Compete, Take, Waiter
    <2>2. Span' = Span /\ Extra' = Extra /\ (leases' - 1) * Span' = all
      BY <2>1 DEF Span, Extra
    <2>3. pc' = "waiting" /\ ~saw' => Earlier'
      BY <1>g, <2>1, <2>2 DEF Earlier
    <2>4. leases' >= 1 /\ Accounted'
      BY <1>t, <2>1, <2>3 DEF Accounted, Waited
    <2>5. GivesUpUnderChurn'
      BY <1>t, <2>1 DEF GivesUpUnderChurn, Waited, Churn
    <2> QED
      BY <2>4, <2>5
  <1>9. CASE UNCHANGED vars
    BY <1>9, <1>f DEF vars, Waited, Accounted, GivesUpUnderChurn, Earlier, Met
  <1> QED
    BY <1>1, <1>2, <1>3, <1>4, <1>5, <1>6, <1>7, <1>8, <1>9 DEF Next, Poll

\* When a holder does not mask its lock by listening, wait_for gives up without a limit of its
\* own never on the only holder it met, and only after three of them unless all the leases are
\* shorter than the shortest poll.
THEOREM GivesUpUnderChurnAlways == ASSUME ~Listens PROVE Spec => []GivesUpUnderChurn
  <1>1. Init => Waited
    BY InitInv DEF Init, Waited, Accounted, GivesUpUnderChurn
  <1>2. Waited /\ [Next]_vars => Waited'
    BY WaitedStep
  <1>3. Waited => GivesUpUnderChurn
    BY DEF Waited
  <1> QED
    BY <1>1, <1>2, <1>3, PTL DEF Spec
=============================================================================
