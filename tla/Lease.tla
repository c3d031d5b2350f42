-------------------------------- MODULE Lease --------------------------------
(***************************************************************************)
(* What claim-resource promises a worker about one resource: at any time   *)
(* at most one agent holds it, a hold ends when its holder gives it back   *)
(* or when its ttl runs out, and nothing else takes it away or stretches   *)
(* it (the note_to_holder that granted() returns, resource_lock.py).       *)
(***************************************************************************)
EXTENDS Integers

CONSTANTS Agents, NoAgent, TTLs

VARIABLES owner, left

Bounds == UNION {1 .. t : t \in TTLs}

LeaseInit == owner = NoAgent /\ left = 0

Take(p) ==
  /\ owner = NoAgent
  /\ owner' = p
  /\ left' \in Bounds

GiveBack ==
  /\ owner # NoAgent
  /\ owner' = NoAgent
  /\ left' = 0

Pass ==
  /\ owner # NoAgent
  /\ left' = left - 1
  /\ owner' = IF left = 1 THEN NoAgent ELSE owner

LeaseNext == Pass \/ GiveBack \/ \E p \in Agents : Take(p)

LeaseSpec == LeaseInit /\ [][LeaseNext]_<<owner, left>>
==============================================================================
