-------------------------------- MODULE Roles --------------------------------
(***************************************************************************)
(* What the orchestrator registry promises about named roles: a role has    *)
(* one holder at most, taken only by claiming it or by inheriting it from   *)
(* the conversation one continues.  A holder may lose it at any time.       *)
(***************************************************************************)
CONSTANTS Keys, RoleNames, NoRole

VARIABLE role     \* the role each session identity holds, or NoRole

Init == role = [k \in Keys |-> NoRole]

\* Claimed by k: nobody else holds it from now on.
Claim(k, r) ==
  role' = [j \in Keys |-> IF j = k THEN r ELSE IF role[j] = r THEN NoRole ELSE role[j]]

\* Released, or the record removed.
Drop(ks) == role' = [j \in Keys |-> IF j \in ks THEN NoRole ELSE role[j]]

\* A renewed conversation k takes over what its predecessor j held.
Inherit(j, k) ==
  role' = [role EXCEPT ![k] = role[j], ![j] = NoRole]

Next ==
  \/ \E k \in Keys, r \in RoleNames : Claim(k, r)
  \/ \E ks \in SUBSET Keys : Drop(ks)
  \/ \E j, k \in Keys : j # k /\ Inherit(j, k)

Spec == Init /\ [][Next]_role
=============================================================================
