----------------------------- MODULE MCRegistry -----------------------------
(* Registry for TLC: agent A runs two commands side by side, agent B one; A     *)
(* shows its conversation id late, and each may be renewed.                     *)
EXTENDS Registry, TLC

CONSTANTS A, B, p1, p2, p3, k1, k2, k3

TwoAgents  == {A, B}
ThreeKeys  == {k1, k2, k3}
AtFirst    == (A :> k1) @@ (B :> k2)
ThreeProcs == {p1, p2, p3}
Does       == (p1 :> {"register", "renew"}) @@ (p2 :> {"release", "auto"}) @@ (p3 :> {"register"})
Whose      == (p1 :> A) @@ (p2 :> A) @@ (p3 :> B)

\* A death between writing the claim and revoking the others, or between the two writes
\* of a re-key, leaves two holders; one that has yet to touch a file changes nothing.
SafePoints == {"write", "unlock", "relWrite", "keyDump"}
=============================================================================
