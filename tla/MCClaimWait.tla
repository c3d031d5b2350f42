---------------------------- MODULE MCClaimWait -----------------------------
(* ClaimWait for TLC: two competitors with short and long leases. *)
EXTENDS ClaimWait, TLC
=============================================================================
