------------------------------ MODULE MCRoutes ------------------------------
(* Routes for TLC: a source and another coordinator, the receiver's tab and a *)
(* pane to resume in; two dispatches, one of them with a coworker.            *)
EXTENDS Routes, TLC

CONSTANTS d1, d2, c1, S, R, T, N

Other   == {T}
Ends    == {S, R}
Two     == {d1, d2}
One     == {c1}
Under   == c1 :> d1
FourPanes == {S, R, T, N}
Mine    == [st |-> "open", pane |-> S]
Waiting == [st |-> "pending", pane |-> S]
Starts  == {[runs |-> (d1 :> Mine) @@ (d2 :> Mine), helped |-> {c1}],
            [runs |-> (d1 :> Mine) @@ (d2 :> Waiting), helped |-> {}]}
TwoOpen == (S :> 1) @@ (T :> 2) @@ (R :> 0) @@ (N :> 0)
=============================================================================
