--------------------------- MODULE MCOrderLifecycle ---------------------------
(* Small instances of OrderLifecycle for TLC. *)
EXTENDS OrderLifecycle, TLC

CONSTANTS q1, q2, q3, v1, v2

ThreeTimes == (q1 :> 1) @@ (q2 :> 1) @@ (q3 :> 2)
ThreeSizes == (q1 :> 1) @@ (q2 :> 2) @@ (q3 :> 3)
ThreePrices == (q1 :> 107) @@ (q2 :> 100) @@ (q3 :> 104)
=============================================================================
