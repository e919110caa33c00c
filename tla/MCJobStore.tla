----------------------------- MODULE MCJobStore -----------------------------
(* A small instance of JobStore for TLC. *)
EXTENDS JobStore, TLC

CONSTANTS w1, w2, t1, t2

OneType == (1 :> "research") @@ (2 :> "research")
=============================================================================
