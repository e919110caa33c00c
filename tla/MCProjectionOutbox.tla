------------------------- MODULE MCProjectionOutbox -------------------------
(* Small instances of ProjectionOutbox for TLC. *)
EXTENDS ProjectionOutbox, TLC

CONSTANTS o1, o2, p1, p2, p3

(* p1 and p2 run under one worker_id: the second was started while the     *)
(* first was still at work.                                                *)
SharedId == (p1 :> "worker-a") @@ (p2 :> "worker-a")
OwnIds == (p1 :> "worker-a") @@ (p2 :> "worker-b")
=============================================================================
