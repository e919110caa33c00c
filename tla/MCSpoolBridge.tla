--------------------------- MODULE MCSpoolBridge ---------------------------
(* Small instances of SpoolBridge for TLC. *)
EXTENDS SpoolBridge, TLC

CONSTANTS c1, c2, c3, key, own

(* Two calls of one key, and a more urgent one without. *)
SharedKey == (c1 :> key) @@ (c2 :> key) @@ (c3 :> own)
Urgent == (c1 :> 2) @@ (c2 :> 2) @@ (c3 :> 1)
=============================================================================
