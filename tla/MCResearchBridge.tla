-------------------------- MODULE MCResearchBridge --------------------------
(* A small instance of ResearchBridge for TLC. *)
EXTENDS ResearchBridge, TLC

CONSTANTS c1, c2, h1, h2

(* One call and one request each. *)
Calls == {c1, c2}
RequestOfCall == (c1 :> 1) @@ (c2 :> 2)
InputOfCall == (c1 :> "x") @@ (c2 :> "y")
=============================================================================
