-------------------------- MODULE MCDailyDecision --------------------------
(* Small instances of DailyDecision for TLC. *)
EXTENDS DailyDecision

CONSTANTS d1, d2, e2, b1, p1, p2

(* Two jobs may ask for one date: their requests differ in the account id, *)
(* which the worker does not look at.                                      *)
OneDate == [j \in Decisions |-> 1]
TwoDates == [j \in Decisions |-> IF j = d1 THEN 1 ELSE 2]
=============================================================================
