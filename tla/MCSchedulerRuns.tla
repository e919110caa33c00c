-------------------------- MODULE MCSchedulerRuns --------------------------
(* Small instances of SchedulerRuns for TLC. *)
EXTENDS SchedulerRuns, TLC

CONSTANTS sched, api, u1, u2, u3
=============================================================================
