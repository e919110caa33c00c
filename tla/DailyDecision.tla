--------------------------- MODULE DailyDecision ---------------------------
(***************************************************************************)
(* The V2 day: jobs of the queue, worker processes that run them, and the  *)
(* holdings their decisions change (server/trading_v2/decision_worker.py). *)
(* A DECISION_RUN is two transactions: the first writes the decision and   *)
(* opens positions, the second monitors the positions held.  A decision is *)
(* identified by its trade date and the state of the account it saw.       *)
(***************************************************************************)
EXTENDS JobQueue, PositionMonitor

CONSTANT DateOf   \* the trade date each decision job asks for

ASSUME DateAssumption == DateOf \in [Decisions -> Nat \ {0}]

VARIABLES
  decided,   \* st_decision_run_v2
  monitored  \* decisions whose positions were monitored (history)

vars == <<queueVars, deskVars, decided, monitored>>

-----------------------------------------------------------------------------

Dates == {DateOf[j] : j \in Decisions}
Runs == [date: Dates, account: Nat]
Results == Runs \cup Backtests

ASSUME ResultAssumption == NoResult \notin Results

Init ==
  /\ InitQueue /\ InitDesk
  /\ decided = {} /\ monitored = {}

(* run_daily_decision up to the end of its first transaction. *)
Decide(p) ==
  LET d == DateOf[proc[p].job]
      r == [date |-> d, account |-> fills]
  IN
  /\ Holds(p, {"working"}, Decisions)
  /\ IF r \in decided
     THEN Goes(p, "done", r) /\ UNCHANGED <<deskVars, decided>>
     ELSE /\ decided' = decided \cup {r}
          /\ Plan(d)
          /\ Returns(p, "begun", r)
  /\ UNCHANGED <<job, run, monitored>>

(* monitor_positions, with its caller. *)
MonitorPositions(p) ==
  LET r == proc[p].result IN
  /\ Holds(p, {"begun"}, Decisions)
  /\ Monitor(r.date)
  /\ monitored' = monitored \cup {r}
  /\ Returns(p, "done", r)
  /\ UNCHANGED <<job, run, decided>>

(* Mutated form: an error of the monitor does not fail the job. *)
HandleError_Monitor(p) ==
  IF proc[p].stage = "begun" THEN Goes(p, "done", proc[p].result) ELSE Raises(p)
HandleError(p) == Raises(p)
(* An exception in either part. *)
FailDecision(p) ==
  /\ Holds(p, {"working", "begun"}, Decisions)
  /\ HandleError(p)
  /\ UNCHANGED <<job, run, deskVars, decided, monitored>>

(* create_decision_job and create_backtest_job of the API. *)
Request ==
  /\ \/ \E j \in Decisions : DateOf[j] <= Today /\ Enqueue(j)
     \/ \E b \in Backtests : Enqueue(b)
  /\ UNCHANGED <<deskVars, decided, monitored>>

WorkOn(p) ==
  \/ (Queue(p) \/ Claim(p)) /\ UNCHANGED <<deskVars, decided, monitored>>
  \/ Decide(p) \/ MonitorPositions(p) \/ FailDecision(p)

Environment ==
  \/ \E p \in Processes : Die(p) /\ UNCHANGED <<deskVars, decided, monitored>>
  \/ Repair /\ UNCHANGED <<deskVars, decided, monitored>>
  \/ (Fill \/ Expire \/ Tick) /\ UNCHANGED <<queueVars, decided, monitored>>

Next == Request \/ Environment \/ \E p \in Processes : WorkOn(p)

Spec == Init /\ [][Next]_vars

(* The scheduler starts worker processes, and a process goes on unless it  *)
(* dies.                                                                   *)
FairSpec == Spec /\ \A p \in Processes : WF_vars(WorkOn(p))

-----------------------------------------------------------------------------
(* Properties *)

TypeOK ==
  /\ QueueTypeOK(Results) /\ DeskTypeOK
  /\ monitored \subseteq decided /\ decided \subseteq Runs

(* Whatever a row's status became, its result_ref names work that is there *)
(* (the COMPLETED of a job may be overwritten with FAILED when the         *)
(* heartbeat after it fails; the result stays).                            *)
ResultIsReal ==
  \A j \in Jobs :
    /\ job[j].status = "COMPLETED" => job[j].result # NoResult
    /\ job[j].result # NoResult =>
         IF j \in Backtests THEN run[j] = "COMPLETED"
         ELSE job[j].result \in decided /\ job[j].result.date = DateOf[j]

(* A decision whose positions were never monitored shows: some process is  *)
(* still at it, or a job of that date is RUNNING or FAILED.  A second job  *)
(* of the date, which finds the decision and monitors nothing, does not    *)
(* hide the first.                                                         *)
UnmonitoredShows ==
  \A r \in decided \ monitored :
    \E j \in Decisions : DateOf[j] = r.date /\ job[j].status \in {"RUNNING", "FAILED"}

(* Every job requested is settled, or a process died with it: then it      *)
(* stays RUNNING, and enqueue_job answers every later request with it.     *)
JobsSettle ==
  \A j \in Jobs : job[j].status = "PENDING" ~> Settled(j) \/ LeftBehind(j)
=============================================================================
