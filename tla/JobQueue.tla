------------------------------ MODULE JobQueue ------------------------------
(***************************************************************************)
(* The V2 job queue (server/trading_v2/jobs.py, job_worker.py): requests   *)
(* become rows of st_job_v2, told apart by their idempotency key; worker   *)
(* processes claim one row, do its work and write how it ended.            *)
(*                                                                         *)
(* Every transaction of run_one_job is a step of its own: a worker may die *)
(* between any two, and an error in one of them is handled by the later    *)
(* ones.  There is no lease: a claim is never taken back.  The work of a   *)
(* BACKTEST is here; that of a DECISION_RUN is in DailyDecision.           *)
(***************************************************************************)
EXTENDS Naturals, FiniteSets

CONSTANTS
  Decisions, Backtests,  \* job requests, told apart by their keys
  Processes,             \* worker processes; a restarted one is idle again
  NoJob, NoResult,       \* no job in hand; the NULL result_ref
  MaxErrors              \* bound: processes that die and transactions that fail

ASSUME QueueAssumption ==
  /\ Decisions \cap Backtests = {}
  /\ NoJob \notin Decisions \cup Backtests
  /\ IsFiniteSet(Decisions \cup Backtests)
  /\ MaxErrors \in Nat

VARIABLES
  job,   \* st_job_v2, by request
  run,   \* status in st_backtest_run_v2 of the run of each backtest
  proc,  \* what each worker process is doing
  errors \* deaths and errors so far (for the bound)

queueVars == <<job, run, proc, errors>>

-----------------------------------------------------------------------------

Jobs == Decisions \cup Backtests

(* place is the rank of requested_at. *)
Row(Results) ==
  [status: {"ABSENT", "PENDING", "RUNNING", "COMPLETED", "FAILED"}, place: Nat,
   result: Results \cup {NoResult}]
AbsentRow == [status |-> "ABSENT", place |-> 0, result |-> NoResult]

(* Where a process stands in run_one_job: the row is claimed; the work is  *)
(* going on; its first transaction is committed; all of it is; the row is  *)
(* COMPLETED; an exception was raised.                                     *)
Stages == {"idle", "claimed", "working", "begun", "done", "completed", "failed"}
Work(Results) == [stage: Stages, job: Jobs \cup {NoJob}, result: Results \cup {NoResult}]
IdleWork == [stage |-> "idle", job |-> NoJob, result |-> NoResult]

Enqueued == {j \in Jobs : job[j].status # "ABSENT"}
Pending == {j \in Jobs : job[j].status = "PENDING"}

(* Mutated form: a worker takes up every row that did not succeed. *)
Claimable_Unfinished == {j \in Enqueued : job[j].status # "COMPLETED"}
(* Mutated form: one job at a time, by the status of the rows. *)
Claimable_OneByOne == IF \E j \in Jobs : job[j].status = "RUNNING" THEN {} ELSE Pending
(* The rows a claim looks at, and the one it takes. *)
Claimable == Pending
Oldest == {j \in Claimable : \A i \in Claimable : job[j].place <= job[i].place}

InitQueue ==
  /\ job = [j \in Jobs |-> AbsentRow]
  /\ run = [b \in Backtests |-> "NONE"]
  /\ proc = [p \in Processes |-> IdleWork]
  /\ errors = 0

Holds(p, stages, jobs) == proc[p].stage \in stages /\ proc[p].job \in jobs
Goes(p, stage, result) ==
  /\ proc' = [proc EXCEPT ![p].stage = stage, ![p].result = result]
  /\ UNCHANGED errors
Error == errors < MaxErrors /\ errors' = errors + 1
(* An exception reaches the handler of run_one_job.  A transaction that    *)
(* raises it may be committed or not.                                      *)
Raises(p) ==
  /\ Error
  /\ proc' = [proc EXCEPT ![p].stage = "failed"]
Returns(p, stage, result) == Goes(p, stage, result) \/ Raises(p)
Leaves(p) == proc' = [proc EXCEPT ![p] = IdleWork]

(* enqueue_job.  A key that exists is answered with its row, whatever its  *)
(* status, and nothing changes.                                            *)
Enqueue(j) ==
  /\ job[j].status = "ABSENT"
  /\ job' = [job EXCEPT ![j] =
       [status |-> "PENDING", place |-> Cardinality(Enqueued), result |-> NoResult]]
  /\ UNCHANGED <<run, proc, errors>>

(* _claim_job: the oldest pending row, under GET_LOCK and FOR UPDATE. *)
Claim(p) ==
  /\ proc[p].stage = "idle"
  /\ \E j \in Oldest :
       /\ job' = [job EXCEPT ![j].status = "RUNNING"]
       /\ proc' = [proc EXCEPT ![p] =
            [stage |-> "claimed", job |-> j, result |-> NoResult]]
  /\ UNCHANGED <<run, errors>>

(* The heartbeat before the try block. *)
StartWork(p) ==
  /\ Holds(p, {"claimed"}, Jobs)
  /\ Goes(p, "working", NoResult)
  /\ UNCHANGED <<job, run>>

(* _run_backtest_job_impl up to the row of the run.  The uid of a run is   *)
(* hashed from its request, which holds a uid of its own.                  *)
StartRun(p) ==
  LET b == proc[p].job IN
  /\ Holds(p, {"working"}, Backtests)
  /\ IF run[b] = "COMPLETED"
     THEN Goes(p, "done", b) /\ UNCHANGED run
     ELSE Goes(p, "begun", NoResult) /\ run' = [run EXCEPT ![b] = "RUNNING"]
  /\ UNCHANGED job

(* Its last transaction: trades and COMPLETED. *)
FinishRun(p) ==
  LET b == proc[p].job IN
  /\ Holds(p, {"begun"}, Backtests)
  /\ run' = [run EXCEPT ![b] = "COMPLETED"]
  /\ Returns(p, "done", b)
  /\ UNCHANGED job

(* An exception in the work of a backtest.  _mark_latest_matching_backtest *)
(* _failed ends its RUNNING run, unless that transaction fails as well.    *)
FailRun(p) ==
  /\ Holds(p, {"working", "begun"}, Backtests)
  /\ run' \in {run, [run EXCEPT ![proc[p].job] = IF @ = "RUNNING" THEN "FAILED" ELSE @]}
  /\ Raises(p)
  /\ UNCHANGED job

(* The UPDATE that ends a job looks at its job_id only. *)
WriteCompleted(p) ==
  /\ Holds(p, {"done"}, Jobs)
  /\ job' = [job EXCEPT ![proc[p].job] =
       [@ EXCEPT !.status = "COMPLETED", !.result = proc[p].result]]
  /\ Returns(p, "completed", NoResult)
  /\ UNCHANGED run

(* The heartbeat after it, inside the try block. *)
LastHeartbeat(p) ==
  /\ Holds(p, {"completed"}, Jobs)
  /\ Leaves(p)
  /\ UNCHANGED <<job, run, errors>>

(* The UPDATE is rolled back, or the last heartbeat fails. *)
FailLate(p) ==
  /\ Holds(p, {"done", "completed"}, Jobs)
  /\ Raises(p)
  /\ UNCHANGED <<job, run>>

(* The handler's UPDATE: result_ref keeps what it was. *)
WriteFailed(p) ==
  /\ Holds(p, {"failed"}, Jobs)
  /\ job' = [job EXCEPT ![proc[p].job].status = "FAILED"]
  /\ Leaves(p)
  /\ UNCHANGED <<run, errors>>

(* A process dies; or a transaction outside the try block fails: the first *)
(* heartbeat, or the handler's own UPDATE.  The row stays as it is.        *)
Die(p) ==
  /\ proc[p].stage # "idle"
  /\ Error
  /\ Leaves(p)
  /\ UNCHANGED <<job, run>>

(* Mutated form: the status of the run is not compared. *)
Orphans_AnyStatus == {b \in Backtests : job[b].status = "FAILED" /\ run[b] # "NONE"}
(* repair_orphaned_backtests: RUNNING runs of FAILED jobs. *)
Orphans == {b \in Backtests : job[b].status = "FAILED" /\ run[b] = "RUNNING"}
Repair ==
  /\ Orphans # {}
  /\ run' = [b \in Backtests |-> IF b \in Orphans THEN "FAILED" ELSE run[b]]
  /\ UNCHANGED <<job, proc, errors>>

(* What one process does when it does not die. *)
Queue(p) ==
  \/ StartWork(p) \/ StartRun(p) \/ FinishRun(p) \/ FailRun(p)
  \/ WriteCompleted(p) \/ LastHeartbeat(p) \/ FailLate(p) \/ WriteFailed(p)

-----------------------------------------------------------------------------
(* Properties *)

QueueTypeOK(Results) ==
  /\ job \in [Jobs -> Row(Results)]
  /\ run \in [Backtests -> {"NONE", "RUNNING", "COMPLETED", "FAILED"}]
  /\ proc \in [Processes -> Work(Results)]
  /\ errors \in 0..MaxErrors

Busy(p) == proc[p].stage # "idle"

(* The claim is the only guard there is, the updates after it look at the  *)
(* job_id alone: no job is ever in the hands of two processes, and nobody  *)
(* holds one that is pending again or whose end another process wrote.     *)
OneWorkerPerJob ==
  /\ \A p, q \in Processes : Busy(p) /\ Busy(q) /\ proc[p].job = proc[q].job => p = q
  /\ \A p \in Processes :
       Busy(p) => \/ job[proc[p].job].status = "RUNNING"
                  \/ /\ job[proc[p].job].status = "COMPLETED"
                     /\ proc[p].stage \in {"completed", "failed"}

(* A job is settled, or was left behind by a process that died with it.    *)
Settled(j) == job[j].status \in {"COMPLETED", "FAILED"}
LeftBehind(j) == job[j].status = "RUNNING" /\ \A p \in Processes : proc[p].job # j
=============================================================================
