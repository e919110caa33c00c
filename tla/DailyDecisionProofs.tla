------------------------ MODULE DailyDecisionProofs ------------------------
(***************************************************************************)
(* Proofs about DailyDecision: what its queue of jobs promises, for any    *)
(* number of jobs, worker processes and errors (DayInv), and what holds of *)
(* the holdings their decisions change, for any number of strategies, lots *)
(* and moments (DeskInv).  The queue sees the holdings only by the number  *)
(* of fills, which identifies the state of the account.                    *)
(***************************************************************************)
EXTENDS DailyDecision, FiniteSetTheorems, SequenceTheorems, WellFoundedInduction, TLAPS

USE QueueAssumption, ResultAssumption

(* What has a type here: all but the holdings. *)
Typed ==
  /\ QueueTypeOK(Results)
  /\ decided \subseteq Runs /\ fills \in Nat
  /\ \A p \in Processes : IF Busy(p) THEN proc[p].job \in Jobs ELSE proc[p].job = NoJob

(* What a process has in hand is running, and is its own; only after the   *)
(* row is COMPLETED may it be that instead.                                *)
Owned(p) ==
  \/ job[proc[p].job].status = "RUNNING"
  \/ job[proc[p].job].status = "COMPLETED" /\ proc[p].stage \in {"completed", "failed"}

(* The results of rows, and those that processes are about to write.       *)
Real(j, result) ==
  result # NoResult =>
    IF j \in Backtests THEN run[j] = "COMPLETED"
    ELSE result \in decided /\ result.date = DateOf[j]
RowIsReal(j) ==
  /\ job[j].status = "COMPLETED" => job[j].result # NoResult
  /\ Real(j, job[j].result)
Carries(p) == Holds(p, {"done"}, Jobs) \/ Holds(p, {"begun"}, Decisions)
Carried == \A p \in Processes :
  Carries(p) => proc[p].result # NoResult /\ Real(proc[p].job, proc[p].result)

(* The job that shows a decision without its monitoring: FAILED, or        *)
(* RUNNING in the hands of nobody or of a process that is still at it.     *)
Witness(j, r) ==
  /\ DateOf[j] = r.date
  /\ \/ job[j].status = "FAILED"
     \/ /\ job[j].status = "RUNNING"
        /\ \A p \in Processes :
             proc[p].job = j => \/ proc[p].stage = "failed"
                                \/ proc[p].stage = "begun" /\ proc[p].result = r
Shown == \A r \in decided \ monitored : \E j \in Decisions : Witness(j, r)

DayInv == Typed /\ OneWorkerPerJob /\ ResultIsReal /\ Carried /\ Shown

-----------------------------------------------------------------------------

LEMMA InitDay == Init => DayInv
  BY DEF Init, InitQueue, InitDesk, DayInv, Typed, QueueTypeOK, Row, AbsentRow, Work, IdleWork,
         Stages, Busy, OneWorkerPerJob, ResultIsReal, Carried, Carries, Holds, Shown

-----------------------------------------------------------------------------
(* Steps of a process with the job it has in hand. *)

(* It writes to no other row, and moves on with its own or leaves it.      *)
WritesOwn(p) ==
  /\ Busy(p)
  /\ job' \in [Jobs -> Row(Results)]
  /\ \A j \in Jobs \ {proc[p].job} : job'[j] = job[j]
Handles(p) ==
  /\ WritesOwn(p) /\ proc'[p] \in Work(Results)
  /\ proc' = [proc EXCEPT ![p] = proc'[p]]
  /\ Busy(p)' => proc'[p].job = proc[p].job
  /\ ~Busy(p)' => proc'[p].job = NoJob

LEMMA GoesHandles ==
  ASSUME DayInv, NEW p \in Processes, WritesOwn(p), NEW stage \in Stages \ {"idle"},
         NEW result \in Results \cup {NoResult}, Goes(p, stage, result)
  PROVE  /\ Handles(p) /\ errors' \in 0..MaxErrors
         /\ proc'[p].stage = stage /\ proc'[p].result = result /\ proc'[p].job = proc[p].job
<1>1. proc \in [Processes -> Work(Results)] /\ errors \in 0..MaxErrors
  BY DEF DayInv, Typed, QueueTypeOK
<1>2. proc'[p] = [stage |-> stage, job |-> proc[p].job, result |-> result]
  BY <1>1 DEF Goes, Work
<1>3. proc'[p] \in Work(Results)
  BY <1>1, <1>2 DEF Work
<1>4. proc' = [proc EXCEPT ![p] = proc'[p]]
  BY <1>1 DEF Goes
<1> QED BY <1>1, <1>2, <1>3, <1>4 DEF Handles, Busy, Goes

LEMMA RaisesHandles ==
  ASSUME DayInv, NEW p \in Processes, WritesOwn(p), Raises(p)
  PROVE  /\ Handles(p) /\ errors' \in 0..MaxErrors
         /\ proc'[p].stage = "failed" /\ proc'[p].job = proc[p].job
<1>1. proc \in [Processes -> Work(Results)] /\ errors \in 0..MaxErrors
  BY DEF DayInv, Typed, QueueTypeOK
<1>2. proc'[p] = [stage |-> "failed", job |-> proc[p].job, result |-> proc[p].result]
  BY <1>1 DEF Raises, Work
<1>3. proc'[p] \in Work(Results)
  BY <1>1, <1>2 DEF Work, Stages
<1>4. proc' = [proc EXCEPT ![p] = proc'[p]]
  BY <1>1 DEF Raises
<1> QED BY <1>1, <1>2, <1>3, <1>4 DEF Handles, Busy, Raises, Error

LEMMA LeavesHandles ==
  ASSUME DayInv, NEW p \in Processes, WritesOwn(p), Leaves(p)
  PROVE  Handles(p) /\ proc'[p].stage = "idle" /\ ~Busy(p)'
<1>1. proc \in [Processes -> Work(Results)]
  BY DEF DayInv, Typed, QueueTypeOK
<1>2. proc'[p] = IdleWork /\ IdleWork \in Work(Results)
  BY <1>1 DEF Leaves, IdleWork, Work, Stages
<1> QED BY <1>1, <1>2 DEF Handles, Busy, Leaves, IdleWork

(* A step that leaves the rows alone writes to none of them. *)
LEMMA OwnUnwritten ==
  ASSUME DayInv, NEW p \in Processes, Busy(p), UNCHANGED job
  PROVE  WritesOwn(p)
  BY DEF WritesOwn, DayInv, Typed, QueueTypeOK

LEMMA OneWorkerStays ==
  ASSUME DayInv, NEW p \in Processes, Handles(p), Busy(p)' => Owned(p)'
  PROVE  OneWorkerPerJob'
<1>1. proc \in [Processes -> Work(Results)] /\ proc' \in [Processes -> Work(Results)]
  BY DEF DayInv, Typed, QueueTypeOK, Handles
<1>2. \A q \in Processes \ {p} : proc'[q] = proc[q]
  BY <1>1 DEF Handles
<1>3. \A q \in Processes : Busy(q)' => Busy(q) /\ proc'[q].job = proc[q].job /\ proc[q].job \in Jobs
  BY <1>2 DEF Handles, WritesOwn, Busy, DayInv, Typed
<1>4. \A q \in Processes \ {p} : Busy(q)' => job'[proc[q].job] = job[proc[q].job]
  BY <1>3 DEF Handles, WritesOwn, DayInv, OneWorkerPerJob
<1>5. \A q, s \in Processes : Busy(q)' /\ Busy(s)' /\ proc'[q].job = proc'[s].job => q = s
  BY <1>3 DEF DayInv, OneWorkerPerJob
<1>6. \A q \in Processes \ {p} : Busy(q)' => Owned(q)'
  BY <1>2, <1>3, <1>4 DEF DayInv, OneWorkerPerJob, Owned
<1>7. \A q \in Processes : Busy(q)' => Owned(q)'
  BY <1>6
<1> QED BY <1>5, <1>7 DEF OneWorkerPerJob, Owned

(* Results stay real when what they name stays. *)
Kept ==
  /\ decided \subseteq decided'
  /\ \A b \in Backtests : run[b] = "COMPLETED" => run'[b] = "COMPLETED"

LEMMA ResultsStay ==
  ASSUME DayInv, NEW p \in Processes, Handles(p), Kept,
         NEW own, own = proc[p].job, RowIsReal(own)',
         Carries(p)' => proc'[p].result # NoResult /\ Real(proc[p].job, proc[p].result)'
  PROVE  ResultIsReal' /\ Carried'
<1>1. \A q \in Processes \ {p} : proc'[q] = proc[q]
  BY DEF Handles, DayInv, Typed, QueueTypeOK
<1>2. \A j \in Jobs : RowIsReal(j)'
  <2> SUFFICES ASSUME NEW j \in Jobs, j # own PROVE RowIsReal(j)'
    OBVIOUS
  <2>1. job'[j] = job[j] /\ RowIsReal(j)
    BY DEF Handles, WritesOwn, DayInv, ResultIsReal, RowIsReal, Real
  <2> QED BY <2>1 DEF RowIsReal, Real, Kept
<1>3. ResultIsReal'
  BY <1>2 DEF RowIsReal, Real, ResultIsReal
<1>4. Carried'
  <2> SUFFICES ASSUME NEW q \in Processes, Carries(q)'
               PROVE  proc'[q].result # NoResult /\ Real(proc[q].job, proc[q].result)'
    BY DEF Carried
  <2>1. CASE q = p
    BY <2>1 DEF Handles, WritesOwn, Carries, Holds, Busy
  <2>2. CASE q # p
    <3>1. proc'[q] = proc[q] /\ Carries(q) /\ proc[q].job \in Jobs
      BY <1>1, <2>2 DEF Carries, Holds, Jobs
    <3>2. proc[q].result # NoResult /\ Real(proc[q].job, proc[q].result)
      BY <3>1 DEF DayInv, Carried
    <3>3. Real(proc[q].job, proc[q].result)'
      BY <3>1, <3>2 DEF Real, Kept
    <3> QED BY <3>1, <3>2, <3>3
  <2> QED BY <2>1, <2>2
<1> QED BY <1>3, <1>4

(* A job that shows a decision goes on showing it until the decision is    *)
(* monitored.                                                              *)
LEMMA ShownStays ==
  ASSUME DayInv, NEW p \in Processes, Handles(p), NEW r \in decided \ monitored,
         Holds(p, {"begun", "failed"}, Decisions) /\ job[proc[p].job].status = "RUNNING" =>
           \/ proc[p].stage = "begun" /\ proc[p].result # r
           \/ /\ job'[proc[p].job].status \in {"RUNNING", "FAILED"}
              /\ proc'[p].stage \in {"idle", "failed"}
  PROVE  \E j \in Decisions : Witness(j, r)'
<1>1. PICK j \in Decisions : Witness(j, r)
  BY DEF DayInv, Shown
<1>2. \A q \in Processes \ {p} : proc'[q] = proc[q]
  BY DEF Handles, DayInv, Typed, QueueTypeOK
<1>3. CASE proc[p].job # j
  <2>1. job'[j] = job[j] /\ proc'[p].job # j
    BY <1>3 DEF Handles, WritesOwn, Jobs
  <2>2. Witness(j, r)'
    BY <1>1, <1>2, <2>1 DEF Witness
  <2> QED BY <2>2
<1>4. CASE proc[p].job = j
  <2>1. /\ job[j].status = "RUNNING" /\ proc[p].stage \in {"failed", "begun"}
        /\ proc[p].stage = "begun" => proc[p].result = r
    BY <1>1, <1>4 DEF Witness, Handles, WritesOwn, DayInv, OneWorkerPerJob
  <2>2. \A q \in Processes \ {p} : proc'[q].job # j
    <3> SUFFICES ASSUME NEW q \in Processes \ {p} PROVE proc[q].job # j
      BY <1>2
    <3>1. j \in Jobs /\ j # NoJob
      BY DEF Jobs
    <3>2. CASE Busy(q)
      BY <1>4, <3>2 DEF Handles, WritesOwn, DayInv, OneWorkerPerJob
    <3>3. CASE ~Busy(q)
      BY <3>1, <3>3 DEF DayInv, Typed
    <3> QED BY <3>2, <3>3
  <2>3. /\ job'[j].status \in {"RUNNING", "FAILED"}
        /\ proc'[p].stage \in {"idle", "failed"}
    BY <1>4, <2>1 DEF Holds
  <2>4. proc'[p].stage = "failed" \/ proc'[p].job # j
    BY <2>3 DEF Handles, Busy, Jobs
  <2>5. Witness(j, r)'
    BY <1>1, <2>2, <2>3, <2>4 DEF Witness
  <2> QED BY <2>5
<1> QED BY <1>3, <1>4

(* What a step of a process with its job has to show, beside that a        *)
(* decision without its monitoring still shows.                            *)
Good(p) ==
  /\ Handles(p) /\ Kept /\ errors' \in 0..MaxErrors
  /\ run' \in [Backtests -> {"NONE", "RUNNING", "COMPLETED", "FAILED"}]
  /\ decided' \subseteq Runs /\ fills' \in Nat
  /\ Busy(p)' => Owned(p)'
  /\ Carries(p)' => proc'[p].result # NoResult /\ Real(proc[p].job, proc[p].result)'

LEMMA GoodStep ==
  ASSUME DayInv, NEW p \in Processes, Good(p), NEW own, own = proc[p].job,
         RowIsReal(own)', Shown'
  PROVE  DayInv'
<1>1. OneWorkerPerJob'
  BY OneWorkerStays DEF Good
<1>2. ResultIsReal' /\ Carried'
  BY ResultsStay DEF Good
<1>3. \A q \in Processes \ {p} : proc'[q] = proc[q]
  BY DEF Good, Handles, DayInv, Typed, QueueTypeOK
<1>4. QueueTypeOK(Results)'
  <2>1. proc' \in [Processes -> Work(Results)]
    BY DEF Good, Handles, DayInv, Typed, QueueTypeOK
  <2> QED BY <2>1 DEF Good, Handles, WritesOwn, QueueTypeOK
<1>5. \A q \in Processes : (IF Busy(q) THEN proc[q].job \in Jobs ELSE proc[q].job = NoJob)'
  BY <1>3 DEF Good, Handles, WritesOwn, Busy, DayInv, Typed
<1> QED BY <1>1, <1>2, <1>4, <1>5 DEF DayInv, Typed, Good

(* A row that is not written stays real. *)
LEMMA UnwrittenRow ==
  ASSUME DayInv, NEW j \in Jobs, job'[j] = job[j], Kept
  PROVE  RowIsReal(j)'
<1>1. RowIsReal(j)
  BY DEF DayInv, ResultIsReal, RowIsReal, Real
<1> QED BY <1>1 DEF RowIsReal, Real, Kept

(* The steps that leave the decisions alone. *)
LEMMA QuietStep ==
  ASSUME DayInv, NEW p \in Processes, Good(p), NEW own, own = proc[p].job,
         RowIsReal(own)', UNCHANGED <<decided, monitored>>,
         Holds(p, {"begun", "failed"}, Decisions) =>
           /\ job'[own].status \in {job[own].status, "FAILED"}
           /\ proc'[p].stage \in {"idle", "failed"}
  PROVE  DayInv'
<1>1. Shown'
  <2> SUFFICES ASSUME NEW r \in decided \ monitored PROVE \E j \in Decisions : Witness(j, r)'
    BY DEF Shown
  <2> QED BY ShownStays DEF Good
<1> QED BY <1>1, GoodStep

-----------------------------------------------------------------------------
(* The steps of the queue. *)

Quiet == UNCHANGED <<deskVars, decided, monitored>>

LEMMA StartWorkStep ==
  ASSUME DayInv, NEW p \in Processes, StartWork(p), Quiet
  PROVE  DayInv'
<1>1. Busy(p) /\ WritesOwn(p) /\ proc[p].stage = "claimed" /\ proc[p].job \in Jobs
  BY OwnUnwritten DEF StartWork, Holds, Busy
<1>2. /\ Handles(p) /\ errors' \in 0..MaxErrors
      /\ proc'[p].stage = "working" /\ proc'[p].job = proc[p].job
  BY <1>1, GoesHandles DEF StartWork, Stages
<1>3. Kept /\ job' = job
  BY DEF Kept, StartWork, Quiet
<1>4. Good(p)
  BY <1>1, <1>2, <1>3
     DEF Good, StartWork, Quiet, deskVars, DayInv, Typed, QueueTypeOK, OneWorkerPerJob, Owned,
         Busy, Carries, Holds
<1>5. RowIsReal(proc[p].job) /\ \A j \in Jobs : RowIsReal(j)'
  BY <1>1, <1>3, UnwrittenRow DEF DayInv, ResultIsReal, RowIsReal, Real
<1> QED BY <1>1, <1>3, <1>4, <1>5, QuietStep DEF Quiet, Holds

LEMMA StartRunStep ==
  ASSUME DayInv, NEW p \in Processes, StartRun(p), Quiet
  PROVE  DayInv'
<1> DEFINE b == proc[p].job
<1>1. Busy(p) /\ WritesOwn(p) /\ proc[p].stage = "working" /\ b \in Backtests
  BY OwnUnwritten DEF StartRun, Holds, Busy
<1>2. run \in [Backtests -> {"NONE", "RUNNING", "COMPLETED", "FAILED"}]
  BY DEF DayInv, Typed, QueueTypeOK
<1>3. Kept /\ job' = job /\ run' \in [Backtests -> {"NONE", "RUNNING", "COMPLETED", "FAILED"}]
  BY <1>1, <1>2 DEF Kept, StartRun, Quiet
<1>4. \/ Goes(p, "done", b) /\ run'[b] = "COMPLETED"
      \/ Goes(p, "begun", NoResult)
  BY <1>2 DEF StartRun
<1>5. /\ Handles(p) /\ errors' \in 0..MaxErrors /\ proc'[p].job = proc[p].job
      /\ \/ proc'[p].stage = "done" /\ proc'[p].result = b /\ run'[b] = "COMPLETED"
         \/ proc'[p].stage = "begun"
  BY <1>1, <1>4, GoesHandles DEF Stages, Results
<1>6. Carries(p)' => proc'[p].result # NoResult /\ Real(proc[p].job, proc[p].result)'
  BY <1>1, <1>5 DEF Carries, Holds, Real, Results
<1>7. Good(p)
  BY <1>1, <1>3, <1>5, <1>6
     DEF Good, Quiet, deskVars, DayInv, Typed, OneWorkerPerJob, Owned, Busy
<1>8. b \in Jobs /\ \A j \in Jobs : RowIsReal(j)'
  BY <1>1, <1>3, UnwrittenRow DEF Jobs
<1> QED BY <1>1, <1>3, <1>7, <1>8, QuietStep DEF Quiet, Holds

LEMMA FinishRunStep ==
  ASSUME DayInv, NEW p \in Processes, FinishRun(p), Quiet
  PROVE  DayInv'
<1> DEFINE b == proc[p].job
<1>1. Busy(p) /\ WritesOwn(p) /\ proc[p].stage = "begun" /\ b \in Backtests
  BY OwnUnwritten DEF FinishRun, Holds, Busy
<1>2. run \in [Backtests -> {"NONE", "RUNNING", "COMPLETED", "FAILED"}]
  BY DEF DayInv, Typed, QueueTypeOK
<1>3. /\ Kept /\ job' = job /\ run'[b] = "COMPLETED"
      /\ run' \in [Backtests -> {"NONE", "RUNNING", "COMPLETED", "FAILED"}]
  BY <1>1, <1>2 DEF Kept, FinishRun, Quiet
<1>4. Goes(p, "done", b) \/ Raises(p)
  BY DEF FinishRun, Returns
<1>5. /\ Handles(p) /\ errors' \in 0..MaxErrors /\ proc'[p].job = proc[p].job
      /\ \/ proc'[p].stage = "done" /\ proc'[p].result = b
         \/ proc'[p].stage = "failed"
  BY <1>1, <1>4, GoesHandles, RaisesHandles DEF Stages, Results
<1>6. Carries(p)' => proc'[p].result # NoResult /\ Real(proc[p].job, proc[p].result)'
  BY <1>1, <1>3, <1>5 DEF Carries, Holds, Real, Results
<1>7. Good(p)
  BY <1>1, <1>3, <1>5, <1>6
     DEF Good, Quiet, deskVars, DayInv, Typed, OneWorkerPerJob, Owned, Busy
<1>8. b \in Jobs /\ \A j \in Jobs : RowIsReal(j)'
  BY <1>1, <1>3, UnwrittenRow DEF Jobs
<1> QED BY <1>1, <1>3, <1>7, <1>8, QuietStep DEF Quiet, Holds

(* An exception, whatever became of the run. *)
LEMMA RaisingStep ==
  ASSUME DayInv, NEW p \in Processes, Raises(p), Busy(p), Quiet, UNCHANGED job, Kept,
         run' \in [Backtests -> {"NONE", "RUNNING", "COMPLETED", "FAILED"}]
  PROVE  DayInv'
<1>1. WritesOwn(p) /\ proc[p].job \in Jobs
  BY OwnUnwritten DEF DayInv, Typed
<1>2. /\ Handles(p) /\ errors' \in 0..MaxErrors
      /\ proc'[p].stage = "failed" /\ proc'[p].job = proc[p].job
  BY <1>1, RaisesHandles
<1>3. Good(p)
  BY <1>1, <1>2
     DEF Good, Quiet, deskVars, DayInv, Typed, OneWorkerPerJob, Owned, Carries, Holds
<1>4. \A j \in Jobs : RowIsReal(j)'
  BY UnwrittenRow
<1> QED BY <1>1, <1>2, <1>3, <1>4, QuietStep DEF Quiet

LEMMA FailRunStep ==
  ASSUME DayInv, NEW p \in Processes, FailRun(p), Quiet
  PROVE  DayInv'
<1>1. run \in [Backtests -> {"NONE", "RUNNING", "COMPLETED", "FAILED"}]
  BY DEF DayInv, Typed, QueueTypeOK
<1>2. Kept /\ run' \in [Backtests -> {"NONE", "RUNNING", "COMPLETED", "FAILED"}]
  BY <1>1 DEF Kept, FailRun, Quiet
<1> QED BY <1>2, RaisingStep DEF FailRun, Holds, Busy

LEMMA FailLateStep ==
  ASSUME DayInv, NEW p \in Processes, FailLate(p), Quiet
  PROVE  DayInv'
<1>1. Kept /\ run' \in [Backtests -> {"NONE", "RUNNING", "COMPLETED", "FAILED"}]
  BY DEF Kept, FailLate, Quiet, DayInv, Typed, QueueTypeOK
<1> QED BY <1>1, RaisingStep DEF FailLate, Holds, Busy

LEMMA WriteCompletedStep ==
  ASSUME DayInv, NEW p \in Processes, WriteCompleted(p), Quiet
  PROVE  DayInv'
<1> DEFINE j == proc[p].job  res == proc[p].result
<1>1. Busy(p) /\ proc[p].stage = "done" /\ j \in Jobs
  BY DEF WriteCompleted, Holds, Busy
<1>2. res \in Results /\ Real(j, res)
  BY <1>1 DEF DayInv, Typed, QueueTypeOK, Work, Carried, Carries, Holds
<1>3. job \in [Jobs -> Row(Results)]
  BY DEF DayInv, Typed, QueueTypeOK
<1>4. job'[j] = [status |-> "COMPLETED", place |-> job[j].place, result |-> res]
  BY <1>1, <1>3 DEF WriteCompleted, Row
<1>5. job' = [job EXCEPT ![j] = job'[j]] /\ job'[j] \in Row(Results)
  BY <1>1, <1>2, <1>3, <1>4 DEF WriteCompleted, Row
<1>6. WritesOwn(p)
  BY <1>1, <1>3, <1>5 DEF WritesOwn
<1>7. Goes(p, "completed", NoResult) \/ Raises(p)
  BY DEF WriteCompleted, Returns
<1>8. /\ Handles(p) /\ errors' \in 0..MaxErrors /\ proc'[p].job = j
      /\ proc'[p].stage \in {"completed", "failed"}
  BY <1>6, <1>7, GoesHandles, RaisesHandles DEF Stages
<1>9. Kept
  BY DEF Kept, WriteCompleted, Quiet
<1>10. Good(p)
  BY <1>4, <1>8, <1>9
     DEF Good, WriteCompleted, Quiet, deskVars, DayInv, Typed, QueueTypeOK, Owned, Carries, Holds
<1>11. ASSUME NEW own, own = j PROVE RowIsReal(own)'
  BY <1>1, <1>2, <1>4, <1>9, <1>11 DEF RowIsReal, Real, Kept
<1> QED BY <1>1, <1>10, <1>11, QuietStep DEF Quiet, Holds

(* A process leaves its job: its row stays, or is FAILED. *)
LEMMA LeavingStep ==
  ASSUME DayInv, NEW p \in Processes, Leaves(p), WritesOwn(p), Quiet, UNCHANGED run,
         errors' \in 0..MaxErrors, NEW own, own = proc[p].job,
         job'[own].result = job[own].result,
         job'[own].status \in {job[own].status, "FAILED"}
  PROVE  DayInv'
<1>1. own \in Jobs
  BY DEF WritesOwn, DayInv, Typed
<1>2. Handles(p) /\ proc'[p].stage = "idle" /\ ~Busy(p)'
  BY LeavesHandles
<1>3. Kept
  BY DEF Kept, Quiet
<1>4. Good(p)
  BY <1>2, <1>3
     DEF Good, Quiet, deskVars, DayInv, Typed, QueueTypeOK, Carries, Holds
<1>5. RowIsReal(own)
  BY <1>1 DEF DayInv, ResultIsReal, RowIsReal, Real
<1>6. RowIsReal(own)'
  BY <1>3, <1>5 DEF RowIsReal, Real, Kept
<1> QED BY <1>2, <1>4, <1>6, QuietStep DEF Quiet

LEMMA LastHeartbeatStep ==
  ASSUME DayInv, NEW p \in Processes, LastHeartbeat(p), Quiet
  PROVE  DayInv'
<1>1. WritesOwn(p) /\ errors' \in 0..MaxErrors
  BY OwnUnwritten DEF LastHeartbeat, Holds, Busy, DayInv, Typed, QueueTypeOK
<1> QED BY <1>1, LeavingStep DEF LastHeartbeat

LEMMA DieStep ==
  ASSUME DayInv, NEW p \in Processes, Die(p), Quiet
  PROVE  DayInv'
<1>1. WritesOwn(p)
  BY OwnUnwritten DEF Die, Busy
<1>2. errors' \in 0..MaxErrors
  BY DEF Die, Error, DayInv, Typed, QueueTypeOK
<1> QED BY <1>1, <1>2, LeavingStep DEF Die

LEMMA WriteFailedStep ==
  ASSUME DayInv, NEW p \in Processes, WriteFailed(p), Quiet
  PROVE  DayInv'
<1> DEFINE j == proc[p].job
<1>1. Busy(p) /\ j \in Jobs
  BY DEF WriteFailed, Holds, Busy
<1>2. job \in [Jobs -> Row(Results)] /\ errors' \in 0..MaxErrors
  BY DEF WriteFailed, DayInv, Typed, QueueTypeOK
<1>3. job'[j] = [status |-> "FAILED", place |-> job[j].place, result |-> job[j].result]
  BY <1>1, <1>2 DEF WriteFailed, Row
<1>4. job' = [job EXCEPT ![j] = job'[j]] /\ job'[j] \in Row(Results)
  BY <1>1, <1>2, <1>3 DEF WriteFailed, Row
<1>5. WritesOwn(p)
  BY <1>1, <1>2, <1>4 DEF WritesOwn
<1> QED BY <1>2, <1>3, <1>5, LeavingStep DEF WriteFailed

-----------------------------------------------------------------------------
(* The steps of a decision. *)

LEMMA DecideStep ==
  ASSUME DayInv, NEW p \in Processes, Decide(p)
  PROVE  DayInv'
<1> DEFINE j == proc[p].job
           r == [date |-> DateOf[j], account |-> fills]
<1>1. /\ Busy(p) /\ WritesOwn(p) /\ proc[p].stage = "working"
      /\ j \in Decisions /\ j \in Jobs /\ j \notin Backtests
  BY OwnUnwritten DEF Decide, Holds, Busy, Jobs
<1>2. r \in Runs /\ r.date = DateOf[j]
  BY <1>1 DEF Runs, Dates, DayInv, Typed
<1>3. /\ Kept /\ job' = job /\ decided' \subseteq Runs /\ fills' \in Nat /\ monitored' = monitored
      /\ run' \in [Backtests -> {"NONE", "RUNNING", "COMPLETED", "FAILED"}]
  BY <1>2 DEF Kept, Decide, Plan, deskVars, DayInv, Typed, QueueTypeOK
<1>4. job[j].status = "RUNNING"
  BY <1>1 DEF DayInv, OneWorkerPerJob
<1>5. ASSUME NEW own, own = j PROVE RowIsReal(own)'
  BY <1>1, <1>3, <1>5, UnwrittenRow
<1>6. CASE r \in decided
  <2>1. Goes(p, "done", r) /\ UNCHANGED <<deskVars, decided>>
    BY <1>6 DEF Decide
  <2>2. /\ Handles(p) /\ errors' \in 0..MaxErrors /\ proc'[p].job = j
        /\ proc'[p].stage = "done" /\ proc'[p].result = r
    BY <1>1, <1>2, <2>1, GoesHandles DEF Stages, Results
  <2>3. proc'[p].result # NoResult /\ Real(proc[p].job, proc[p].result)'
    BY <1>1, <1>2, <1>6, <2>1, <2>2 DEF Real, Results
  <2>4. Good(p)
    BY <1>3, <1>4, <2>2, <2>3 DEF Good, Owned
  <2> QED BY <1>1, <1>3, <1>5, <2>1, <2>4, QuietStep DEF Holds
<1>7. CASE r \notin decided
  <2>1. decided' = decided \cup {r} /\ Returns(p, "begun", r)
    BY <1>7 DEF Decide
  <2>2. Goes(p, "begun", r) \/ Raises(p)
    BY <2>1 DEF Returns
  <2>3. /\ Handles(p) /\ errors' \in 0..MaxErrors /\ proc'[p].job = j
        /\ (proc'[p].stage = "failed" \/ (proc'[p].stage = "begun" /\ proc'[p].result = r))
    <3>1. r \in Results /\ "begun" \in Stages \ {"idle"}
      BY <1>2 DEF Results, Stages
    <3>2. CASE Goes(p, "begun", r)
      BY <1>1, <3>1, <3>2, GoesHandles
    <3>3. CASE Raises(p)
      BY <1>1, <3>3, RaisesHandles
    <3> QED BY <2>2, <3>2, <3>3
  <2>4. Carries(p)' => proc'[p].result # NoResult /\ Real(proc[p].job, proc[p].result)'
    BY <1>1, <1>2, <2>1, <2>3 DEF Real, Results, Carries, Holds
  <2>5. Good(p)
    BY <1>3, <1>4, <2>3, <2>4 DEF Good, Owned
  <2>6. \A q \in Processes : proc'[q].job = j => q = p
    <3> SUFFICES ASSUME NEW q \in Processes \ {p} PROVE proc'[q].job # j
      OBVIOUS
    <3>1. proc'[q] = proc[q]
      BY <2>3 DEF Handles, DayInv, Typed, QueueTypeOK
    <3>2. CASE Busy(q)
      BY <1>1, <3>1, <3>2 DEF DayInv, OneWorkerPerJob
    <3>3. CASE ~Busy(q)
      BY <1>1, <3>1, <3>3 DEF DayInv, Typed
    <3> QED BY <3>2, <3>3
  <2>7. ASSUME NEW i, i = j, NEW s, s = r PROVE Witness(i, s)'
    BY <1>2, <1>3, <1>4, <2>3, <2>6, <2>7 DEF Witness
  <2>8. Shown'
    <3> SUFFICES ASSUME NEW s \in decided' \ monitored' PROVE \E i \in Decisions : Witness(i, s)'
      BY DEF Shown
    <3>1. CASE s = r
      BY <1>1, <2>7, <3>1
    <3>2. CASE s # r
      BY <1>1, <1>3, <2>1, <2>3, <3>2, ShownStays DEF Holds
    <3> QED BY <3>1, <3>2
  <2> QED BY <1>5, <2>5, <2>8, GoodStep
<1> QED BY <1>6, <1>7

LEMMA MonitorStep ==
  ASSUME DayInv, NEW p \in Processes, MonitorPositions(p)
  PROVE  DayInv'
<1> DEFINE j == proc[p].job
           r == proc[p].result
<1>1. /\ Busy(p) /\ WritesOwn(p) /\ proc[p].stage = "begun"
      /\ j \in Decisions /\ j \in Jobs /\ j \notin Backtests
  BY OwnUnwritten DEF MonitorPositions, Holds, Busy, Jobs
<1>2. r \in Results /\ r \in decided /\ r.date = DateOf[j]
  BY <1>1 DEF DayInv, Typed, QueueTypeOK, Work, Carried, Carries, Holds, Real
<1>3. fills' = fills
  BY DEF MonitorPositions, Monitor
<1>4. /\ Kept /\ job' = job /\ decided' = decided /\ monitored' = monitored \cup {r}
      /\ run' \in [Backtests -> {"NONE", "RUNNING", "COMPLETED", "FAILED"}]
  BY DEF Kept, MonitorPositions, DayInv, Typed, QueueTypeOK
<1>5. job[j].status = "RUNNING"
  BY <1>1 DEF DayInv, OneWorkerPerJob
<1>6. ASSUME NEW own, own = j PROVE RowIsReal(own)'
  BY <1>1, <1>4, <1>6, UnwrittenRow
<1>7. Goes(p, "done", r) \/ Raises(p)
  BY DEF MonitorPositions, Returns
<1>8. /\ Handles(p) /\ errors' \in 0..MaxErrors /\ proc'[p].job = j
      /\ (proc'[p].stage = "failed" \/ (proc'[p].stage = "done" /\ proc'[p].result = r))
  <2>1. "done" \in Stages \ {"idle"}
    BY DEF Stages
  <2>2. CASE Goes(p, "done", r)
    BY <1>1, <1>2, <2>1, <2>2, GoesHandles
  <2>3. CASE Raises(p)
    BY <1>1, <2>3, RaisesHandles
  <2> QED BY <1>7, <2>2, <2>3
<1>9. Carries(p)' => proc'[p].result # NoResult /\ Real(proc[p].job, proc[p].result)'
  BY <1>1, <1>2, <1>4, <1>8 DEF Carries, Holds, Real
<1>10. Good(p)
  BY <1>3, <1>4, <1>5, <1>8, <1>9 DEF Good, Owned, DayInv, Typed
<1>11. Shown'
  <2> SUFFICES ASSUME NEW s \in decided' \ monitored' PROVE \E i \in Decisions : Witness(i, s)'
    BY DEF Shown
  <2> QED BY <1>1, <1>4, <1>8, ShownStays
<1> QED BY <1>6, <1>10, <1>11, GoodStep

LEMMA FailDecisionStep ==
  ASSUME DayInv, NEW p \in Processes, FailDecision(p)
  PROVE  DayInv'
<1>1. Kept /\ run' \in [Backtests -> {"NONE", "RUNNING", "COMPLETED", "FAILED"}]
  BY DEF Kept, FailDecision, DayInv, Typed, QueueTypeOK
<1> QED BY <1>1, RaisingStep DEF FailDecision, HandleError, Quiet, Holds, Busy

-----------------------------------------------------------------------------
(* The steps of nobody with a job in hand. *)

LEMMA ClaimStep ==
  ASSUME DayInv, NEW p \in Processes, Claim(p), Quiet
  PROVE  DayInv'
<1>1. /\ job \in [Jobs -> Row(Results)] /\ proc \in [Processes -> Work(Results)]
      /\ ~Busy(p)
  BY DEF Claim, Busy, DayInv, Typed, QueueTypeOK
<1>2. PICK j \in Oldest :
        /\ job' = [job EXCEPT ![j].status = "RUNNING"]
        /\ proc' = [proc EXCEPT ![p] = [stage |-> "claimed", job |-> j, result |-> NoResult]]
  BY DEF Claim
<1>3. j \in Jobs /\ job[j].status = "PENDING"
  BY DEF Oldest, Claimable, Pending
<1>4. job'[j] = [status |-> "RUNNING", place |-> job[j].place, result |-> job[j].result]
  BY <1>1, <1>2, <1>3 DEF Row
<1>5. job' \in [Jobs -> Row(Results)] /\ \A i \in Jobs \ {j} : job'[i] = job[i]
  BY <1>1, <1>2, <1>3, <1>4 DEF Row
<1>6. proc'[p] = [stage |-> "claimed", job |-> j, result |-> NoResult]
      /\ \A q \in Processes \ {p} : proc'[q] = proc[q]
  BY <1>1, <1>2
<1>7. proc' \in [Processes -> Work(Results)]
  BY <1>1, <1>2, <1>3 DEF Work, Stages
<1>8. UNCHANGED <<run, errors, fills, decided, monitored>>
  BY DEF Claim, Quiet, deskVars
<1>9. \A q \in Processes : Busy(q) => proc[q].job \in Jobs /\ proc[q].job # j
  BY <1>3 DEF DayInv, Typed, OneWorkerPerJob
<1>10. Typed'
  <2>1. QueueTypeOK(Results)'
    BY <1>5, <1>7, <1>8 DEF QueueTypeOK, DayInv, Typed
  <2>2. \A q \in Processes : (IF Busy(q) THEN proc[q].job \in Jobs ELSE proc[q].job = NoJob)'
    BY <1>3, <1>6 DEF Busy, DayInv, Typed
  <2> QED BY <1>8, <2>1, <2>2 DEF DayInv, Typed
<1>11. OneWorkerPerJob'
  <2>1. \A q, s \in Processes :
          (Busy(q) /\ Busy(s) /\ proc[q].job = proc[s].job)' => q = s
    BY <1>6, <1>9 DEF Busy, DayInv, OneWorkerPerJob
  <2>2. \A q \in Processes : Busy(q)' => Owned(q)'
    BY <1>4, <1>5, <1>6, <1>9 DEF Busy, Owned, DayInv, OneWorkerPerJob
  <2> QED BY <2>1, <2>2 DEF OneWorkerPerJob, Owned
<1>12. ResultIsReal'
  BY <1>3, <1>4, <1>5, <1>8 DEF ResultIsReal, DayInv
<1>13. Carried'
  BY <1>6, <1>8 DEF Carried, Carries, Holds, Real, DayInv
<1>14. Shown'
  <2> SUFFICES ASSUME NEW r \in decided \ monitored PROVE \E i \in Decisions : Witness(i, r)'
    BY <1>8 DEF Shown
  <2>1. PICK i \in Decisions : Witness(i, r)
    BY DEF DayInv, Shown
  <2>2. i # j /\ job'[i] = job[i]
    BY <1>3, <1>5, <2>1 DEF Witness, Jobs
  <2>3. Witness(i, r)'
    BY <1>6, <2>1, <2>2 DEF Witness
  <2> QED BY <2>3
<1> QED BY <1>10, <1>11, <1>12, <1>13, <1>14 DEF DayInv

LEMMA EnqueueStep ==
  ASSUME DayInv, NEW j \in Jobs, Enqueue(j), Quiet
  PROVE  DayInv'
<1>1. Cardinality(Enqueued) \in Nat
  BY FS_Subset, FS_CardinalityType DEF Enqueued, Jobs, QueueAssumption
<1>2. job \in [Jobs -> Row(Results)] /\ job[j].status = "ABSENT"
  BY DEF Enqueue, DayInv, Typed, QueueTypeOK
<1>3. job'[j] = [status |-> "PENDING", place |-> Cardinality(Enqueued), result |-> NoResult]
      /\ \A i \in Jobs \ {j} : job'[i] = job[i]
  BY <1>2 DEF Enqueue
<1>4. job' \in [Jobs -> Row(Results)]
  BY <1>1, <1>2 DEF Enqueue, Row
<1>5. UNCHANGED <<run, proc, errors, fills, decided, monitored>>
  BY DEF Enqueue, Quiet, deskVars
<1>6. Typed'
  BY <1>4, <1>5 DEF DayInv, Typed, QueueTypeOK, Busy
<1>7. OneWorkerPerJob'
  BY <1>2, <1>3, <1>5 DEF DayInv, Typed, OneWorkerPerJob, Busy
<1>8. ResultIsReal'
  BY <1>3, <1>5 DEF DayInv, ResultIsReal
<1>9. Carried'
  BY <1>5 DEF DayInv, Carried, Carries, Holds, Real
<1>10. Shown'
  <2> SUFFICES ASSUME NEW r \in decided \ monitored PROVE \E i \in Decisions : Witness(i, r)'
    BY <1>5 DEF Shown
  <2>1. PICK i \in Decisions : Witness(i, r)
    BY DEF DayInv, Shown
  <2>2. job'[i] = job[i]
    BY <1>2, <1>3, <2>1 DEF Witness, Jobs
  <2>3. Witness(i, r)'
    BY <1>5, <2>1, <2>2 DEF Witness
  <2> QED BY <2>3
<1> QED BY <1>6, <1>7, <1>8, <1>9, <1>10 DEF DayInv

(* Runs that are repaired, and what happens to the holdings. *)
LEMMA OutsideStep ==
  ASSUME DayInv, UNCHANGED <<job, proc, errors, decided, monitored>>, fills' \in Nat,
         run' \in [Backtests -> {"NONE", "RUNNING", "COMPLETED", "FAILED"}],
         \A b \in Backtests : run[b] = "COMPLETED" => run'[b] = "COMPLETED"
  PROVE  DayInv'
<1>1. Typed'
  BY DEF DayInv, Typed, QueueTypeOK, Busy
<1>2. OneWorkerPerJob'
  BY DEF DayInv, OneWorkerPerJob, Busy
<1>3. ResultIsReal'
  BY DEF DayInv, ResultIsReal
<1>4. Carried'
  BY DEF DayInv, Carried, Carries, Holds, Real
<1>5. Shown'
  BY DEF DayInv, Shown, Witness
<1> QED BY <1>1, <1>2, <1>3, <1>4, <1>5 DEF DayInv

LEMMA RepairStep ==
  ASSUME DayInv, Repair, Quiet
  PROVE  DayInv'
<1>1. run \in [Backtests -> {"NONE", "RUNNING", "COMPLETED", "FAILED"}] /\ fills \in Nat
  BY DEF DayInv, Typed, QueueTypeOK
<1> QED BY <1>1, OutsideStep DEF Repair, Orphans, Quiet, deskVars

LEMMA HoldingsStep ==
  ASSUME DayInv, Fill \/ Expire \/ Tick, UNCHANGED <<queueVars, decided, monitored>>
  PROVE  DayInv'
<1>1. fills \in Nat /\ run \in [Backtests -> {"NONE", "RUNNING", "COMPLETED", "FAILED"}]
  BY DEF DayInv, Typed, QueueTypeOK
<1>2. fills' = fills \/ fills' = fills + 1
  BY DEF Fill, Buy, Sell, Expire, Tick
<1> QED BY <1>1, <1>2, OutsideStep DEF queueVars

-----------------------------------------------------------------------------

LEMMA DayStep == DayInv /\ [Next]_vars => DayInv'
<1> SUFFICES ASSUME DayInv, [Next]_vars PROVE DayInv'
  OBVIOUS
<1>1. CASE Request
  BY <1>1, EnqueueStep DEF Request, Quiet, Jobs
<1>2. CASE Environment
  BY <1>2, DieStep, RepairStep, HoldingsStep DEF Environment, Quiet
<1>3. ASSUME NEW p \in Processes, WorkOn(p) PROVE DayInv'
  <2>1. CASE Queue(p) /\ Quiet
    BY <2>1, StartWorkStep, StartRunStep, FinishRunStep, FailRunStep, WriteCompletedStep,
       LastHeartbeatStep, FailLateStep, WriteFailedStep DEF Queue
  <2>2. CASE Claim(p) /\ Quiet
    BY <2>2, ClaimStep
  <2>3. CASE Decide(p) \/ MonitorPositions(p) \/ FailDecision(p)
    BY <2>3, DecideStep, MonitorStep, FailDecisionStep
  <2> QED BY <1>3, <2>1, <2>2, <2>3 DEF WorkOn, Quiet
<1>4. CASE UNCHANGED vars
  <2>1. run \in [Backtests -> {"NONE", "RUNNING", "COMPLETED", "FAILED"}] /\ fills \in Nat
    BY DEF DayInv, Typed, QueueTypeOK
  <2> QED BY <1>4, <2>1, OutsideStep DEF vars, queueVars, deskVars
<1> QED BY <1>1, <1>2, <1>3, <1>4 DEF Next

LEMMA DayInvariant == Spec => []DayInv
  BY InitDay, DayStep, PTL DEF Spec

-----------------------------------------------------------------------------

(* No job is in the hands of two workers, and no worker holds a row that   *)
(* is pending again or that another one ended, although the claim is the   *)
(* only guard and there is no lease (job_worker._claim_job).               *)
THEOREM OneWorker == Spec => []OneWorkerPerJob
  BY DayInvariant, PTL DEF DayInv

(* A COMPLETED row has a result, and the result of any row names a         *)
(* committed decision of the job's date or a COMPLETED run of the          *)
(* backtest, whatever failed after it was written (job_worker.run_one_job). *)
THEOREM ResultsReal == Spec => []ResultIsReal
  BY DayInvariant, PTL DEF DayInv

(* A decision that was committed but whose positions nobody monitored is   *)
(* seen on a RUNNING or FAILED row of its date: the second job that finds  *)
(* the decision and completes does not hide it (decision_worker).          *)
THEOREM UnmonitoredSeen == Spec => []UnmonitoredShows
<1>1. DayInv => UnmonitoredShows
  BY DEF DayInv, Shown, Witness, UnmonitoredShows
<1> QED BY <1>1, DayInvariant, PTL
-----------------------------------------------------------------------------
(* Sums of the first numbers of a sequence.                                *)

LEMMA Least ==
  ASSUME NEW T \in SUBSET Nat, T # {}
  PROVE  \E n \in T : \A m \in T : n <= m
<1>1. IsWellFoundedOn(OpToRel(<, Nat), Nat)
  BY NatLessThanWellFounded
<1>2. PICK n \in T : \A m \in T : ~ (<<m, n>> \in OpToRel(<, Nat))
  BY <1>1, WFMin
<1>3. \A m \in T : ~ (m < n)
  BY <1>2 DEF OpToRel
<1> QED BY <1>3

IsCount(g, n, w) == g = [i \in 0..n |-> IF i = 0 THEN 0 ELSE g[i - 1] + w[i]]
Count(w, n) == (CHOOSE g : IsCount(g, n, w))[n]

LEMMA CountUnique ==
  ASSUME NEW n \in Nat, NEW m \in 0..n, NEW w, NEW g, NEW h, IsCount(g, n, w), IsCount(h, m, w)
  PROVE  g[m] = h[m]
<1> DEFINE T == {i \in 0..m : g[i] # h[i]}
<1>1. SUFFICES ASSUME T # {} PROVE FALSE
  OBVIOUS
<1>2. PICK i \in T : \A j \in T : i <= j
  <2>1. T \in SUBSET Nat
    OBVIOUS
  <2> QED BY <1>1, <2>1, Least
<1>3. g[i] = IF i = 0 THEN 0 ELSE g[i - 1] + w[i]
  BY DEF IsCount
<1>4. h[i] = IF i = 0 THEN 0 ELSE h[i - 1] + w[i]
  BY DEF IsCount
<1>5. i # 0 => i - 1 \in 0..m /\ i - 1 \notin T
  BY <1>2
<1> QED BY <1>2, <1>3, <1>4, <1>5

LEMMA CountExists ==
  ASSUME NEW n \in Nat, NEW w
  PROVE  \E g : IsCount(g, n, w)
<1> DEFINE T == {i \in Nat : ~ \E g : IsCount(g, i, w)}
<1>1. SUFFICES ASSUME T # {} PROVE FALSE
  OBVIOUS
<1>2. PICK i \in T : \A j \in T : i <= j
  BY <1>1, Least
<1>3. CASE i = 0
  <2>1. IsCount([j \in 0..0 |-> 0], 0, w)
    BY DEF IsCount
  <2> QED BY <1>2, <1>3, <2>1
<1>4. CASE i # 0
  <2>1. i - 1 \in Nat /\ i - 1 \notin T
    BY <1>2, <1>4
  <2>2. PICK h : IsCount(h, i - 1, w)
    BY <2>1
  <2> DEFINE g == [j \in 0..i |-> IF j = i THEN h[i - 1] + w[i] ELSE h[j]]
  <2>3. \A j \in 0..(i - 1) : h[j] = IF j = 0 THEN 0 ELSE h[j - 1] + w[j]
    BY <2>2 DEF IsCount
  <2>4. \A j \in 0..i : g[j] = IF j = 0 THEN 0 ELSE g[j - 1] + w[j]
    BY <1>4, <2>1, <2>3
  <2>5. g = [j \in 0..i |-> g[j]]
    OBVIOUS
  <2>6. IsCount(g, i, w)
    <3> HIDE DEF g
    <3> QED BY <2>4, <2>5 DEF IsCount
  <2> QED BY <1>2, <2>6
<1> QED BY <1>3, <1>4

LEMMA CountIs ==
  ASSUME NEW n \in Nat, NEW m \in 0..n, NEW w, NEW g, IsCount(g, n, w)
  PROVE  Count(w, m) = g[m]
<1>1. m \in Nat
  OBVIOUS
<1>2. IsCount(CHOOSE h : IsCount(h, m, w), m, w)
  BY <1>1, CountExists
<1> QED BY <1>2, CountUnique DEF Count

LEMMA CountStep ==
  ASSUME NEW w
  PROVE  /\ Count(w, 0) = 0
         /\ \A n \in Nat : Count(w, n + 1) = Count(w, n) + w[n + 1]
<1>1. Count(w, 0) = 0
  <2>1. PICK g : IsCount(g, 0, w)
    BY CountExists
  <2>2. Count(w, 0) = g[0]
    BY <2>1, CountIs
  <2>3. g[0] = 0
    BY <2>1 DEF IsCount
  <2> QED BY <2>2, <2>3
<1>2. ASSUME NEW n \in Nat PROVE Count(w, n + 1) = Count(w, n) + w[n + 1]
  <2>1. PICK g : IsCount(g, n + 1, w)
    BY CountExists
  <2>2. Count(w, n + 1) = g[n + 1] /\ Count(w, n) = g[n]
    BY <2>1, CountIs
  <2>3. g[n + 1] = g[n] + w[n + 1]
    BY <2>1 DEF IsCount
  <2> QED BY <2>2, <2>3
<1> QED BY <1>1, <1>2

(* A sum of naturals is one, and no smaller than each of them. *)
LEMMA CountNat ==
  ASSUME NEW n \in Nat, NEW w, \A i \in 1..n : w[i] \in Nat
  PROVE  Count(w, n) \in Nat /\ \A i \in 1..n : w[i] <= Count(w, n)
<1> DEFINE T == {i \in 0..n : ~ (Count(w, i) \in Nat /\ \A j \in 1..i : w[j] <= Count(w, i))}
<1>1. SUFFICES ASSUME T # {} PROVE FALSE
  OBVIOUS
<1>2. PICK i \in T : \A j \in T : i <= j
  <2>1. T \in SUBSET Nat
    OBVIOUS
  <2> QED BY <1>1, <2>1, Least
<1>3. CASE i = 0
  BY <1>2, <1>3, CountStep
<1>4. CASE i # 0
  <2>1. i - 1 \in 0..n /\ i - 1 \in Nat /\ i - 1 \notin T
    BY <1>2, <1>4
  <2>2. Count(w, i) = Count(w, i - 1) + w[i]
    <3>1. Count(w, (i - 1) + 1) = Count(w, i - 1) + w[(i - 1) + 1]
      BY <2>1, CountStep
    <3> QED BY <3>1
  <2>3. Count(w, i) \in Nat /\ \A j \in 1..i : w[j] <= Count(w, i)
    BY <1>4, <2>1, <2>2
  <2> QED BY <1>2, <2>3
<1> QED BY <1>3, <1>4

LEMMA CountSmaller ==
  ASSUME NEW n \in Nat, NEW v, NEW w, \A i \in 1..n : v[i] \in Nat /\ w[i] \in Nat /\ v[i] <= w[i]
  PROVE  Count(v, n) <= Count(w, n)
<1> DEFINE T == {i \in 0..n : ~ (Count(v, i) <= Count(w, i))}
<1>1. SUFFICES ASSUME T # {} PROVE FALSE
  OBVIOUS
<1>2. PICK i \in T : \A j \in T : i <= j
  <2>1. T \in SUBSET Nat
    OBVIOUS
  <2> QED BY <1>1, <2>1, Least
<1>3. CASE i = 0
  BY <1>2, <1>3, CountStep
<1>4. CASE i # 0
  <2>1. i - 1 \in 0..n /\ i - 1 \in Nat /\ i - 1 \notin T
    BY <1>2, <1>4
  <2>2. Count(w, (i - 1) + 1) = Count(w, i - 1) + w[(i - 1) + 1]
    BY <2>1, CountStep
  <2>3. Count(v, (i - 1) + 1) = Count(v, i - 1) + v[(i - 1) + 1]
    BY <2>1, CountStep
  <2>4. Count(w, i - 1) \in Nat /\ Count(v, i - 1) \in Nat
    BY <2>1, CountNat
  <2>5. (i - 1) + 1 = i
    OBVIOUS
  <2> QED BY <1>2, <2>1, <2>2, <2>3, <2>4, <2>5
<1> QED BY <1>3, <1>4

(* Numbers that are the same from some place on, but for their places, add *)
(* the same.                                                               *)
GoesOn(v, b, n, w, m) == \A i \in (b + 1)..n : v[i] \in Int /\ v[i] = w[m + i - b]

LEMMA CountOn ==
  ASSUME NEW n \in Nat, NEW b \in 0..n, NEW m \in Nat, NEW v, NEW w, GoesOn(v, b, n, w, m),
         Count(w, m) \in Int, Count(v, b) \in Int
  PROVE  Count(v, n) - Count(v, b) = Count(w, m + n - b) - Count(w, m)
<1> DEFINE T == {i \in b..n : ~ (/\ Count(v, i) \in Int /\ Count(w, m + i - b) \in Int
                                 /\ Count(v, i) - Count(v, b) = Count(w, m + i - b) - Count(w, m))}
<1>1. SUFFICES ASSUME T # {} PROVE FALSE
  OBVIOUS
<1>2. PICK i \in T : \A j \in T : i <= j
  <2>1. T \in SUBSET Nat
    OBVIOUS
  <2> QED BY <1>1, <2>1, Least
<1>3. CASE i = b
  <2>1. m + i - b = m
    BY <1>3
  <2> QED BY <1>2, <1>3, <2>1
<1>4. CASE i # b
  <2>1. i - 1 \in b..n /\ i - 1 \in Nat /\ i - 1 \notin T /\ i \in (b + 1)..n /\ i \in 1..n
    BY <1>2, <1>4
  <2> DEFINE j == m + (i - 1) - b
  <2>2. j \in Nat /\ m + i - b = j + 1 /\ (i - 1) + 1 = i
    BY <2>1
  <2>3. Count(w, j + 1) = Count(w, j) + w[j + 1]
    BY <2>2, CountStep
  <2>4. Count(v, (i - 1) + 1) = Count(v, i - 1) + v[(i - 1) + 1]
    BY <2>1, CountStep
  <2>5. /\ Count(v, i - 1) \in Int /\ Count(w, j) \in Int
        /\ Count(v, i - 1) - Count(v, b) = Count(w, j) - Count(w, m)
    BY <2>1
  <2>6. v[i] = w[j + 1] /\ v[i] \in Int
    BY <2>1, <2>2 DEF GoesOn
  <2>7. Count(v, i) = Count(v, i - 1) + v[i] /\ Count(w, m + i - b) = Count(w, j) + v[i]
    BY <2>2, <2>3, <2>4, <2>6
  <2> HIDE DEF j
  <2>8. i \notin T
    BY <2>5, <2>6, <2>7
  <2> QED BY <1>2, <2>8
<1> QED BY <1>3, <1>4

LEMMA CountSame ==
  ASSUME NEW n \in Nat, NEW v, NEW w, \A i \in 1..n : v[i] \in Int /\ v[i] = w[i]
  PROVE  Count(v, n) = Count(w, n)
<1>1. Count(v, 0) = 0 /\ Count(w, 0) = 0
  BY CountStep
<1> DEFINE T == {i \in 0..n : ~ (Count(v, i) = Count(w, i))}
<1>2. SUFFICES ASSUME T # {} PROVE FALSE
  OBVIOUS
<1>3. PICK i \in T : \A j \in T : i <= j
  <2>1. T \in SUBSET Nat
    OBVIOUS
  <2> QED BY <1>2, <2>1, Least
<1>4. i # 0 /\ i - 1 \in Nat /\ i - 1 \in 0..n /\ i - 1 \notin T
  BY <1>1, <1>3
<1>5. Count(w, (i - 1) + 1) = Count(w, i - 1) + w[(i - 1) + 1]
  BY <1>4, CountStep
<1>6. Count(v, (i - 1) + 1) = Count(v, i - 1) + v[(i - 1) + 1]
  BY <1>4, CountStep
<1>7. (i - 1) + 1 = i
  OBVIOUS
<1> QED BY <1>3, <1>4, <1>5, <1>6, <1>7

(* What is inserted in a sequence moves what is behind it by one. *)
LEMMA InsertedIs ==
  ASSUME NEW S, NEW seq \in Seq(S), NEW e \in S, NEW k \in 1..(Len(seq) + 1)
  PROVE  LET t == InsertAt(seq, k, e)
         IN  /\ t \in Seq(S) /\ Len(t) = Len(seq) + 1
             /\ \A n \in 1..(Len(seq) + 1) :
                  t[n] = IF n < k THEN seq[n] ELSE IF n = k THEN e ELSE seq[n - 1]
<1> DEFINE a == SubSeq(seq, 1, k - 1)
           b == SubSeq(seq, k, Len(seq))
<1>1. /\ Len(seq) \in Nat /\ k \in Int /\ k - 1 \in Int /\ 1 \in Int
      /\ \A i \in 1..Len(seq) : seq[i] \in S
  BY LenProperties, ElementOfSeq
<1>2. /\ a \in Seq(S) /\ Len(a) = k - 1
      /\ \A i \in 1..(k - 1) : a[i] = seq[i]
  <2>1. \A i \in 1..(k - 1) : seq[i] \in S
    BY <1>1
  <2>2. /\ a \in Seq(S) /\ Len(a) = IF 1 <= k - 1 THEN (k - 1) - 1 + 1 ELSE 0
        /\ \A i \in 1..((k - 1) - 1 + 1) : a[i] = seq[1 + i - 1]
    BY <1>1, <2>1, SubSeqProperties
  <2> QED BY <1>1, <2>2
<1>3. /\ b \in Seq(S) /\ Len(b) = Len(seq) - k + 1
      /\ \A i \in 1..(Len(seq) - k + 1) : b[i] = seq[k + i - 1]
  <2>1. \A i \in k..Len(seq) : seq[i] \in S
    BY <1>1
  <2>2. /\ b \in Seq(S) /\ Len(b) = IF k <= Len(seq) THEN Len(seq) - k + 1 ELSE 0
        /\ \A i \in 1..(Len(seq) - k + 1) : b[i] = seq[k + i - 1]
    BY <1>1, <2>1, SubSeqProperties
  <2> QED BY <1>1, <2>2
<1>4. <<e>> \in Seq(S) /\ Len(<<e>>) = 1 /\ <<e>>[1] = e
  OBVIOUS
<1>5. InsertAt(seq, k, e) = a \o <<e>> \o b
  BY DEF InsertAt
<1> HIDE DEF a, b
<1>6. /\ a \o <<e>> \in Seq(S) /\ Len(a \o <<e>>) = k
      /\ \A i \in 1..k : (a \o <<e>>)[i] = IF i <= k - 1 THEN a[i] ELSE <<e>>[i - (k - 1)]
  <2>1. /\ a \o <<e>> \in Seq(S) /\ Len(a \o <<e>>) = Len(a) + Len(<<e>>)
        /\ \A i \in 1..(Len(a) + Len(<<e>>)) :
             (a \o <<e>>)[i] = IF i <= Len(a) THEN a[i] ELSE <<e>>[i - Len(a)]
    BY <1>2, <1>4, ConcatProperties
  <2> QED BY <1>1, <1>2, <1>4, <2>1
<1> DEFINE c == a \o <<e>>
<1>7. \A i \in 1..k : c[i] = IF i < k THEN seq[i] ELSE e
  BY <1>1, <1>2, <1>4, <1>6
<1>8. c \in Seq(S) /\ Len(c) = k
  BY <1>6
<1> HIDE DEF c
<1>9. /\ c \o b \in Seq(S) /\ Len(c \o b) = Len(c) + Len(b)
      /\ \A i \in 1..(Len(c) + Len(b)) :
           (c \o b)[i] = IF i <= Len(c) THEN c[i] ELSE b[i - Len(c)]
  BY <1>3, <1>8, ConcatProperties
<1>10. Len(c) + Len(b) = Len(seq) + 1
  BY <1>1, <1>3, <1>8
<1>11. ASSUME NEW n \in 1..(Len(seq) + 1)
       PROVE  (c \o b)[n] = IF n < k THEN seq[n] ELSE IF n = k THEN e ELSE seq[n - 1]
  <2>1. CASE n <= k
    <3>1. (c \o b)[n] = c[n]
      BY <1>8, <1>9, <1>10, <2>1
    <3> QED BY <1>1, <1>7, <2>1, <3>1
  <2>2. CASE n > k
    <3>1. (c \o b)[n] = b[n - k]
      BY <1>1, <1>8, <1>9, <1>10, <2>2
    <3>2. n - k \in 1..(Len(seq) - k + 1) /\ k + (n - k) - 1 = n - 1
      BY <1>1, <2>2
    <3>3. b[n - k] = seq[n - 1]
      BY <1>3, <3>2
    <3> QED BY <1>1, <2>2, <3>1, <3>3
  <2>3. n <= k \/ n > k
    BY <1>1
  <2> QED BY <2>1, <2>2, <2>3
<1>12. InsertAt(seq, k, e) = c \o b
  BY <1>5 DEF c
<1> QED BY <1>9, <1>10, <1>11, <1>12

(* The greatest of some naturals with a bound. *)
LEMMA GreatestIs ==
  ASSUME NEW n \in Nat, NEW S \in SUBSET (0..n), S # {}
  PROVE  Max(S) \in S /\ \A y \in S : y <= Max(S)
<1> DEFINE T == {i \in 0..n : n - i \in S}
<1>1. T \in SUBSET Nat /\ T # {}
  <2>1. PICK x \in S : TRUE
    OBVIOUS
  <2>2. x \in 0..n
    OBVIOUS
  <2>3. n - x \in 0..n /\ n - (n - x) = x
    BY <2>2
  <2>4. n - x \in T
    BY <2>3
  <2>5. T \in SUBSET Nat
    OBVIOUS
  <2> QED BY <2>4, <2>5
<1>2. PICK i \in T : \A j \in T : i <= j
  BY <1>1, Least
<1>3. n - i \in S /\ \A y \in S : n - i >= y
  <2>1. \A y \in S : n - y \in T
    OBVIOUS
  <2> QED BY <1>2, <2>1
<1>4. Max(S) \in S /\ \A y \in S : Max(S) >= y
  BY <1>3 DEF Max
<1> QED BY <1>4

-----------------------------------------------------------------------------
(* What the lots hold.                                                     *)

LEMMA QuantityIs ==
  ASSUME NEW s, Len(s) \in Nat, NEW I, NEW w,
         \A i \in 1..Len(s) : w[i] = IF i \in I THEN s[i].quantity ELSE 0
  PROVE  Quantity(s, I) = Count(w, Len(s))
<1> DEFINE F(h) == [n \in 0..Len(s) |->
                      IF n = 0 THEN 0 ELSE h[n - 1] + IF n \in I THEN s[n].quantity ELSE 0]
           g == CHOOSE h : h = F(h)
<1>1. ASSUME NEW h PROVE h = F(h) <=> IsCount(h, Len(s), w)
  <2>1. F(h) = [n \in 0..Len(s) |-> IF n = 0 THEN 0 ELSE h[n - 1] + w[n]]
    OBVIOUS
  <2> QED BY <2>1 DEF IsCount
<1>2. \E h : h = F(h)
  <2>1. PICK h : IsCount(h, Len(s), w)
    BY CountExists
  <2> QED BY <1>1, <2>1
<1>3. g = F(g)
  BY <1>2
<1>4. IsCount(g, Len(s), w)
  BY <1>1, <1>3
<1>5. Quantity(s, I) = g[Len(s)]
  BY DEF Quantity
<1> HIDE DEF g
<1> QED BY <1>4, <1>5, CountIs

Weights(s, I) == [i \in 1..Len(s) |-> IF i \in I THEN s[i].quantity ELSE 0]

LEMMA LotsAre ==
  ASSUME NEW s \in Seq(Lot)
  PROVE  /\ Len(s) \in Nat /\ DOMAIN s = 1..Len(s)
         /\ \A i \in 1..Len(s) : s[i] \in Lot /\ s[i].quantity \in Nat /\ s[i].quantity \in Int
<1>1. Len(s) \in Nat /\ DOMAIN s = 1..Len(s)
  BY LenProperties
<1>2. \A i \in 1..Len(s) : s[i] \in Lot
  BY ElementOfSeq
<1> QED BY <1>1, <1>2 DEF Lot

LEMMA QuantityWeighs ==
  ASSUME NEW s \in Seq(Lot), NEW I
  PROVE  /\ Quantity(s, I) = Count(Weights(s, I), Len(s)) /\ Quantity(s, I) \in Nat
         /\ \A i \in 1..Len(s) : /\ Weights(s, I)[i] = IF i \in I THEN s[i].quantity ELSE 0
                                 /\ Weights(s, I)[i] \in Nat /\ Weights(s, I)[i] \in Int
         /\ \A i \in 1..Len(s) : i \in I => s[i].quantity <= Quantity(s, I)
<1> DEFINE w == Weights(s, I)
<1>1. \A i \in 1..Len(s) : /\ w[i] = IF i \in I THEN s[i].quantity ELSE 0
                           /\ w[i] \in Nat /\ w[i] \in Int
  BY LotsAre DEF Weights
<1>2. Len(s) \in Nat
  BY LotsAre
<1> HIDE DEF w
<1>3. Quantity(s, I) = Count(w, Len(s))
  BY <1>1, <1>2, QuantityIs
<1>4. Count(w, Len(s)) \in Nat /\ \A i \in 1..Len(s) : w[i] <= Count(w, Len(s))
  BY <1>1, <1>2, CountNat
<1>5. \A i \in 1..Len(s) : i \in I => s[i].quantity <= Quantity(s, I)
  BY <1>1, <1>3, <1>4
<1> QED BY <1>1, <1>3, <1>4, <1>5 DEF w

LEMMA QuantityPart ==
  ASSUME NEW s \in Seq(Lot), NEW I, NEW J, I \subseteq J
  PROVE  Quantity(s, I) <= Quantity(s, J)
<1> DEFINE v == Weights(s, I)
           w == Weights(s, J)
<1>1. /\ Quantity(s, I) = Count(v, Len(s)) /\ Quantity(s, J) = Count(w, Len(s))
      /\ \A i \in 1..Len(s) : v[i] \in Nat /\ w[i] \in Nat /\ v[i] <= w[i]
  <2>1. \A i \in 1..Len(s) : /\ v[i] = IF i \in I THEN s[i].quantity ELSE 0
                             /\ w[i] = IF i \in J THEN s[i].quantity ELSE 0
                             /\ v[i] \in Nat /\ w[i] \in Nat
    BY QuantityWeighs
  <2>2. Quantity(s, I) = Count(v, Len(s)) /\ Quantity(s, J) = Count(w, Len(s))
    BY QuantityWeighs
  <2> HIDE DEF v, w
  <2>3. \A i \in 1..Len(s) : v[i] <= w[i]
    BY <2>1
  <2> QED BY <2>1, <2>2, <2>3
<1>2. Len(s) \in Nat
  BY LotsAre
<1> HIDE DEF v, w
<1> QED BY <1>1, <1>2, CountSmaller

LEMMA QuantitySame ==
  ASSUME NEW s \in Seq(Lot), NEW t \in Seq(Lot), Len(t) = Len(s),
         \A i \in 1..Len(s) : t[i].quantity = s[i].quantity, NEW I
  PROVE  Quantity(t, I) = Quantity(s, I)
<1>1. Len(s) \in Nat /\ Len(t) \in Nat
  BY LotsAre
<1>2. \A i \in 1..Len(s) : Weights(s, I)[i] = IF i \in I THEN s[i].quantity ELSE 0
  BY QuantityWeighs
<1>3. Quantity(s, I) = Count(Weights(s, I), Len(s))
  BY <1>1, <1>2, QuantityIs
<1>4. \A i \in 1..Len(t) : Weights(s, I)[i] = IF i \in I THEN t[i].quantity ELSE 0
  BY <1>2
<1>5. Quantity(t, I) = Count(Weights(s, I), Len(t))
  BY <1>1, <1>4, QuantityIs
<1> QED BY <1>3, <1>5

(* A lot bought adds its quantity. *)
LEMMA QuantityInserted ==
  ASSUME NEW s \in Seq(Lot), NEW e \in Lot, NEW k \in 1..(Len(s) + 1)
  PROVE  LET t == InsertAt(s, k, e)
         IN  Quantity(t, DOMAIN t) = Quantity(s, DOMAIN s) + e.quantity
<1> DEFINE t == InsertAt(s, k, e)
           n == Len(s)
           v == Weights(t, DOMAIN t)
           w == Weights(s, DOMAIN s)
<1>1. /\ t \in Seq(Lot) /\ Len(t) = n + 1
      /\ \A i \in 1..(n + 1) : t[i] = IF i < k THEN s[i] ELSE IF i = k THEN e ELSE s[i - 1]
  BY ONLY s \in Seq(Lot), e \in Lot, k \in 1..(Len(s) + 1), InsertedIs DEF t, n
<1>2. /\ n \in Nat /\ DOMAIN s = 1..n /\ DOMAIN t = 1..(n + 1) /\ k \in 1..(n + 1)
      /\ e.quantity \in Nat
  BY <1>1, LotsAre DEF Lot
<1>3. \A i \in 1..(n + 1) : v[i] = t[i].quantity /\ v[i] \in Int
  BY <1>1, <1>2, QuantityWeighs
<1>4. \A i \in 1..n : w[i] = s[i].quantity /\ w[i] \in Int /\ w[i] \in Nat
  BY <1>2, QuantityWeighs
<1>5. Quantity(t, DOMAIN t) = Count(v, n + 1) /\ Quantity(s, DOMAIN s) = Count(w, n)
      /\ Quantity(s, DOMAIN s) \in Nat
  BY <1>1, QuantityWeighs
<1> HIDE DEF t, n, v, w
<1>6. \A i \in 1..(n + 1) :
        v[i] = IF i < k THEN w[i] ELSE IF i = k THEN e.quantity ELSE w[i - 1]
  <2> TAKE i \in 1..(n + 1)
  <2>1. CASE i < k
    BY <1>1, <1>2, <1>3, <1>4, <2>1
  <2>2. CASE i = k
    BY <1>1, <1>2, <1>3, <2>2
  <2>3. CASE i > k
    BY <1>1, <1>2, <1>3, <1>4, <2>3
  <2> QED BY <1>2, <2>1, <2>2, <2>3
<1> DEFINE m == k - 1
<1>7. m \in 0..n /\ m \in Nat /\ m + 1 = k /\ k \in 0..(n + 1)
  BY <1>2
<1>8. Count(w, m) \in Nat
  <2>1. \A i \in 1..m : w[i] \in Nat
    BY <1>2, <1>4, <1>7
  <2> HIDE DEF m
  <2> QED BY <1>7, <2>1, CountNat
<1>9. Count(v, m) = Count(w, m)
  <2>1. \A i \in 1..m : v[i] \in Int /\ v[i] = w[i]
    BY <1>2, <1>3, <1>6, <1>7
  <2> HIDE DEF m
  <2> QED BY <1>7, <2>1, CountSame
<1>10. Count(v, k) = Count(w, m) + e.quantity
  <2>1. Count(v, m + 1) = Count(v, m) + v[m + 1]
    BY <1>7, CountStep
  <2>2. v[m + 1] = e.quantity
    BY <1>2, <1>6, <1>7
  <2> QED BY <1>7, <1>9, <2>1, <2>2
<1>11. Count(v, n + 1) - Count(v, k) = Count(w, m + (n + 1) - k) - Count(w, m)
  <2>1. GoesOn(v, k, n + 1, w, m)
    <3> SUFFICES ASSUME NEW i \in (k + 1)..(n + 1) PROVE v[i] \in Int /\ v[i] = w[m + i - k]
      BY DEF GoesOn
    <3> QED BY <1>2, <1>3, <1>6, <1>7
  <2>2. Count(v, k) \in Int /\ Count(w, m) \in Int
    BY <1>2, <1>8, <1>10
  <2> HIDE DEF m
  <2> QED BY <1>2, <1>7, <2>1, <2>2, CountOn
<1>12. m + (n + 1) - k = n
  BY <1>2, <1>7
<1> HIDE DEF m
<1>13. Count(v, n + 1) \in Nat /\ Count(w, n) \in Nat
  <2>1. n + 1 \in Nat /\ \A i \in 1..(n + 1) : v[i] \in Nat
    BY <1>2, <1>4, <1>6
  <2> QED BY <1>2, <1>4, <2>1, CountNat
<1>14. Count(v, n + 1) = Count(w, n) + e.quantity
  <2>1. Count(w, m + (n + 1) - k) = Count(w, n)
    BY <1>12
  <2>2. Count(v, k) \in Nat
    BY <1>2, <1>8, <1>10
  <2> QED BY <1>2, <1>8, <1>10, <1>11, <1>13, <2>1, <2>2
<1>15. Quantity(t, DOMAIN t) = Quantity(s, DOMAIN s) + e.quantity
  BY <1>5, <1>14
<1> QED BY <1>15 DEF t

LEMMA CountNothing ==
  ASSUME NEW n \in Nat, NEW w, \A i \in 1..n : w[i] = 0
  PROVE  Count(w, n) = 0
<1>1. Count(w, 0) = 0
  BY CountStep
<1> DEFINE T == {i \in 0..n : Count(w, i) # 0}
<1>2. SUFFICES ASSUME T # {} PROVE FALSE
  OBVIOUS
<1>3. PICK i \in T : \A j \in T : i <= j
  <2>1. T \in SUBSET Nat
    OBVIOUS
  <2> QED BY <1>2, <2>1, Least
<1>4. i # 0 /\ i - 1 \in Nat /\ i - 1 \in 0..n /\ i - 1 \notin T
  BY <1>1, <1>3
<1>5. Count(w, (i - 1) + 1) = Count(w, i - 1) + w[(i - 1) + 1]
  BY <1>4, CountStep
<1>6. (i - 1) + 1 = i
  OBVIOUS
<1> QED BY <1>3, <1>4, <1>5, <1>6

(* The first lots hold what the first numbers add up to. *)
LEMMA QuantityFirst ==
  ASSUME NEW s \in Seq(Lot), NEW w, \A i \in 1..Len(s) : w[i] = s[i].quantity,
         NEW m \in 0..Len(s)
  PROVE  Quantity(s, 1..m) = Count(w, m) /\ Count(w, m) \in Nat
<1> DEFINE n == Len(s)
           v == Weights(s, 1..m)
           z == [i \in Nat |-> 0]
<1>1. n \in Nat /\ m \in 0..n /\ m \in Nat
  BY LotsAre
<1>2. \A i \in 1..n : v[i] = IF i \in 1..m THEN s[i].quantity ELSE 0
  BY QuantityWeighs
<1>3. \A i \in 1..n : v[i] \in Nat /\ v[i] \in Int /\ s[i].quantity \in Nat
  BY LotsAre, QuantityWeighs
<1>4. Quantity(s, 1..m) = Count(v, n)
  BY QuantityWeighs
<1>5. \A i \in 1..n : w[i] = s[i].quantity
  OBVIOUS
<1> HIDE DEF n, v
<1>6. Count(v, m) = Count(w, m)
  <2>1. \A i \in 1..m : v[i] \in Int /\ v[i] = w[i]
    BY <1>1, <1>2, <1>3, <1>5
  <2> QED BY <1>1, <2>1, CountSame
<1>7. Count(w, m) \in Nat
  <2>1. \A i \in 1..m : w[i] \in Nat
    BY <1>1, <1>3, <1>5
  <2> QED BY <1>1, <2>1, CountNat
<1>8. Count(z, 0) = 0 /\ Count(z, n - m) = 0
  <2>1. n - m \in Nat /\ \A i \in 1..(n - m) : z[i] = 0
    BY <1>1
  <2> HIDE DEF z
  <2> QED BY <2>1, CountStep, CountNothing
<1>9. GoesOn(v, m, n, z, 0)
  <2> SUFFICES ASSUME NEW i \in (m + 1)..n PROVE v[i] \in Int /\ v[i] = z[0 + i - m]
    BY DEF GoesOn
  <2>1. v[i] = 0
    BY <1>1, <1>2
  <2>2. 0 + i - m \in Nat
    BY <1>1
  <2> QED BY <2>1, <2>2
<1> HIDE DEF z
<1>10. Count(v, n) - Count(v, m) = Count(z, 0 + n - m) - Count(z, 0)
  <2>1. Count(z, 0) \in Int /\ Count(v, m) \in Int
    BY <1>6, <1>7, <1>8
  <2>2. 0 \in Nat
    OBVIOUS
  <2> QED BY <1>1, <1>9, <2>1, <2>2, CountOn
<1>11. 0 + n - m = n - m
  BY <1>1
<1>12. Count(v, n) \in Nat
  BY <1>1, <1>3, CountNat
<1>13. Count(v, n) = Count(w, m)
  BY <1>6, <1>7, <1>8, <1>10, <1>11, <1>12
<1> QED BY <1>4, <1>7, <1>13

(* A sale takes lots off the front and something off the next; the others  *)
(* stay, and what is held is less by the quantity.                         *)
LEMMA ConsumedIs ==
  ASSUME NEW s \in Seq(Lot), NEW q \in Nat, q <= Quantity(s, DOMAIN s)
  PROVE  LET t == Consumed(s, q)
         IN  /\ t \in Seq(Lot) /\ Quantity(t, DOMAIN t) = Quantity(s, DOMAIN s) - q
             /\ \E m \in Nat : \A i \in DOMAIN t :
                  /\ m + i \in DOMAIN s /\ t[i].strategy = s[m + i].strategy
                  /\ t[i].state = s[m + i].state
<1> DEFINE n == Len(s)
           w == [i \in 1..n |-> s[i].quantity]
           S == {m \in 0..n : Quantity(s, 1..m) <= q}
           whole == Max(S)
           rest == SubSeq(s, whole + 1, n)
           x == q - Quantity(s, 1..whole)
           t == Consumed(s, q)
<1>1. n \in Nat /\ DOMAIN s = 1..n /\ \A i \in 1..n : s[i] \in Lot /\ s[i].quantity \in Nat
  BY LotsAre
<1>2. \A i \in 1..n : w[i] = s[i].quantity /\ w[i] \in Nat /\ w[i] \in Int
  BY <1>1
<1> HIDE DEF w
<1>3. \A m \in 0..n : Quantity(s, 1..m) = Count(w, m) /\ Count(w, m) \in Nat
  BY <1>2, QuantityFirst
<1>4. Quantity(s, DOMAIN s) = Count(w, n) /\ Count(w, n) \in Nat
  BY <1>1, <1>3
<1>5. whole \in S /\ \A y \in S : y <= whole
  <2>1. Count(w, 0) = 0
    BY CountStep
  <2>2. 0 \in S
    BY <1>1, <1>3, <2>1
  <2>3. S \in SUBSET (0..n) /\ S # {}
    BY <2>2
  <2> HIDE DEF S, n
  <2> QED BY <1>1, <2>3, GreatestIs
<1>6. whole \in 0..n /\ x = q - Count(w, whole) /\ x \in Nat
  <2>1. whole \in 0..n /\ Quantity(s, 1..whole) <= q
    BY <1>5
  <2>2. Quantity(s, 1..whole) = Count(w, whole) /\ Count(w, whole) \in Nat
    BY <1>3, <2>1
  <2> HIDE DEF whole
  <2> QED BY <2>1, <2>2
<1>7. /\ whole < n => x < w[whole + 1]
      /\ whole = n => x = 0 /\ q = Count(w, n)
  <2>1. CASE whole < n
    <3>1. whole + 1 \notin S /\ whole + 1 \in 0..n /\ whole \in Nat /\ whole + 1 \in 1..n
      <4> HIDE DEF whole, S
      <4> QED BY <1>1, <1>5, <1>6, <2>1
    <3>2. Count(w, whole + 1) > q
      <4>1. Quantity(s, 1..(whole + 1)) = Count(w, whole + 1)
        BY <1>3, <3>1
      <4>2. ~ (Quantity(s, 1..(whole + 1)) <= q) /\ Count(w, whole + 1) \in Nat
        BY <1>3, <3>1
      <4> QED BY <4>1, <4>2
    <3>3. Count(w, whole + 1) = Count(w, whole) + w[whole + 1]
      BY <3>1, CountStep
    <3>4. Count(w, whole) \in Nat /\ w[whole + 1] \in Nat
      BY <1>2, <1>3, <1>6, <3>1
    <3> HIDE DEF whole, x
    <3> QED BY <1>6, <2>1, <3>2, <3>3, <3>4
  <2>2. CASE whole = n
    BY <1>4, <1>6, <2>2
  <2> HIDE DEF whole, x
  <2> QED BY <1>1, <1>6, <2>1, <2>2
<1>8. /\ rest \in Seq(Lot) /\ Len(rest) = n - whole /\ DOMAIN rest = 1..(n - whole)
      /\ \A i \in 1..(n - whole) : rest[i] = s[whole + i]
  <2> HIDE DEF whole, S
  <2>1. whole + 1 \in Int /\ n \in Int /\ \A i \in (whole + 1)..n : s[i] \in Lot
    BY <1>1, <1>6
  <2>2. /\ rest \in Seq(Lot) /\ Len(rest) = IF whole + 1 <= n THEN n - (whole + 1) + 1 ELSE 0
        /\ \A i \in 1..(n - (whole + 1) + 1) : rest[i] = s[(whole + 1) + i - 1]
    BY <2>1, SubSeqProperties
  <2>3. DOMAIN rest = 1..Len(rest)
    BY <2>2, LenProperties
  <2>4. Len(rest) = n - whole
    <3>1. n \in Nat /\ whole \in 0..n
      BY <1>1, <1>6
    <3>2. Len(rest) = IF whole + 1 <= n THEN n - (whole + 1) + 1 ELSE 0
      BY <2>2
    <3> HIDE DEF n, rest
    <3> QED BY <3>1, <3>2
  <2>5. \A i \in 1..(n - whole) : rest[i] = s[whole + i]
    BY <1>1, <1>6, <2>2
  <2> QED BY <2>2, <2>3, <2>4, <2>5
<1>9. t = [i \in DOMAIN rest |->
             IF i = 1 THEN [rest[i] EXCEPT !.quantity = @ - x] ELSE rest[i]]
  BY DEF Consumed
<1> DEFINE d == n - whole
<1>10. d \in Nat /\ DOMAIN t = 1..d /\ whole + d = n /\ whole \in Nat
  <2>1. DOMAIN t = DOMAIN rest
    BY <1>9
  <2> HIDE DEF whole, rest, t
  <2> QED BY <1>1, <1>6, <1>8, <2>1
<1> HIDE DEF rest, t
<1>11. \A i \in 1..d :
         /\ t[i] = IF i = 1 THEN [s[whole + i] EXCEPT !.quantity = @ - x] ELSE s[whole + i]
         /\ whole + i \in 1..n /\ t[i] \in Lot
  <2> TAKE i \in 1..d
  <2>1. whole + i \in 1..n /\ i \in Nat
    <3> HIDE DEF whole
    <3> QED BY <1>6, <1>10
  <2>2. t[i] = IF i = 1 THEN [s[whole + i] EXCEPT !.quantity = @ - x] ELSE s[whole + i]
    BY <1>8, <1>9, <1>10
  <2>3. s[whole + i] \in Lot
    BY <1>1, <2>1
  <2>4. CASE i = 1
    <3>1. x < w[whole + 1] /\ w[whole + 1] = s[whole + i].quantity
      <4> HIDE DEF whole, x
      <4> QED BY <1>2, <1>6, <1>7, <2>1, <2>4
    <3>2. s[whole + i].quantity - x \in Nat \ {0}
      <4>1. s[whole + i].quantity \in Nat
        BY <2>3 DEF Lot
      <4> HIDE DEF whole, x
      <4> QED BY <1>6, <3>1, <4>1
    <3> HIDE DEF whole, x
    <3> QED BY <2>1, <2>2, <2>3, <2>4, <3>2 DEF Lot
  <2> HIDE DEF whole, x
  <2> QED BY <2>1, <2>2, <2>3, <2>4
<1>12. t \in Seq(Lot) /\ Len(t) = d
  <2>1. t = [i \in 1..d |-> t[i]]
    <3>1. t = [i \in DOMAIN t |-> t[i]]
      BY <1>9
    <3> QED BY <1>10, <3>1
  <2> HIDE DEF d
  <2> QED BY <1>10, <1>11, <2>1
<1> DEFINE v == Weights(t, DOMAIN t)
<1>13. /\ Quantity(t, DOMAIN t) = Count(v, d)
       /\ \A i \in 1..d : v[i] = t[i].quantity /\ v[i] \in Nat /\ v[i] \in Int
  <2>1. \A i \in 1..Len(t) : v[i] = (IF i \in DOMAIN t THEN t[i].quantity ELSE 0) /\ v[i] \in Nat
    BY <1>12, QuantityWeighs
  <2>2. Quantity(t, DOMAIN t) = Count(v, Len(t))
    BY <1>12, QuantityWeighs
  <2> HIDE DEF v, d
  <2> QED BY <1>10, <1>12, <2>1, <2>2
<1> HIDE DEF v, d, whole, x, S, n
<1>14. \A i \in 1..d : v[i] = IF i = 1 THEN w[whole + 1] - x ELSE w[whole + i]
  <2> TAKE i \in 1..d
  <2>1. s[whole + i] \in Lot /\ w[whole + i] = s[whole + i].quantity
    BY <1>1, <1>2, <1>11
  <2>2. t[i].quantity = IF i = 1 THEN s[whole + i].quantity - x ELSE s[whole + i].quantity
    BY <1>11, <2>1 DEF Lot
  <2> QED BY <1>13, <2>1, <2>2
<1>15. Count(v, d) = Count(w, n) - q
  <2>1. CASE d = 0
    <3>1. whole = n
      BY <1>10, <2>1
    <3> QED BY <1>4, <1>7, <2>1, <3>1, CountStep
  <2>2. CASE d # 0
    <3>1. 1 \in 0..d /\ 1 \in 1..d /\ whole + 1 \in Nat /\ whole + 1 \in 1..n /\ whole < n
      BY <1>10, <2>2
    <3>2. Count(v, 1) = w[whole + 1] - x
      <4>1. Count(v, 0) = 0 /\ Count(v, 0 + 1) = Count(v, 0) + v[0 + 1]
        BY CountStep
      <4>2. v[1] = w[whole + 1] - x /\ v[1] \in Int
        BY <1>13, <1>14, <3>1
      <4> QED BY <4>1, <4>2
    <3>3. Count(w, whole + 1) = Count(w, whole) + w[whole + 1]
      BY <1>10, CountStep
    <3>4. w[whole + 1] \in Nat /\ Count(w, whole) \in Nat /\ Count(w, whole + 1) \in Nat
      <4>1. whole + 1 \in 0..n
        BY <3>1
      <4> QED BY <1>2, <1>3, <1>6, <3>1, <4>1
    <3> DEFINE m == whole + 1
    <3>5. GoesOn(v, 1, d, w, m)
      <4> SUFFICES ASSUME NEW i \in (1 + 1)..d PROVE v[i] \in Int /\ v[i] = w[m + i - 1]
        BY DEF GoesOn
      <4>1. i \in 1..d /\ i # 1 /\ m + i - 1 = whole + i
        BY <1>10
      <4> QED BY <1>13, <1>14, <4>1
    <3>6. Count(v, 1) \in Int /\ Count(w, m) \in Int /\ m \in Nat
      BY <1>6, <3>1, <3>2, <3>4
    <3>7. m + d - 1 = n
      BY <1>10
    <3> HIDE DEF m
    <3>8. Count(v, d) - Count(v, 1) = Count(w, m + d - 1) - Count(w, m)
      BY <1>10, <3>1, <3>5, <3>6, CountOn
    <3>9. Count(v, d) \in Nat
      BY <1>10, <1>13, CountNat
    <3>10. Count(v, d) - Count(v, 1) = Count(w, n) - Count(w, whole + 1)
      BY <3>7, <3>8 DEF m
    <3>11. x = q - Count(w, whole) /\ q \in Int /\ Count(w, n) \in Int
      BY <1>4, <1>6
    <3>12. x \in Int /\ Count(v, 1) \in Int
      BY <1>6, <3>6
    <3>13. Count(v, d) = Count(w, n) - Count(w, whole + 1) + Count(v, 1)
      BY <3>4, <3>9, <3>10, <3>11, <3>12
    <3>14. Count(v, 1) - Count(w, whole + 1) = - q
      BY <3>2, <3>3, <3>4, <3>11, <3>12
    <3> QED BY <3>4, <3>11, <3>12, <3>13, <3>14
  <2> QED BY <2>1, <2>2
<1>16. Quantity(t, DOMAIN t) = Quantity(s, DOMAIN s) - q
  BY <1>4, <1>13, <1>15
<1>17. ASSUME NEW i \in DOMAIN t
       PROVE  /\ whole + i \in DOMAIN s /\ t[i].strategy = s[whole + i].strategy
              /\ t[i].state = s[whole + i].state
  <2>1. i \in 1..d
    BY <1>10
  <2>2. s[whole + i] \in Lot /\ whole + i \in DOMAIN s
    BY <1>1, <1>11, <2>1
  <2> QED BY <1>11, <2>1, <2>2 DEF Lot
<1> QED BY <1>10, <1>12, <1>16, <1>17 DEF t

-----------------------------------------------------------------------------
(* The holdings.                                                           *)

(* At most one exit is active, for no more than is held.                   *)
Covered(os, held) ==
  /\ os \subseteq Order
  /\ \A o, p \in Exits(os) : o = p
  /\ \A o \in Exits(os) : o.left <= held

(* The monitor has brought the lots of a strategy to one state, but for    *)
(* those bought since.                                                     *)
AtOne == \A i, j \in DOMAIN lots :
  /\ lots[i].strategy = lots[j].strategy
  /\ lots[i].state # "OPENING" /\ lots[j].state # "OPENING"
  => lots[i].state = lots[j].state

Total == Quantity(lots, DOMAIN lots)
DeskInv == DeskTypeOK /\ Covered(orders, Total) /\ AtOne

LEMMA InitHoldings == InitDesk => DeskInv
<1> SUFFICES ASSUME InitDesk PROVE DeskInv
  OBVIOUS
<1>1. now = 1 /\ lots = <<>> /\ orders = {} /\ fills = 0
  BY DEF InitDesk
<1>2. <<>> \in Seq(Lot) /\ DOMAIN <<>> = {}
  OBVIOUS
<1> QED BY <1>1, <1>2 DEF DeskInv, DeskTypeOK, Covered, Exits, AtOne

LEMMA StateNames ==
  /\ States = {"BROKEN", "EXIT_PENDING_LIQUIDITY", "EXIT_PENDING_T1", "OPENING",
               "RISK_EXIT", "VALID", "VALID_STRONG"}
  /\ Len(Ordered) = 7 /\ \A n \in 1..7 : Ordered[n] \in States
  /\ \A state \in States : \E n \in 1..7 : Ordered[n] = state
<1>1. Len(Ordered) = 7
  BY DEF Ordered
<1>2. 1..7 = {1, 2, 3, 4, 5, 6, 7}
  OBVIOUS
<1>3. /\ Ordered[1] = "BROKEN" /\ Ordered[2] = "EXIT_PENDING_LIQUIDITY"
      /\ Ordered[3] = "EXIT_PENDING_T1" /\ Ordered[4] = "OPENING" /\ Ordered[5] = "RISK_EXIT"
      /\ Ordered[6] = "VALID" /\ Ordered[7] = "VALID_STRONG"
  BY DEF Ordered
<1>4. States = {Ordered[i] : i \in 1..7}
  BY <1>1 DEF States
<1>5. States = {"BROKEN", "EXIT_PENDING_LIQUIDITY", "EXIT_PENDING_T1", "OPENING",
               "RISK_EXIT", "VALID", "VALID_STRONG"}
  BY <1>2, <1>3, <1>4
<1> QED BY <1>1, <1>4, <1>5

(* The state of lots is the state of one of them. *)
LEMMA StateOfIs ==
  ASSUME NEW s \in Seq(Lot), NEW I \in SUBSET DOMAIN s, I # {}
  PROVE  \E i \in I : StateOf(s, I) = s[i].state
<1> DEFINE S == {n \in 1..Len(Ordered) : \E i \in I : s[i].state = Ordered[n]}
<1>1. PICK j \in I : TRUE
  OBVIOUS
<1>2. s[j].state \in States
  BY LotsAre DEF Lot
<1>3. S \in SUBSET (0..7) /\ S # {}
  <2>1. PICK n \in 1..7 : Ordered[n] = s[j].state
    BY <1>2, StateNames
  <2>2. n \in S
    BY <2>1, StateNames
  <2>3. S \subseteq 0..7
    BY StateNames
  <2> QED BY <2>2, <2>3
<1>4. Max(S) \in S
  <2> HIDE DEF S
  <2> QED BY <1>3, GreatestIs
<1>5. StateOf(s, I) = Ordered[Max(S)]
  BY DEF StateOf
<1> QED BY <1>4, <1>5

LEMMA FactsAre ==
  ASSUME NEW f \in Facts
  PROVE  f.add \in {0, 1} /\ f.verdict \in {"RISK_EXIT", "BROKEN", "VALID_STRONG", "VALID"}
<1> DEFINE none == [seen |-> FALSE, verdict |-> "VALID", liquid |-> TRUE, ruled |-> TRUE, add |-> 0]
           All == [seen : {TRUE}, verdict : Verdict, liquid : BOOLEAN, ruled : BOOLEAN, add : {0, 1}]
<1>1. f = none \/ f \in All
  BY DEF Facts
<1>2. CASE f = none
  BY <1>2
<1>3. CASE f \in All
  BY <1>3 DEF Verdict
<1> QED BY <1>1, <1>2, <1>3

LEMMA NextStateIs ==
  ASSUME NEW state \in States, NEW f \in Facts, f.seen, NEW canSell
  PROVE  /\ NextState(state, f, canSell) \in States
         /\ Committed(state) => Committed(NextState(state, f, canSell))
         /\ NextState(state, f, canSell) # "OPENING"
<1>1. f.verdict \in {"RISK_EXIT", "BROKEN", "VALID_STRONG", "VALID"}
  BY FactsAre
<1>2. state \in {"BROKEN", "EXIT_PENDING_LIQUIDITY", "EXIT_PENDING_T1", "OPENING",
               "RISK_EXIT", "VALID", "VALID_STRONG"}
  BY StateNames
<1> QED BY <1>1, <1>2, StateNames DEF NextState, Committed, Waiting

-----------------------------------------------------------------------------
(* The monitor, strategy by strategy. *)

(* What became of the lots of a strategy.                                  *)
Judged(ls, j) ==
  \/ \A i \in OfStrategy(lots, j) : ls[i].state = lots[i].state
  \/ \E state \in States :
       /\ state # "OPENING" /\ \A i \in OfStrategy(lots, j) : ls[i].state = state
       /\ (\A i \in OfStrategy(lots, j) : Committed(lots[i].state)) => Committed(state)

(* The books when the monitor has had the first k strategies.              *)
SameLots(ls) ==
  /\ ls \in Seq(Lot) /\ Len(ls) = Len(lots)
  /\ \A i \in DOMAIN lots : /\ ls[i].strategy = lots[i].strategy
                            /\ ls[i].quantity = lots[i].quantity
Monitored(b, k) ==
  /\ SameLots(b.lots) /\ Covered(b.orders, Total)
  /\ \A j \in 1..Strategies : Judged(b.lots, j)
  /\ \A i \in DOMAIN lots : lots[i].strategy > k => b.lots[i].state = lots[i].state

LEMMA ExitSound ==
  ASSUME NEW os, NEW held, Covered(os, held), now \in Nat, NEW k \in 1..Strategies,
         NEW quantity \in Nat \ {0}, quantity <= held, NEW canSell, NEW d \in Nat \ {0}
  PROVE  Covered(WithExit(os, k, quantity, canSell, d), held)
<1>1. CASE ActiveExits(os) # {}
  BY <1>1 DEF WithExit
<1>2. CASE ActiveExits(os) = {}
  <2> DEFINE e == [action |-> "EXIT", strategy |-> k, size |-> quantity, left |-> quantity,
                   from  |-> IF canSell /\ InSession THEN now ELSE Session(d + 1),
                   until |-> IF canSell /\ InSession THEN Session(d) ELSE Session(d + 1)]
  <2>1. Session(d) \in Nat /\ Session(d + 1) \in Nat
    BY DEF Session
  <2>2. e \in Order /\ e.action = "EXIT" /\ e.left = quantity
    BY <2>1 DEF Order
  <2>3. WithExit(os, k, quantity, canSell, d) = os \cup {e}
    BY <1>2 DEF WithExit
  <2> HIDE DEF e
  <2>4. Exits(os \cup {e}) = {e}
    BY <1>2, <2>2 DEF ActiveExits, Exits
  <2> QED BY <2>2, <2>3, <2>4 DEF Covered
<1> QED BY <1>1, <1>2

LEMMA AddSound ==
  ASSUME NEW os, NEW held, Covered(os, held), NEW k \in 1..Strategies,
         NEW quantity \in Nat \ {0}, NEW d \in Nat \ {0}
  PROVE  Covered(WithAdd(os, k, quantity, d), held)
<1> DEFINE e == [action |-> "ADD", strategy |-> k, size |-> quantity, left |-> quantity,
                 from |-> Session(d + 1), until |-> Session(d + 1)]
<1>1. Session(d + 1) \in Nat
  BY DEF Session
<1>2. e \in Order /\ e.action = "ADD"
  BY <1>1 DEF Order
<1>3. WithAdd(os, k, quantity, d) \in {os, os \cup {e}}
  BY DEF WithAdd
<1> HIDE DEF e
<1>4. Exits(os \cup {e}) = Exits(os)
  BY <1>2 DEF Exits
<1> QED BY <1>2, <1>3, <1>4 DEF Covered

LEMMA EvaluatedSound ==
  ASSUME DeskInv, NEW b, NEW k \in 1..Strategies, NEW f \in Facts, NEW d \in Nat \ {0},
         Monitored(b, k - 1)
  PROVE  Monitored(Evaluated(b, k, f, d), k)
<1> DEFINE mine == OfStrategy(b.lots, k)
           held == Quantity(b.lots, mine)
           canSell == Quantity(b.lots, mine \cap SettledBy(b.lots, d)) >= held
           after == NextState(StateOf(b.lots, mine), f, canSell)
           target == Max({b.lots[i].target : i \in mine})
           ls == [i \in DOMAIN b.lots |->
                    IF i \in mine THEN [b.lots[i] EXCEPT !.state = after] ELSE b.lots[i]]
           os == IF Committed(after)
                 THEN IF f.ruled THEN WithExit(b.orders, k, held, canSell, d) ELSE b.orders
                 ELSE IF /\ after = "VALID_STRONG" /\ f.add > 0
                         /\ \A i \in mine : b.lots[i].adds = 0
                         /\ held + f.add <= target
                      THEN WithAdd(b.orders, k, f.add, d)
                      ELSE b.orders
<1>0. k \in Nat /\ \A i \in DOMAIN lots : lots[i].strategy \in Nat
  <2>1. k \in Nat /\ 1..Strategies \subseteq Nat
    BY MonitorAssumption
  <2>2. \A i \in DOMAIN lots : lots[i].strategy \in 1..Strategies
    BY LotsAre DEF DeskInv, DeskTypeOK, Lot
  <2> QED BY <2>1, <2>2
<1>1. CASE mine = {} \/ ~f.seen
  <2>1. Evaluated(b, k, f, d) = b
    BY <1>1 DEF Evaluated
  <2>2. \A i \in DOMAIN lots : lots[i].strategy > k => lots[i].strategy > k - 1
    BY <1>0
  <2>3. Monitored(b, k)
    BY <2>2 DEF Monitored
  <2> QED BY <2>1, <2>3
<1>2. CASE mine # {} /\ f.seen
  <2>1. Evaluated(b, k, f, d) = [lots |-> ls, orders |-> os]
    BY <1>2 DEF Evaluated
  <2>2. /\ SameLots(b.lots) /\ Covered(b.orders, Total) /\ b.lots \in Seq(Lot)
        /\ Len(b.lots) = Len(lots) /\ lots \in Seq(Lot) /\ now \in Nat
    BY DEF Monitored, SameLots, DeskInv, DeskTypeOK
  <2>3. DOMAIN b.lots = 1..Len(lots) /\ DOMAIN lots = 1..Len(lots) /\ Len(lots) \in Nat
    BY <2>2, LotsAre
  <2>4. mine = OfStrategy(lots, k) /\ mine \in SUBSET DOMAIN b.lots
    BY <2>2, <2>3 DEF SameLots, OfStrategy
  <2>5. \A i \in mine : b.lots[i].state = lots[i].state /\ lots[i].strategy = k
    BY <2>3, <2>4 DEF Monitored, OfStrategy
  <2>6. PICK m \in mine : StateOf(b.lots, mine) = b.lots[m].state
    BY <1>2, <2>2, <2>4, StateOfIs
  <2>7. b.lots[m] \in Lot /\ b.lots[m].state \in States
    BY <2>2, <2>3, <2>4, LotsAre DEF Lot
  <2>8. /\ after \in States /\ after # "OPENING"
        /\ Committed(b.lots[m].state) => Committed(after)
    <3> HIDE DEF canSell
    <3> QED BY <1>2, <2>6, <2>7, NextStateIs
  <2>9. held \in Nat \ {0} /\ held <= Total
    <3>1. held \in Nat /\ b.lots[m].quantity <= held
      BY <2>2, <2>3, <2>4, QuantityWeighs
    <3>2. b.lots[m].quantity \in Nat \ {0}
      BY <2>7 DEF Lot
    <3>3. held <= Quantity(b.lots, DOMAIN lots)
      BY <2>2, <2>3, <2>4, QuantityPart
    <3>4. Quantity(b.lots, DOMAIN lots) = Total
      <4>1. \A i \in 1..Len(lots) : b.lots[i].quantity = lots[i].quantity
        BY <2>2, <2>3 DEF SameLots
      <4> QED BY <2>2, <4>1, QuantitySame DEF Total
    <3> HIDE DEF held
    <3> QED BY <3>1, <3>2, <3>3, <3>4
  <2>10. Covered(os, Total)
    <3>1. f.add \in {0, 1}
      BY FactsAre
    <3>2. CASE os = b.orders
      BY <2>2, <3>2
    <3>3. CASE os = WithExit(b.orders, k, held, canSell, d)
      <4> HIDE DEF held, canSell, os
      <4> QED BY <2>2, <2>9, <3>3, ExitSound
    <3>4. CASE f.add > 0 /\ os = WithAdd(b.orders, k, f.add, d)
      <4>1. f.add \in Nat \ {0}
        BY <3>1, <3>4
      <4> HIDE DEF os
      <4> QED BY <2>2, <3>4, <4>1, AddSound
    <3>5. \/ os = b.orders \/ os = WithExit(b.orders, k, held, canSell, d)
          \/ (f.add > 0 /\ os = WithAdd(b.orders, k, f.add, d))
      <4> HIDE DEF held, canSell, after, target
      <4> QED OBVIOUS
    <3> QED BY <3>2, <3>3, <3>4, <3>5
  <2> HIDE DEF after, os, held, canSell, target
  <2>11. \A i \in 1..Len(lots) :
           /\ b.lots[i] \in Lot /\ b.lots[i].strategy = lots[i].strategy
           /\ b.lots[i].quantity = lots[i].quantity
    BY <2>2, <2>3, LotsAre DEF SameLots
  <2>12. \A i \in 1..Len(lots) :
           /\ ls[i] \in Lot /\ ls[i].strategy = lots[i].strategy
           /\ ls[i].quantity = lots[i].quantity
           /\ ls[i].state = IF i \in mine THEN after ELSE b.lots[i].state
    <3> TAKE i \in 1..Len(lots)
    <3>1. ls[i] = IF i \in mine THEN [b.lots[i] EXCEPT !.state = after] ELSE b.lots[i]
      BY <2>3
    <3> HIDE DEF ls, mine
    <3>2. b.lots[i] \in Lot
      BY <2>11
    <3>3. [b.lots[i] EXCEPT !.state = after] \in Lot
      BY <2>8, <3>2 DEF Lot
    <3> QED BY <2>11, <3>1, <3>2, <3>3 DEF Lot
  <2>13. ls \in Seq(Lot) /\ Len(ls) = Len(lots)
    <3>1. ls = [i \in 1..Len(lots) |-> ls[i]]
      BY <2>3
    <3> HIDE DEF ls, mine
    <3> QED BY <2>3, <2>12, <3>1
  <2> HIDE DEF ls
  <2>14. SameLots(ls)
    BY <2>3, <2>12, <2>13 DEF SameLots
  <2>15. ASSUME NEW j \in 1..Strategies PROVE Judged(ls, j)
    <3>1. CASE j = k
      <4>1. \A i \in OfStrategy(lots, j) : ls[i].state = after
        BY <2>3, <2>4, <2>12, <3>1
      <4>2. (\A i \in OfStrategy(lots, j) : Committed(lots[i].state)) => Committed(after)
        BY <2>4, <2>5, <2>8, <3>1
      <4> QED BY <2>8, <4>1, <4>2 DEF Judged
    <3>2. CASE j # k
      <4>1. OfStrategy(lots, j) \subseteq 1..Len(lots) \ mine
        BY <2>3, <2>4, <3>2 DEF OfStrategy
      <4>2. \A i \in OfStrategy(lots, j) : ls[i].state = b.lots[i].state
        BY <2>12, <4>1
      <4>3. Judged(b.lots, j)
        BY DEF Monitored
      <4> QED BY <4>2, <4>3 DEF Judged
    <3> QED BY <3>1, <3>2
  <2>16. \A i \in DOMAIN lots : lots[i].strategy > k => ls[i].state = lots[i].state
    <3> SUFFICES ASSUME NEW i \in DOMAIN lots, lots[i].strategy > k
                 PROVE  ls[i].state = lots[i].state
      OBVIOUS
    <3>1. lots[i].strategy \in Nat /\ k \in Nat
      BY <1>0
    <3>2. i \notin mine /\ lots[i].strategy > k - 1
      BY <2>5, <3>1
    <3>3. b.lots[i].state = lots[i].state
      BY <3>2 DEF Monitored
    <3> QED BY <2>3, <2>12, <3>2, <3>3
  <2>17. Monitored([lots |-> ls, orders |-> os], k)
    BY <2>10, <2>14, <2>15, <2>16 DEF Monitored
  <2> QED BY <2>1, <2>17
<1> QED BY <1>1, <1>2

IsBooks(g, n, f, d) ==
  g = [k \in 0..n |-> IF k = 0 THEN [lots |-> lots, orders |-> orders]
                      ELSE Evaluated(g[k - 1], k, f[k], d)]

LEMMA BooksExist ==
  ASSUME NEW n \in Nat, NEW f, NEW d
  PROVE  \E g : IsBooks(g, n, f, d)
<1> DEFINE T == {i \in Nat : ~ \E g : IsBooks(g, i, f, d)}
<1>1. SUFFICES ASSUME T # {} PROVE FALSE
  OBVIOUS
<1>2. PICK i \in T : \A j \in T : i <= j
  BY <1>1, Least
<1> DEFINE first == [lots |-> lots, orders |-> orders]
<1>3. CASE i = 0
  <2>1. IsBooks([j \in 0..0 |-> first], 0, f, d)
    BY DEF IsBooks
  <2> QED BY <1>2, <1>3, <2>1
<1>4. CASE i # 0
  <2>1. i - 1 \in Nat /\ i - 1 \notin T
    BY <1>2, <1>4
  <2>2. PICK h : IsBooks(h, i - 1, f, d)
    BY <2>1
  <2> DEFINE last == Evaluated(h[i - 1], i, f[i], d)
             g == [j \in 0..i |-> IF j = i THEN last ELSE h[j]]
  <2> HIDE DEF first
  <2>3. \A j \in 0..(i - 1) : h[j] = IF j = 0 THEN first ELSE Evaluated(h[j - 1], j, f[j], d)
    BY <2>2 DEF IsBooks, first
  <2>4. \A j \in 0..i : g[j] = IF j = 0 THEN first ELSE Evaluated(g[j - 1], j, f[j], d)
    <3> TAKE j \in 0..i
    <3>1. CASE j = i
      <4>1. g[j] = last /\ g[j - 1] = h[i - 1] /\ j # 0
        BY <1>4, <2>1, <3>1
      <4> QED BY <3>1, <4>1
    <3>2. CASE j # i
      <4>1. j \in 0..(i - 1) /\ (j # 0 => j - 1 \in 0..i /\ j - 1 # i)
        BY <3>2
      <4>2. g[j] = h[j] /\ (j # 0 => g[j - 1] = h[j - 1])
        BY <3>2, <4>1
      <4> QED BY <2>3, <4>1, <4>2
    <3> QED BY <3>1, <3>2
  <2>5. g = [j \in 0..i |-> g[j]]
    OBVIOUS
  <2>6. IsBooks(g, i, f, d)
    <3> HIDE DEF g
    <3> QED BY <2>4, <2>5 DEF IsBooks, first
  <2> QED BY <1>2, <2>6
<1> QED BY <1>3, <1>4

LEMMA MonitorIs ==
  ASSUME DeskInv, NEW d \in Nat \ {0}, Monitor(d)
  PROVE  /\ Monitored([lots |-> lots', orders |-> orders'], Strategies)
         /\ UNCHANGED <<now, fills>>
<1>1. PICK f \in [1..Strategies -> Facts] :
        LET books[k \in 0..Strategies] ==
              IF k = 0 THEN [lots |-> lots, orders |-> orders]
              ELSE Evaluated(books[k - 1], k, f[k], d)
        IN  /\ lots' = books[Strategies].lots
            /\ orders' = books[Strategies].orders
            /\ UNCHANGED <<now, fills>>
  BY DEF Monitor
<1> DEFINE B(h) == [k \in 0..Strategies |->
                      IF k = 0 THEN [lots |-> lots, orders |-> orders]
                      ELSE Evaluated(h[k - 1], k, f[k], d)]
           g == CHOOSE h : h = B(h)
<1>2. lots' = g[Strategies].lots /\ orders' = g[Strategies].orders /\ UNCHANGED <<now, fills>>
  BY <1>1
<1>3. Strategies \in Nat
  BY MonitorAssumption
<1>4. g = B(g)
  <2>1. PICK h : IsBooks(h, Strategies, f, d)
    BY <1>3, BooksExist
  <2>2. h = B(h)
    BY <2>1 DEF IsBooks
  <2> QED BY <2>2
<1> HIDE DEF g
<1>5. /\ g[0] = [lots |-> lots, orders |-> orders]
      /\ \A k \in 1..Strategies : g[k] = Evaluated(g[k - 1], k, f[k], d)
  <2>1. \A k \in 0..Strategies : B(g)[k] = IF k = 0 THEN [lots |-> lots, orders |-> orders]
                                           ELSE Evaluated(g[k - 1], k, f[k], d)
    OBVIOUS
  <2>2. 0 \in 0..Strategies /\ 1..Strategies \subseteq 0..Strategies
    BY <1>3
  <2> HIDE DEF B
  <2> QED BY <1>4, <2>1, <2>2
<1>6. Monitored(g[0], 0)
  <2>1. lots \in Seq(Lot) /\ Covered(orders, Total)
    BY DEF DeskInv, DeskTypeOK
  <2>2. SameLots(lots) /\ \A j \in 1..Strategies : Judged(lots, j)
    BY <2>1 DEF SameLots, Judged
  <2> QED BY <1>5, <2>1, <2>2 DEF Monitored
<1> DEFINE T == {k \in 0..Strategies : ~ Monitored(g[k], k)}
<1>7. T = {}
  <2> SUFFICES ASSUME T # {} PROVE FALSE
    OBVIOUS
  <2>1. T \in SUBSET Nat
    OBVIOUS
  <2>2. PICK k \in T : \A j \in T : k <= j
    BY <2>1, Least
  <2>3. k \in 1..Strategies /\ k - 1 \in 0..Strategies /\ k - 1 \notin T
    <3>1. k \in 0..Strategies /\ ~ Monitored(g[k], k)
      OBVIOUS
    <3>2. k # 0
      BY <1>6, <3>1
    <3>3. k \in 1..Strategies /\ k - 1 \in 0..Strategies /\ ~ (k <= k - 1)
      BY <1>3, <3>1, <3>2
    <3>4. k - 1 \notin T
      <4> HIDE DEF T
      <4> QED BY <2>2, <3>3
    <3> QED BY <3>3, <3>4
  <2>4. Monitored(g[k - 1], k - 1) /\ f[k] \in Facts
    BY <2>3
  <2>5. Monitored(Evaluated(g[k - 1], k, f[k], d), k)
    BY <2>3, <2>4, EvaluatedSound
  <2> QED BY <1>5, <2>2, <2>3, <2>5
<1>8. Monitored(g[Strategies], Strategies)
  BY <1>3, <1>7
<1>9. Monitored([lots |-> g[Strategies].lots, orders |-> g[Strategies].orders], Strategies)
  BY <1>8 DEF Monitored
<1> QED BY <1>2, <1>9

LEMMA MonitorHoldings ==
  ASSUME DeskInv, NEW d \in Nat \ {0}, Monitor(d)
  PROVE  DeskInv'
<1>1. /\ SameLots(lots') /\ Covered(orders', Total) /\ UNCHANGED <<now, fills>>
      /\ \A j \in 1..Strategies : Judged(lots', j)
  BY MonitorIs DEF Monitored
<1>2. /\ lots' \in Seq(Lot) /\ Len(lots') = Len(lots) /\ lots \in Seq(Lot)
      /\ \A i \in DOMAIN lots : /\ lots'[i].strategy = lots[i].strategy
                                /\ lots'[i].quantity = lots[i].quantity
  BY <1>1 DEF SameLots, DeskInv, DeskTypeOK
<1>3. DOMAIN lots = 1..Len(lots) /\ DOMAIN lots' = 1..Len(lots) /\ Len(lots) \in Nat
  BY <1>2, LotsAre
<1>4. Total' = Total
  <2>1. \A I : Quantity(lots', I) = Quantity(lots, I)
    BY <1>2, <1>3, QuantitySame
  <2> QED BY <1>3, <2>1 DEF Total
<1>5. DeskTypeOK' /\ Covered(orders', Total')
  BY <1>1, <1>2, <1>4 DEF DeskInv, DeskTypeOK, Covered
<1>6. AtOne'
  <2> SUFFICES ASSUME NEW i \in DOMAIN lots', NEW j \in DOMAIN lots',
                      lots'[i].strategy = lots'[j].strategy,
                      lots'[i].state # "OPENING", lots'[j].state # "OPENING"
               PROVE  lots'[i].state = lots'[j].state
    BY DEF AtOne
  <2> DEFINE k == lots[i].strategy
  <2>1. i \in DOMAIN lots /\ j \in DOMAIN lots /\ lots[j].strategy = k
    BY <1>2, <1>3
  <2>2. k \in 1..Strategies
    BY <1>2, <1>3, LotsAre DEF Lot
  <2>3. i \in OfStrategy(lots, k) /\ j \in OfStrategy(lots, k)
    BY <2>1 DEF OfStrategy
  <2>4. Judged(lots', k)
    BY <1>1, <2>2
  <2> HIDE DEF k
  <2>5. CASE \A m \in OfStrategy(lots, k) : lots'[m].state = lots[m].state
    <3>1. lots'[i].state = lots[i].state /\ lots'[j].state = lots[j].state
      BY <2>3, <2>5
    <3>2. lots[i].strategy = lots[j].strategy
      BY <2>1 DEF k
    <3> QED BY <2>1, <3>1, <3>2 DEF DeskInv, AtOne
  <2>6. CASE \E state \in States : \A m \in OfStrategy(lots, k) : lots'[m].state = state
    BY <2>3, <2>6
  <2> QED BY <2>4, <2>5, <2>6 DEF Judged
<1> QED BY <1>5, <1>6 DEF DeskInv

-----------------------------------------------------------------------------
(* The other steps. *)

LEMMA PlanHoldings ==
  ASSUME DeskInv, NEW d \in Nat \ {0}, Plan(d)
  PROVE  DeskInv'
<1>1. UNCHANGED <<now, lots, fills>>
  BY DEF Plan
<1>2. Covered(orders, Total)'
  <2>1. CASE UNCHANGED orders
    BY <1>1, <2>1 DEF DeskInv, Covered, Total
  <2>2. CASE ~ UNCHANGED orders
    <3>1. PICK k \in 1..Strategies, quantity \in OpenQuantities :
            orders' = orders \cup
              {[action |-> "OPEN", strategy |-> k, size |-> quantity, left |-> quantity,
                from |-> Session(d + 1), until |-> Session(d + 1)]}
      BY <2>2 DEF Plan
    <3> DEFINE e == [action |-> "OPEN", strategy |-> k, size |-> quantity, left |-> quantity,
                     from |-> Session(d + 1), until |-> Session(d + 1)]
    <3>2. Session(d + 1) \in Nat /\ quantity \in Nat \ {0}
      BY MonitorAssumption DEF Session
    <3>3. e \in Order /\ e.action = "OPEN"
      BY <3>2 DEF Order
    <3>4. orders' = orders \cup {e}
      BY <3>1
    <3> HIDE DEF e
    <3>5. Exits(orders') = Exits(orders)
      BY <3>3, <3>4 DEF Exits
    <3>6. orders \subseteq Order /\ Total' = Total
      BY <1>1 DEF DeskInv, Covered, Total
    <3>7. orders' \subseteq Order
      BY <3>3, <3>4, <3>6
    <3> QED BY <3>5, <3>6, <3>7 DEF DeskInv, Covered
  <2> QED BY <2>1, <2>2
<1> QED BY <1>1, <1>2 DEF DeskInv, DeskTypeOK, AtOne, Covered

(* What is left of an order that was filled. *)
LEMMA RestIs ==
  ASSUME orders \subseteq Order, NEW o \in orders, NEW quantity \in 1..o.left
  PROVE  /\ Rest(o, quantity) \subseteq Order
         /\ \A p \in Rest(o, quantity) :
              p \in orders \ {o} \/ (p.action = o.action /\ p.left = o.left - quantity)
         /\ \E r : /\ Rest(o, quantity) \in {orders \ {o}, (orders \ {o}) \cup {r}}
                   /\ r.action = o.action /\ r.left = o.left - quantity
<1> DEFINE r == [o EXCEPT !.left = @ - quantity]
<1>1. o \in Order /\ o.left \in Nat \ {0} /\ quantity \in Nat
  BY DEF Order
<1>2. r.action = o.action /\ r.left = o.left - quantity
  BY <1>1 DEF Order
<1>3. CASE quantity = o.left
  <2>1. Rest(o, quantity) = orders \ {o}
    BY <1>3 DEF Rest
  <2> HIDE DEF r
  <2> QED BY <1>2, <2>1
<1>4. CASE quantity # o.left
  <2>1. o.left - quantity \in Nat \ {0}
    BY <1>1, <1>4
  <2>2. r \in Order
    BY <1>1, <2>1 DEF Order
  <2>3. Rest(o, quantity) = (orders \ {o}) \cup {r}
    BY <1>4 DEF Rest
  <2> HIDE DEF r
  <2> QED BY <1>2, <2>2, <2>3
<1> QED BY <1>3, <1>4

LEMMA MomentIs ==
  ASSUME now \in Nat
  PROVE  Today \in Nat
  BY DEF Today

(* A purchase puts a lot between those that were there. *)
LEMMA BuyIs ==
  ASSUME DeskInv, NEW o \in orders, NEW quantity \in 1..o.left, Buy(o, quantity)
  PROVE  \E n \in 1..(Len(lots) + 1), e \in Lot :
           /\ e.state = "OPENING" /\ quantity \in Nat \ {0}
           /\ lots' \in Seq(Lot) /\ Total' = Total + quantity /\ Total \in Nat
           /\ Len(lots) \in Nat /\ DOMAIN lots = 1..Len(lots) /\ DOMAIN lots' = 1..(Len(lots) + 1)
           /\ \A i \in 1..(Len(lots) + 1) :
                lots'[i] = IF i < n THEN lots[i] ELSE IF i = n THEN e ELSE lots[i - 1]
<1>1. /\ lots \in Seq(Lot) /\ now \in Nat /\ fills \in Nat /\ orders \subseteq Order
      /\ Covered(orders, Total) /\ o \in Order
  BY DEF DeskInv, DeskTypeOK
<1>2. PICK n \in 1..(Len(lots) + 1) :
        lots' = InsertAt(lots, n,
            [strategy |-> o.strategy, opened |-> Today, quantity |-> quantity,
             state |-> "OPENING",
             target |-> IF o.action = "OPEN" THEN 2 * o.size ELSE o.size,
             adds |-> IF o.action = "ADD" THEN 1 ELSE 0])
  BY DEF Buy
<1> DEFINE e == [strategy |-> o.strategy, opened |-> Today, quantity |-> quantity,
                 state |-> "OPENING",
                 target |-> IF o.action = "OPEN" THEN 2 * o.size ELSE o.size,
                 adds |-> IF o.action = "ADD" THEN 1 ELSE 0]
<1>3. e \in Lot /\ e.state = "OPENING" /\ e.quantity = quantity /\ quantity \in Nat \ {0}
  <2>1. o.strategy \in 1..Strategies /\ o.left \in Nat /\ o.size \in Nat
    BY <1>1 DEF Order
  <2>2. quantity \in Nat \ {0} /\ Today \in Nat /\ 2 * o.size \in Nat /\ "OPENING" \in States
    BY <1>1, <2>1, MomentIs, StateNames
  <2> QED BY <2>1, <2>2 DEF Lot
<1>4. lots' = InsertAt(lots, n, e)
  BY <1>2
<1> HIDE DEF e
<1>5. /\ lots' \in Seq(Lot) /\ Len(lots') = Len(lots) + 1
      /\ \A i \in 1..(Len(lots) + 1) :
           lots'[i] = IF i < n THEN lots[i] ELSE IF i = n THEN e ELSE lots[i - 1]
  <2>1. lots \in Seq(Lot) /\ e \in Lot /\ n \in 1..(Len(lots) + 1)
    BY <1>1, <1>3
  <2>2. LET t == InsertAt(lots, n, e)
        IN  /\ t \in Seq(Lot) /\ Len(t) = Len(lots) + 1
            /\ \A i \in 1..(Len(lots) + 1) :
                 t[i] = IF i < n THEN lots[i] ELSE IF i = n THEN e ELSE lots[i - 1]
    BY ONLY <2>1, InsertedIs
  <2> QED BY ONLY <1>4, <2>2
<1>6. Total' = Total + quantity /\ Total \in Nat
  BY <1>1, <1>3, <1>4, QuantityInserted, QuantityWeighs DEF Total
<1>7. DOMAIN lots = 1..Len(lots) /\ DOMAIN lots' = 1..(Len(lots) + 1) /\ Len(lots) \in Nat
  BY <1>1, <1>5, LotsAre
<1> QED BY <1>3, <1>5, <1>6, <1>7

LEMMA BuyKeeps ==
  ASSUME DeskInv, NEW o \in orders, NEW quantity \in 1..o.left, Buy(o, quantity)
  PROVE  /\ \A h \in DOMAIN lots : \E j \in DOMAIN lots' : lots'[j] = lots[h]
         /\ \A j \in DOMAIN lots' :
              lots'[j].state # "OPENING" => \E h \in DOMAIN lots : lots'[j] = lots[h]
<1>1. PICK n \in 1..(Len(lots) + 1), e \in Lot :
        /\ e.state = "OPENING"
        /\ Len(lots) \in Nat /\ DOMAIN lots = 1..Len(lots) /\ DOMAIN lots' = 1..(Len(lots) + 1)
        /\ \A i \in 1..(Len(lots) + 1) :
             lots'[i] = IF i < n THEN lots[i] ELSE IF i = n THEN e ELSE lots[i - 1]
  BY BuyIs
<1>2. ASSUME NEW h \in DOMAIN lots PROVE \E j \in DOMAIN lots' : lots'[j] = lots[h]
  <2>1. CASE h < n
    <3>1. h \in DOMAIN lots' /\ lots'[h] = lots[h]
      BY <1>1, <2>1
    <3> QED BY <3>1
  <2>2. CASE ~ (h < n)
    <3>1. h + 1 \in DOMAIN lots' /\ ~ (h + 1 < n) /\ h + 1 # n /\ (h + 1) - 1 = h
      BY <1>1, <2>2
    <3>2. lots'[h + 1] = lots[h]
      BY <1>1, <3>1
    <3> QED BY <3>1, <3>2
  <2> QED BY <2>1, <2>2
<1>3. ASSUME NEW m \in DOMAIN lots', lots'[m].state # "OPENING"
      PROVE  \E h \in DOMAIN lots : lots'[m] = lots[h]
  <2>1. m # n /\ m \in 1..(Len(lots) + 1)
    BY <1>1, <1>3
  <2>2. CASE m < n
    <3>1. lots'[m] = lots[m] /\ m \in DOMAIN lots
      BY <1>1, <2>1, <2>2
    <3> QED BY <3>1
  <2>3. CASE m > n
    <3>1. lots'[m] = lots[m - 1] /\ m - 1 \in DOMAIN lots
      BY <1>1, <2>1, <2>3
    <3> QED BY <3>1
  <2> QED BY <1>1, <2>1, <2>2, <2>3
<1> QED BY <1>2, <1>3

LEMMA BuyHoldings ==
  ASSUME DeskInv, NEW o \in orders, NEW quantity \in 1..o.left, Buy(o, quantity)
  PROVE  DeskInv'
<1>1. /\ now \in Nat /\ fills \in Nat /\ orders \subseteq Order /\ Covered(orders, Total)
  BY DEF DeskInv, DeskTypeOK
<1>2. /\ lots' \in Seq(Lot) /\ Total' = Total + quantity /\ Total \in Nat
      /\ quantity \in Nat
  BY BuyIs
<1>3. orders' = Rest(o, quantity) /\ o.action # "EXIT" /\ fills' = fills + 1 /\ now' = now
  BY DEF Buy
<1>4. DeskTypeOK'
  BY <1>1, <1>2, <1>3, RestIs DEF DeskTypeOK
<1>5. Covered(orders', Total')
  <2>1. Exits(orders') \subseteq Exits(orders) /\ orders' \subseteq Order
    BY <1>1, <1>3, RestIs DEF Exits
  <2>2. \A p \in Exits(orders) : p.left <= Total /\ p.left \in Nat
    BY <1>1 DEF Covered, Exits, Order
  <2>3. \A p \in Exits(orders) : p.left <= Total'
    BY <1>2, <2>2
  <2> QED BY <1>1, <2>1, <2>3 DEF Covered
<1>6. AtOne'
  <2> SUFFICES ASSUME NEW i \in DOMAIN lots', NEW j \in DOMAIN lots',
                      lots'[i].strategy = lots'[j].strategy,
                      lots'[i].state # "OPENING", lots'[j].state # "OPENING"
               PROVE  lots'[i].state = lots'[j].state
    BY DEF AtOne
  <2>1. PICK g \in DOMAIN lots : lots'[i] = lots[g]
    BY BuyKeeps
  <2>2. PICK h \in DOMAIN lots : lots'[j] = lots[h]
    BY BuyKeeps
  <2> QED BY <2>1, <2>2 DEF DeskInv, AtOne
<1> QED BY <1>4, <1>5, <1>6 DEF DeskInv, Covered

LEMMA SellIs ==
  ASSUME DeskInv, NEW o \in orders, NEW quantity \in 1..o.left, Sell(o, quantity)
  PROVE  /\ quantity <= Total /\ Total \in Nat /\ quantity \in Nat \ {0} /\ o.left \in Nat
         /\ lots' \in Seq(Lot) /\ Total' = Total - quantity
         /\ \E m \in Nat : \A i \in DOMAIN lots' :
              /\ m + i \in DOMAIN lots /\ lots'[i].strategy = lots[m + i].strategy
              /\ lots'[i].state = lots[m + i].state
<1>1. /\ lots \in Seq(Lot) /\ now \in Nat /\ fills \in Nat /\ orders \subseteq Order
      /\ Covered(orders, Total) /\ o \in Order
  BY DEF DeskInv, DeskTypeOK
<1>2. /\ o.action = "EXIT" /\ quantity <= Quantity(lots, SettledBy(lots, Today))
      /\ lots' = Consumed(lots, quantity) /\ orders' = Rest(o, quantity)
      /\ fills' = fills + 1 /\ now' = now
  BY DEF Sell
<1>3. o.left \in Nat /\ quantity \in Nat \ {0}
  BY <1>1 DEF Order
<1>4. quantity <= Total /\ Total \in Nat
  <2>1. SettledBy(lots, Today) \subseteq DOMAIN lots
    BY DEF SettledBy
  <2>2. Quantity(lots, SettledBy(lots, Today)) <= Total
    BY <1>1, <2>1, QuantityPart DEF Total
  <2>3. Quantity(lots, SettledBy(lots, Today)) \in Nat /\ Total \in Nat
    BY <1>1, QuantityWeighs DEF Total
  <2> QED BY <1>2, <1>3, <2>2, <2>3
<1>5. /\ lots' \in Seq(Lot) /\ Total' = Total - quantity
      /\ \E m \in Nat : \A i \in DOMAIN lots' :
           /\ m + i \in DOMAIN lots /\ lots'[i].strategy = lots[m + i].strategy
           /\ lots'[i].state = lots[m + i].state
  <2>1. quantity <= Quantity(lots, DOMAIN lots) /\ quantity \in Nat
    BY <1>3, <1>4 DEF Total
  <2>2. lots \in Seq(Lot) /\ lots' = Consumed(lots, quantity)
    BY <1>1, <1>2
  <2>3. /\ lots' \in Seq(Lot)
        /\ Quantity(lots', DOMAIN lots') = Quantity(lots, DOMAIN lots) - quantity
        /\ \E m \in Nat : \A i \in DOMAIN lots' :
             /\ m + i \in DOMAIN lots /\ lots'[i].strategy = lots[m + i].strategy
             /\ lots'[i].state = lots[m + i].state
    BY ONLY <2>1, <2>2, ConsumedIs
  <2> QED BY <2>3 DEF Total
<1> QED BY <1>3, <1>4, <1>5

LEMMA SellHoldings ==
  ASSUME DeskInv, NEW o \in orders, NEW quantity \in 1..o.left, Sell(o, quantity)
  PROVE  DeskInv'
<1>1. /\ now \in Nat /\ fills \in Nat /\ orders \subseteq Order /\ Covered(orders, Total)
  BY DEF DeskInv, DeskTypeOK
<1>2. /\ o.action = "EXIT" /\ orders' = Rest(o, quantity)
      /\ fills' = fills + 1 /\ now' = now
  BY DEF Sell
<1>3. /\ quantity <= Total /\ Total \in Nat /\ quantity \in Nat \ {0} /\ o.left \in Nat
      /\ lots' \in Seq(Lot) /\ Total' = Total - quantity
  BY SellIs
<1>4. DeskTypeOK'
  BY <1>1, <1>2, <1>3, RestIs DEF DeskTypeOK
<1>5. Covered(orders', Total')
  <2>1. Exits(orders) = {o} /\ o.left <= Total
    BY <1>1, <1>2 DEF Covered, Exits
  <2>2. PICK r : /\ orders' \in {orders \ {o}, (orders \ {o}) \cup {r}}
                 /\ r.action = o.action /\ r.left = o.left - quantity
    BY <1>1, <1>2, RestIs
  <2>3. Exits(orders') \subseteq {r}
    BY <2>1, <2>2 DEF Exits
  <2>4. r.left <= Total'
    BY <1>3, <2>1, <2>2
  <2>5. orders' \subseteq Order
    BY <1>1, <1>2, RestIs
  <2> QED BY <2>3, <2>4, <2>5 DEF Covered
<1>6. AtOne'
  <2>1. PICK m \in Nat : \A i \in DOMAIN lots' :
          /\ m + i \in DOMAIN lots /\ lots'[i].strategy = lots[m + i].strategy
          /\ lots'[i].state = lots[m + i].state
    BY SellIs
  <2>2. AtOne
    BY DEF DeskInv
  <2> SUFFICES ASSUME NEW i \in DOMAIN lots', NEW j \in DOMAIN lots',
                      lots'[i].strategy = lots'[j].strategy,
                      lots'[i].state # "OPENING", lots'[j].state # "OPENING"
               PROVE  lots'[i].state = lots'[j].state
    BY DEF AtOne
  <2>3. m + i \in DOMAIN lots /\ m + j \in DOMAIN lots
    BY <2>1
  <2> QED BY <2>1, <2>2, <2>3 DEF AtOne
<1> QED BY <1>4, <1>5, <1>6 DEF DeskInv, Covered

LEMMA QuietHoldings ==
  ASSUME DeskInv, now' \in Nat, lots' = lots, orders' \subseteq orders, fills' = fills
  PROVE  DeskInv'
<1>1. DeskTypeOK'
  BY DEF DeskInv, DeskTypeOK
<1>2. Covered(orders, Total) /\ Total' = Total
  BY DEF DeskInv, Total
<1>3. Exits(orders') \subseteq Exits(orders)
  BY DEF Exits
<1>4. Covered(orders', Total')
  BY <1>2, <1>3 DEF Covered
<1> QED BY <1>1, <1>4 DEF DeskInv, AtOne, Covered

(* The dates the monitor and the planner work for. *)
LEMMA RunDates == \A r \in Runs : r.date \in Nat \ {0}
  BY DateAssumption DEF Runs, Dates

LEMMA MonitorDate ==
  ASSUME DayInv, NEW p \in Processes, MonitorPositions(p)
  PROVE  proc[p].result \in decided /\ proc[p].result.date \in Nat \ {0}
<1> DEFINE r == proc[p].result
<1>1. Carries(p)
  BY DEF MonitorPositions, Carries
<1>2. proc[p].job \in Decisions /\ proc[p].job \notin Backtests
  BY DEF MonitorPositions, Holds
<1>3. r \in decided /\ r \in Runs
  BY <1>1, <1>2 DEF DayInv, Carried, Real, Typed
<1> QED BY <1>3, RunDates

HoldInv == DeskInv /\ monitored \subseteq decided

LEMMA InitHold == Init => HoldInv
  BY InitHoldings DEF Init, HoldInv

LEMMA HoldStep == DayInv /\ HoldInv /\ [Next]_vars => HoldInv'
<1> SUFFICES ASSUME DayInv, HoldInv, [Next]_vars PROVE HoldInv'
  OBVIOUS
<1>1. DeskInv /\ monitored \subseteq decided /\ now \in Nat
  BY DEF HoldInv, DeskInv, DeskTypeOK
<1>2. CASE UNCHANGED <<deskVars, decided, monitored>>
  BY <1>1, <1>2, QuietHoldings DEF HoldInv, deskVars
<1>3. ASSUME NEW p \in Processes, Decide(p) PROVE HoldInv'
  <2> DEFINE d == DateOf[proc[p].job]
  <2>1. d \in Nat \ {0}
    BY <1>3, DateAssumption DEF Decide, Holds
  <2>2. Plan(d) \/ UNCHANGED deskVars
    BY <1>3 DEF Decide
  <2>3. DeskInv'
    BY <1>1, <2>1, <2>2, PlanHoldings, QuietHoldings DEF deskVars
  <2>4. monitored' = monitored /\ decided \subseteq decided'
    BY <1>3 DEF Decide
  <2> QED BY <1>1, <2>3, <2>4 DEF HoldInv
<1>4. ASSUME NEW p \in Processes, MonitorPositions(p) PROVE HoldInv'
  <2> DEFINE r == proc[p].result
  <2>1. r \in decided /\ r.date \in Nat \ {0}
    BY <1>4, MonitorDate
  <2>2. Monitor(r.date) /\ monitored' = monitored \cup {r} /\ decided' = decided
    BY <1>4 DEF MonitorPositions
  <2>3. DeskInv'
    BY <1>1, <2>1, <2>2, MonitorHoldings
  <2> QED BY <1>1, <2>1, <2>2, <2>3 DEF HoldInv
<1>5. CASE (Fill \/ Expire \/ Tick) /\ UNCHANGED <<queueVars, decided, monitored>>
  <2>1. DeskInv'
    <3>1. CASE Fill
      BY <1>1, <3>1, BuyHoldings, SellHoldings DEF Fill
    <3>2. CASE Expire
      BY <1>1, <3>2, QuietHoldings DEF Expire
    <3>3. CASE Tick
      BY <1>1, <3>3, QuietHoldings DEF Tick
    <3> QED BY <1>5, <3>1, <3>2, <3>3
  <2> QED BY <1>1, <1>5, <2>1 DEF HoldInv
<1>6. ASSUME NEW p \in Processes, WorkOn(p) PROVE HoldInv'
  BY <1>2, <1>3, <1>4, <1>6 DEF WorkOn, FailDecision
<1> QED BY <1>2, <1>5, <1>6 DEF Next, Request, Environment, vars

LEMMA HoldInvariant == Spec => [](DayInv /\ HoldInv)
<1>1. Init => DayInv /\ HoldInv
  BY InitDay, InitHold
<1>2. DayInv /\ HoldInv /\ [Next]_vars => DayInv' /\ HoldInv'
  BY DayStep, HoldStep
<1> QED BY <1>1, <1>2, PTL DEF Spec

-----------------------------------------------------------------------------

(* Types hold: every order left active has a quantity left, no lot is      *)
(* empty, and only decisions that were made are monitored (orders, lots    *)
(* and decisions of decision_worker.run_daily_decision).                   *)
THEOREM DailyTypes == Spec => []TypeOK
<1>1. DayInv /\ HoldInv => TypeOK
  BY DEF DayInv, Typed, HoldInv, DeskInv, TypeOK
<1> QED BY <1>1, HoldInvariant, PTL

LEMMA OneExitLeft ==
  ASSUME Covered(orders, Total), Total \in Nat
  PROVE  ExitsAreCovered
<1> DEFINE E == Exits(orders)
           F(h) == [s \in SUBSET E |->
                      IF s = {} THEN 0
                      ELSE (CHOOSE x \in s : TRUE).left + h[s \ {CHOOSE x \in s : TRUE}]]
           g == CHOOSE h : h = F(h)
<1>1. MapThenSumSet(LAMBDA o : o.left, E) = g[E]
  BY DEF MapThenSumSet, MapThenFoldSet
<1>2. \A o, p \in E : o = p
  BY DEF Covered
<1>3. \A o \in E : o.left \in Nat /\ o.left <= Total
  BY DEF Covered, Exits, Order
<1> HIDE DEF E
<1>4. \E h : h = F(h)
  <2> DEFINE h == [s \in SUBSET E |-> IF s = {} THEN 0 ELSE (CHOOSE x \in s : TRUE).left + 0]
  <2>1. ASSUME NEW s \in SUBSET E
        PROVE  h[s] = IF s = {} THEN 0
                      ELSE (CHOOSE x \in s : TRUE).left + h[s \ {CHOOSE x \in s : TRUE}]
    <3>1. CASE s = {}
      BY <3>1
    <3>2. CASE s # {}
      <4>1. s \ {CHOOSE x \in s : TRUE} = {}
        BY <1>2, <3>2
      <4>2. h[{}] = 0
        OBVIOUS
      <4> QED BY <3>2, <4>1, <4>2
    <3> QED BY <3>1, <3>2
  <2>2. h = [s \in SUBSET E |-> h[s]]
    OBVIOUS
  <2> HIDE DEF h
  <2>3. h = F(h)
    BY <2>1, <2>2
  <2> QED BY <2>3
<1>5. g = F(g)
  BY <1>4
<1> HIDE DEF g
<1>6. g[{}] = 0
  <2>1. F(g)[{}] = 0
    OBVIOUS
  <2> HIDE DEF F
  <2> QED BY <1>5, <2>1
<1>7. g[E] <= Total
  <2>1. CASE E = {}
    BY <1>6, <2>1
  <2>2. CASE E # {}
    <3> DEFINE x == CHOOSE y \in E : TRUE
    <3>1. x \in E /\ E \ {x} = {}
      BY <1>2, <2>2
    <3>2. F(g)[E] = x.left + g[E \ {x}]
      BY <2>2
    <3>3. g[E] = F(g)[E]
      BY <1>5
    <3> HIDE DEF F, x
    <3>4. x.left \in Nat /\ x.left <= Total
      BY <1>3, <3>1
    <3> QED BY <1>6, <3>1, <3>2, <3>3, <3>4
  <2> QED BY <2>1, <2>2
<1>8. MapThenSumSet(LAMBDA o : o.left, Exits(orders)) <= Quantity(lots, DOMAIN lots)
  BY <1>1, <1>7 DEF E, Total
<1> QED BY <1>8 DEF ExitsAreCovered

(* What is on sale never exceeds what is held, for any number of           *)
(* strategies that share the stock, lots and late ticks: the one active    *)
(* exit shrinks with every fill, and no other is ordered while it is       *)
(* active (position_monitor._persist_exit_chain, execution._execute_one).  *)
THEOREM ExitsCovered == Spec => []ExitsAreCovered
<1>1. DayInv /\ HoldInv => ExitsAreCovered
  <2> SUFFICES ASSUME HoldInv PROVE ExitsAreCovered
    OBVIOUS
  <2>1. lots \in Seq(Lot) /\ Covered(orders, Total)
    BY DEF HoldInv, DeskInv, DeskTypeOK
  <2>2. Total \in Nat
    BY <2>1, QuantityWeighs DEF Total
  <2> QED BY <2>1, <2>2, OneExitLeft
<1> QED BY <1>1, HoldInvariant, PTL

-----------------------------------------------------------------------------
(* Commitments. *)

Firm(k) ==
  LET mine == OfStrategy(lots, k)  next == OfStrategy(lots', k) IN
  (\E i \in mine : Committed(lots[i].state)) =>
    \/ next = {}
    \/ \E i \in next : Committed(lots'[i].state)
    \/ \E i \in mine : lots[i].state = "OPENING"

LEMMA SameFirm ==
  ASSUME UNCHANGED lots, NEW k
  PROVE  Firm(k)
  BY DEF Firm

(* Without a new lot, the lots of a strategy are committed all or none. *)
LEMMA AllCommitted ==
  ASSUME DeskInv, NEW k, NEW i \in OfStrategy(lots, k), Committed(lots[i].state),
         ~ \E j \in OfStrategy(lots, k) : lots[j].state = "OPENING"
  PROVE  \A j \in OfStrategy(lots, k) : Committed(lots[j].state)
<1> SUFFICES ASSUME NEW j \in OfStrategy(lots, k) PROVE lots[j].state = lots[i].state
  OBVIOUS
<1> QED BY DEF DeskInv, AtOne, OfStrategy

LEMMA MonitorFirm ==
  ASSUME DeskInv, NEW d \in Nat \ {0}, Monitor(d), NEW k \in 1..Strategies
  PROVE  Firm(k)
<1> SUFFICES ASSUME NEW i \in OfStrategy(lots, k), Committed(lots[i].state),
                    ~ \E j \in OfStrategy(lots, k) : lots[j].state = "OPENING"
             PROVE  \E j \in OfStrategy(lots', k) : Committed(lots'[j].state)
  BY DEF Firm
<1>1. SameLots(lots') /\ Judged(lots', k)
  BY MonitorIs DEF Monitored
<1>2. i \in OfStrategy(lots', k)
  <2>1. lots \in Seq(Lot) /\ lots' \in Seq(Lot) /\ Len(lots') = Len(lots)
    BY <1>1 DEF SameLots, DeskInv, DeskTypeOK
  <2>2. DOMAIN lots' = DOMAIN lots
    BY <2>1, LotsAre
  <2> QED BY <1>1, <2>2 DEF SameLots, OfStrategy
<1>3. Committed(lots'[i].state)
  BY <1>1, AllCommitted DEF Judged
<1> QED BY <1>2, <1>3

LEMMA BuyFirm ==
  ASSUME DeskInv, NEW o \in orders, NEW quantity \in 1..o.left, Buy(o, quantity), NEW k
  PROVE  Firm(k)
<1> SUFFICES ASSUME NEW i \in OfStrategy(lots, k), Committed(lots[i].state)
             PROVE  \E j \in OfStrategy(lots', k) : Committed(lots'[j].state)
  BY DEF Firm
<1>1. \A h \in DOMAIN lots : \E j \in DOMAIN lots' : lots'[j] = lots[h]
  BY BuyKeeps
<1>2. i \in DOMAIN lots /\ lots[i].strategy = k
  BY DEF OfStrategy
<1>3. PICK j \in DOMAIN lots' : lots'[j] = lots[i]
  BY <1>1, <1>2
<1> QED BY <1>2, <1>3 DEF OfStrategy

LEMMA SellFirm ==
  ASSUME DeskInv, NEW o \in orders, NEW quantity \in 1..o.left, Sell(o, quantity), NEW k
  PROVE  Firm(k)
<1> SUFFICES ASSUME NEW i \in OfStrategy(lots, k), Committed(lots[i].state),
                    ~ \E j \in OfStrategy(lots, k) : lots[j].state = "OPENING",
                    NEW h \in OfStrategy(lots', k)
             PROVE  Committed(lots'[h].state)
  BY DEF Firm
<1>1. PICK m \in Nat : \A j \in DOMAIN lots' :
        /\ m + j \in DOMAIN lots /\ lots'[j].strategy = lots[m + j].strategy
        /\ lots'[j].state = lots[m + j].state
  BY SellIs
<1>2. m + h \in OfStrategy(lots, k) /\ lots'[h].state = lots[m + h].state
  BY <1>1 DEF OfStrategy
<1> QED BY <1>2, AllCommitted

LEMMA StepFirm ==
  ASSUME DayInv, HoldInv, [Next]_vars, NEW k \in 1..Strategies
  PROVE  Firm(k)
<1>1. DeskInv
  BY DEF HoldInv
<1>2. CASE UNCHANGED lots
  BY <1>2, SameFirm
<1>3. ASSUME NEW p \in Processes, MonitorPositions(p) PROVE Firm(k)
  <2> DEFINE r == proc[p].result
  <2>1. r.date \in Nat \ {0}
    BY <1>3, MonitorDate
  <2>2. Monitor(r.date)
    BY <1>3 DEF MonitorPositions
  <2> QED BY <1>1, <2>1, <2>2, MonitorFirm
<1>4. CASE Fill
  BY <1>1, <1>4, BuyFirm, SellFirm DEF Fill
<1>5. ASSUME NEW p \in Processes, WorkOn(p) PROVE Firm(k)
  <2>1. CASE (Queue(p) \/ Claim(p)) /\ UNCHANGED <<deskVars, decided, monitored>>
    BY <1>2, <2>1 DEF deskVars
  <2>2. CASE Decide(p)
    <3>1. UNCHANGED lots
      BY <2>2 DEF Decide, Plan, deskVars
    <3> QED BY <1>2, <3>1
  <2>3. CASE MonitorPositions(p)
    BY <1>3, <2>3
  <2>4. CASE FailDecision(p)
    BY <1>2, <2>4 DEF FailDecision, deskVars
  <2> QED BY <1>5, <2>1, <2>2, <2>3, <2>4 DEF WorkOn
<1>6. CASE Request
  BY <1>2, <1>6 DEF Request, deskVars
<1>7. CASE Environment
  <2>1. CASE (Fill \/ Expire \/ Tick) /\ UNCHANGED <<queueVars, decided, monitored>>
    BY <1>2, <1>4, <2>1 DEF Expire, Tick
  <2>2. CASE UNCHANGED deskVars
    BY <1>2, <2>2 DEF deskVars
  <2> QED BY <1>7, <2>1, <2>2 DEF Environment
<1>8. CASE UNCHANGED vars
  BY <1>2, <1>8 DEF vars, deskVars
<1> QED BY <1>5, <1>6, <1>7, <1>8 DEF Next

(* An exit that a position is committed to is not taken back by a later    *)
(* verdict, an execution or another strategy: only a lot bought since can  *)
(* hide it (positions.evaluate_position, MAX(position_state) of the        *)
(* monitor).                                                               *)
THEOREM CommitmentsKept == Spec => CommitmentsHold
<1>1. DayInv /\ HoldInv /\ [Next]_vars => [\A k \in 1..Strategies : Firm(k)]_deskVars
  BY StepFirm
<1>2. (\A k \in 1..Strategies : Firm(k)) <=>
        \A k \in 1..Strategies :
          LET mine == OfStrategy(lots, k)  next == OfStrategy(lots', k) IN
          (\E i \in mine : Committed(lots[i].state)) =>
            \/ next = {}
            \/ \E i \in next : Committed(lots'[i].state)
            \/ \E i \in mine : lots[i].state = "OPENING"
  BY DEF Firm
<1> QED BY <1>1, <1>2, HoldInvariant, PTL DEF Spec, CommitmentsHold
=============================================================================
