------------------------------ MODULE JobStore ------------------------------
(***************************************************************************)
(* The V4 job lease store (server/trading_v4/infrastructure/job_store.py): *)
(* two tables, st_job_run_v4 (`job`) and st_job_claim_token_v4             *)
(* (`registry`), changed by transactions of many workers whose clocks lie  *)
(* within Skew of the database clock.                                      *)
(*                                                                         *)
(* A transaction is one step: every path locks the row it changes (FOR     *)
(* UPDATE) before it tests it.  A call that is refused (conflict, error,   *)
(* clock skew) rolls back and is not a step.  A claim transaction may wait *)
(* for row locks after its clock check, at most Stall; the reply of any    *)
(* call may be lost, and a worker may stop at any moment.                  *)
(***************************************************************************)
EXTENDS Integers, FiniteSets

CONSTANTS
  Jobs,            \* job ids, positive integers (SQL orders ties by job_id)
  JobType,         \* the immutable job_type of each job
  AnyType,         \* a claim without a job_type filter
  Workers,         \* lease owners
  Tokens,          \* lease tokens (SHA-256 values in the code)
  NoWorker, NoToken, NoTime,   \* the empty owner and the NULLs of the tables
  AttemptLimits,   \* the max_attempts a creator may ask for
  Schedules,       \* the scheduled_for times a creator may ask for
  LeaseDurations,  \* lease_until - now of a claim or heartbeat
  RetryDelays,     \* next_attempt_at - now of a retryable failure
  MaxLease,        \* JOB_LEASE_MAX_DURATION_SECONDS
  Skew,            \* JOB_CALLER_CLOCK_MAX_SKEW_SECONDS
  Stall,           \* longest lock wait of a transaction after its clock check
  ReapBatch,       \* EXHAUSTED_REAP_BATCH_SIZE
  LastCreate,      \* bound: no job is created later than this
  Horizon          \* bound: the database clock stops here

ASSUME JobsAssumption == Jobs \subseteq Nat \ {0}
ASSUME NullAssumption ==
  NoWorker \notin Workers /\ NoToken \notin Tokens /\ NoTime \notin Int
ASSUME CallAssumption ==
  /\ AttemptLimits \subseteq Nat \ {0}
  /\ Schedules \subseteq Int
  /\ LeaseDurations \subseteq 1..MaxLease
  /\ RetryDelays \subseteq Nat \ {0}
ASSUME BoundAssumption ==
  /\ {MaxLease, Skew, Stall, ReapBatch, LastCreate, Horizon} \subseteq Nat

VARIABLES
  clock,      \* UTC_TIMESTAMP() of the database
  job,        \* the job rows
  registry,   \* the append-only claim tokens
  held        \* what each worker was last told about the lease it works under

vars == <<clock, job, registry, held>>

-----------------------------------------------------------------------------

NoJob == 0
Terminal == {"SUCCEEDED", "FAILED"}
Statuses == {"ABSENT", "PENDING", "RUNNING"} \cup Terminal
Errors == {"none", "reported", "lease_expired"}
TypeFilters == {JobType[j] : j \in Jobs} \cup {AnyType}

Row == [status: Statuses, attempt: Nat, limit: Nat, scheduled: Int,
        owner: Workers \cup {NoWorker}, token: Tokens \cup {NoToken},
        until: Int \cup {NoTime}, next: Int \cup {NoTime},
        error: Errors, run: Tokens \cup {NoToken},
        created: Int, started: Int \cup {NoTime}, updated: Int]

AbsentRow == [status |-> "ABSENT", attempt |-> 0, limit |-> 0, scheduled |-> 0,
              owner |-> NoWorker, token |-> NoToken, until |-> NoTime,
              next |-> NoTime, error |-> "none", run |-> NoToken,
              created |-> 0, started |-> NoTime, updated |-> 0]

TokenRecord == [job: Jobs, attempt: Nat \ {0}, owner: Workers, at: Int, until: Int]
Unregistered == [job |-> NoJob, attempt |-> 0, owner |-> NoWorker,
                 at |-> 0, until |-> 0]

Lease == [job: Jobs, token: Tokens, attempt: Nat, until: Int]
NoLease == [job |-> NoJob, token |-> NoToken, attempt |-> 0, until |-> 0]

Holding(w) == held[w].job # NoJob

-----------------------------------------------------------------------------
(* Clocks.  `now` is what a caller read from its own clock; the database   *)
(* compares it with its own (the check of a claim may precede the update   *)
(* by up to Stall).                                                        *)

NearClock(t) == (t - Skew)..(t + Skew)
CheckTimes == (clock - Stall)..clock
CallerTimes == (clock - Stall - Skew)..(clock + Skew)

(* A job's place in the queue: when it became claimable or expired, then   *)
(* its schedule, then its id.                                              *)
DueAt(j) == IF job[j].status = "PENDING" THEN job[j].next ELSE job[j].until
Precedes(i, j) ==
  \/ DueAt(i) < DueAt(j)
  \/ DueAt(i) = DueAt(j) /\ job[i].scheduled < job[j].scheduled
  \/ DueAt(i) = DueAt(j) /\ job[i].scheduled = job[j].scheduled /\ i < j

Matches(j, filter) == filter = AnyType \/ filter = JobType[j]

(* Mutated form: the database clock is not asked. *)
LeaseOver_CallerClockOnly(j, now) ==
  job[j].status = "RUNNING" /\ job[j].until <= now
(* Reclaiming and reaping need the lease over on both clocks. *)
LeaseOver(j, now) ==
  job[j].status = "RUNNING" /\ job[j].until <= now /\ job[j].until <= clock

(* Mutated form: one attempt too many. *)
AttemptsLeft_OffByOne(j) == job[j].attempt <= job[j].limit
AttemptsLeft(j) == job[j].attempt < job[j].limit

(* Every write moves updated_at strictly forward. *)
WrittenBefore(j, now) == job[j].updated < now

Due(now, filter) ==
  {j \in Jobs :
     /\ Matches(j, filter)
     /\ AttemptsLeft(j)
     /\ \/ job[j].status = "PENDING" /\ job[j].next <= now /\ job[j].next <= clock
        \/ LeaseOver(j, now)}

(* Mutated form: the reaper never sees the lease of a last attempt. *)
Exhausted_OffByOne(now, filter) ==
  {j \in Jobs : Matches(j, filter) /\ LeaseOver(j, now)
                /\ job[j].attempt > job[j].limit}
Exhausted(now, filter) ==
  {j \in Jobs : Matches(j, filter) /\ LeaseOver(j, now) /\ ~AttemptsLeft(j)}

Heads(S) ==
  {j \in S : \A k \in S \ {j} : Precedes(j, k)}

(* The exhausted jobs one claim call reaps: the first ReapBatch of them. *)
ReapSets(now, filter) ==
  LET E == Exhausted(now, filter)
  IN  {R \in SUBSET E :
         /\ Cardinality(R) <= ReapBatch
         /\ E # R => Cardinality(R) = ReapBatch
         /\ \A r \in R, e \in E \ R : Precedes(r, e)}

-----------------------------------------------------------------------------
(* The rows a transaction writes. *)

NewRow(limit, scheduled, created) ==
  [status |-> "PENDING", attempt |-> 0, limit |-> limit, scheduled |-> scheduled,
   owner |-> NoWorker, token |-> NoToken, until |-> NoTime, next |-> scheduled,
   error |-> "none", run |-> NoToken,
   created |-> created, started |-> NoTime, updated |-> created]

ClaimedRow(row, w, t, now, until) ==
  [status |-> "RUNNING", attempt |-> row.attempt + 1, limit |-> row.limit,
   scheduled |-> row.scheduled, owner |-> w, token |-> t, until |-> until,
   next |-> NoTime, error |-> "none", run |-> row.run, created |-> row.created,
   started |-> IF row.started = NoTime THEN now ELSE row.started,
   updated |-> now]

(* Mutated form: the lease columns are not cleared. *)
ReleasedRow_KeepsLease(row, status, next, error, run, now) ==
  [row EXCEPT !.status = status, !.next = next, !.error = error, !.run = run,
              !.updated = now]
ReleasedRow(row, status, next, error, run, now) ==
  [status |-> status, attempt |-> row.attempt, limit |-> row.limit,
   scheduled |-> row.scheduled, owner |-> NoWorker, token |-> NoToken,
   until |-> NoTime, next |-> next, error |-> error, run |-> run,
   created |-> row.created, started |-> row.started, updated |-> now]

ExtendedRow(row, now, until) ==
  [status |-> row.status, attempt |-> row.attempt, limit |-> row.limit,
   scheduled |-> row.scheduled, owner |-> row.owner, token |-> row.token,
   until |-> until, next |-> row.next, error |-> row.error, run |-> row.run,
   created |-> row.created, started |-> row.started, updated |-> now]

ExpiredRow(row, now) ==
  ReleasedRow(row, "FAILED", NoTime, "lease_expired", NoToken, now)

Reap(R, now) == [j \in Jobs |-> IF j \in R THEN ExpiredRow(job[j], now) ELSE job[j]]

ClaimRecord(j, w, now, until) ==
  [job |-> j, attempt |-> job[j].attempt + 1, owner |-> w,
   at |-> now, until |-> until]

(* What a worker presents must be the row's lease in every part, and the   *)
(* lease must be alive on the worker's clock and on the database's.        *)
LeaseMatches(w, row) ==
  /\ row.status = "RUNNING"
  /\ row.owner = w
  /\ row.token = held[w].token
  /\ row.attempt = held[w].attempt
  /\ row.until = held[w].until

(* Mutated form: fresh when no live lease uses it. *)
FreshToken_NotLive(t) == \A j \in Jobs : job[j].token # t
(* A token is fresh when no committed claim ever used it. *)
FreshToken(t) == registry[t] = Unregistered

(* Mutated form: whoever presents the token gets the lease. *)
StillClaimed_AnyOwner(w, t) ==
  LET record == registry[t]  row == job[record.job] IN
  /\ row.status = "RUNNING" /\ row.token = t
  /\ row.attempt = record.attempt
  /\ row.until = record.until /\ row.updated = record.at
  /\ clock < row.until
(* The lease of a registered claim, untouched since the claim.  *)
StillClaimed(w, t) ==
  LET record == registry[t]  row == job[record.job] IN
  /\ record.owner = w
  /\ row.status = "RUNNING" /\ row.owner = w /\ row.token = t
  /\ row.attempt = record.attempt
  /\ row.until = record.until /\ row.updated = record.at
  /\ clock < row.until

Renewed(lease, until) ==
  [job |-> lease.job, token |-> lease.token, attempt |-> lease.attempt,
   until |-> until]

LeaseAlive(w, now) == now < held[w].until /\ clock < held[w].until

-----------------------------------------------------------------------------

Init ==
  /\ clock = 0
  /\ job = [j \in Jobs |-> AbsentRow]
  /\ registry = [t \in Tokens |-> Unregistered]
  /\ held = [w \in Workers |-> NoLease]

(* create_job: the first call inserts; a call repeating the idempotency    *)
(* key or the job id changes nothing.                                      *)
CreateJob(j) ==
  /\ job[j].status = "ABSENT"
  /\ clock <= LastCreate
  /\ \E limit \in AttemptLimits, scheduled \in Schedules, created \in CallerTimes :
       job' = [job EXCEPT ![j] = NewRow(limit, scheduled, created)]
  /\ UNCHANGED <<clock, registry, held>>

(* claim_due_job with a fresh token: reap, take the head of the queue,     *)
(* register the token; the worker may not get the reply.  When the head    *)
(* was last written at or after `now` the whole transaction, reaping       *)
(* included, is rolled back.                                               *)
TakeHead(w, t, filter, j, R, now, until) ==
  /\ R \in ReapSets(now, filter)
  /\ j \in Heads(Due(now, filter))
  /\ WrittenBefore(j, now)
  /\ clock < until /\ until <= clock + MaxLease
  /\ job' = [Reap(R, now) EXCEPT ![j] = ClaimedRow(job[j], w, t, now, until)]
  /\ registry' = [registry EXCEPT ![t] = ClaimRecord(j, w, now, until)]
  /\ \/ held' = [held EXCEPT ![w] = [job |-> j, token |-> t,
                                     attempt |-> job[j].attempt + 1, until |-> until]]
     \/ UNCHANGED held
  /\ UNCHANGED clock

ClaimDueJob(w, t) ==
  /\ ~Holding(w)
  /\ FreshToken(t)
  /\ \E now \in CallerTimes, d \in LeaseDurations, filter \in TypeFilters :
       /\ \E checked \in CheckTimes :
            now \in NearClock(checked) /\ now + d <= checked + MaxLease
       /\ \E j \in Due(now, filter), R \in SUBSET Exhausted(now, filter) :
            TakeHead(w, t, filter, j, R, now, now + d)

(* claim_due_job when nothing is due: the reaping is committed alone. *)
ReapOnly ==
  /\ \E now \in CallerTimes, filter \in TypeFilters :
       /\ Due(now, filter) = {}
       /\ \E R \in ReapSets(now, filter) \ {{}} : job' = Reap(R, now)
  /\ UNCHANGED <<clock, registry, held>>

(* claim_due_job repeated with a registered token, the reply having been   *)
(* lost: the same lease again, if it is still exactly the claimed one.     *)
ReplayClaim(w, t) ==
  LET record == registry[t]  row == job[record.job] IN
  /\ ~Holding(w)
  /\ ~FreshToken(t)
  /\ StillClaimed(w, t)
  /\ held' = [held EXCEPT ![w] = [job |-> record.job, token |-> t,
                                  attempt |-> row.attempt, until |-> row.until]]
  /\ UNCHANGED <<clock, job, registry>>

(* heartbeat: extends the lease the worker holds; the reply may be lost. *)
Heartbeat(w) ==
  LET j == held[w].job IN
  /\ Holding(w)
  /\ LeaseMatches(w, job[j])
  /\ \E now \in NearClock(clock), d \in LeaseDurations :
       LET until == now + d IN
       /\ held[w].until < until
       /\ LeaseAlive(w, now)
       /\ until <= clock + MaxLease
       /\ WrittenBefore(j, now)
       /\ job' = [job EXCEPT ![j] = ExtendedRow(@, now, until)]
       /\ held' \in {held, [held EXCEPT ![w] = Renewed(@, until)]}
  /\ UNCHANGED <<clock, registry>>

(* complete: the run of this claim becomes the job's result. *)
Complete(w) ==
  LET j == held[w].job IN
  /\ Holding(w)
  /\ LeaseMatches(w, job[j])
  /\ \E now \in NearClock(clock) :
       /\ LeaseAlive(w, now)
       /\ WrittenBefore(j, now)
       /\ job' = [job EXCEPT ![j] =
                    ReleasedRow(@, "SUCCEEDED", NoTime, "none", held[w].token, now)]
  /\ held' = [held EXCEPT ![w] = NoLease]
  /\ UNCHANGED <<clock, registry>>

(* fail: a retryable failure with attempts left returns the job to the     *)
(* queue, any other ends it.                                               *)
Fail(w) ==
  LET j == held[w].job IN
  /\ Holding(w)
  /\ LeaseMatches(w, job[j])
  /\ \E now \in NearClock(clock), retryable \in BOOLEAN, delay \in RetryDelays :
       /\ LeaseAlive(w, now)
       /\ WrittenBefore(j, now)
       /\ job' = [job EXCEPT ![j] =
                    IF retryable /\ AttemptsLeft(j)
                    THEN ReleasedRow(@, "PENDING", now + delay, "reported", NoToken, now)
                    ELSE ReleasedRow(@, "FAILED", NoTime, "reported", NoToken, now)]
  /\ held' = [held EXCEPT ![w] = NoLease]
  /\ UNCHANGED <<clock, registry>>

(* expire_exhausted_job: a supervisor that read the row ends an exhausted  *)
(* lease by itself.                                                        *)
ExpireExhaustedJob(j) ==
  /\ \E now \in NearClock(clock) :
       /\ j \in Exhausted(now, AnyType)
       /\ WrittenBefore(j, now)
       /\ job' = [job EXCEPT ![j] = ExpiredRow(@, now)]
  /\ UNCHANGED <<clock, registry, held>>

(* get_job, or the `current` of a conflict: the worker learns the lease it *)
(* really has, or that it has none.                                        *)
ReadBack(w) ==
  LET row == job[held[w].job] IN
  /\ Holding(w)
  /\ held' = [held EXCEPT ![w] =
                IF row.status = "RUNNING" /\ row.token = @.token
                THEN Renewed(@, row.until)
                ELSE NoLease]
  /\ UNCHANGED <<clock, job, registry>>

(* A worker process stops and forgets its lease. *)
WorkerStops(w) ==
  /\ Holding(w)
  /\ held' = [held EXCEPT ![w] = NoLease]
  /\ UNCHANGED <<clock, job, registry>>

Tick ==
  /\ clock < Horizon
  /\ clock' = clock + 1
  /\ UNCHANGED <<job, registry, held>>

Next ==
  \/ \E j \in Jobs : CreateJob(j) \/ ExpireExhaustedJob(j)
  \/ \E w \in Workers, t \in Tokens : ClaimDueJob(w, t) \/ ReplayClaim(w, t)
  \/ \E w \in Workers :
       Heartbeat(w) \/ Complete(w) \/ Fail(w) \/ ReadBack(w) \/ WorkerStops(w)
  \/ ReapOnly
  \/ Tick

Spec == Init /\ [][Next]_vars

(* No worker runs here; the store's callers are assumed to keep polling    *)
(* whenever they are free, and no worker works under one lease for ever.   *)
Fairness ==
  /\ SF_vars(\E w \in Workers, t \in Tokens : ClaimDueJob(w, t))
  /\ WF_vars(ReapOnly)
  /\ \A w \in Workers : WF_vars(Complete(w) \/ Fail(w) \/ WorkerStops(w))
  /\ WF_vars(Tick)
FairSpec == Spec /\ Fairness

-----------------------------------------------------------------------------
(* Properties *)

TypeOK ==
  /\ clock \in Nat
  /\ job \in [Jobs -> Row]
  /\ registry \in [Tokens -> TokenRecord \cup {Unregistered}]
  /\ held \in [Workers -> Lease \cup {NoLease}]

(* Every stored row passes the integrity check every later read applies to *)
(* it (_job_snapshot): a row that fails it could never be read, claimed or *)
(* ended again.                                                            *)
ChronologyOK(row) ==
  /\ row.created <= row.updated
  /\ row.started # NoTime => row.created <= row.started /\ row.started <= row.updated
  /\ (row.attempt = 0) = (row.started = NoTime)

RunningOK(row) ==
  /\ row.owner # NoWorker /\ row.token # NoToken
  /\ row.until # NoTime /\ row.updated < row.until
  /\ row.attempt >= 1 /\ row.next = NoTime
  /\ row.run = NoToken /\ row.error = "none"

ReleasedOK(row) ==
  row.owner = NoWorker /\ row.token = NoToken /\ row.until = NoTime

PendingOK(row) ==
  /\ ReleasedOK(row)
  /\ row.next # NoTime /\ row.run = NoToken
  /\ IF row.attempt = 0
     THEN row.next = row.scheduled /\ row.error = "none" /\ row.updated = row.created
     ELSE row.attempt < row.limit /\ row.error # "none" /\ row.updated < row.next

TerminalOK(row) ==
  /\ ReleasedOK(row)
  /\ row.next = NoTime
  /\ row.status = "SUCCEEDED" =>
       row.attempt >= 1 /\ row.run # NoToken /\ row.error = "none"
  /\ row.status = "FAILED" => row.run = NoToken /\ row.error # "none"

RowContract ==
  \A j \in Jobs : LET row == job[j] IN
    row.status # "ABSENT" =>
      /\ row.attempt <= row.limit
      /\ ChronologyOK(row)
      /\ row.status = "RUNNING" => RunningOK(row)
      /\ row.status = "PENDING" => PendingOK(row)
      /\ row.status \in Terminal => TerminalOK(row)

(* The two tables agree: a job's attempts are exactly its registered       *)
(* claims, one token each; a live lease is that of the latest claim, and   *)
(* so is the run a success records, never that of a lease taken over.      *)
ClaimsOf(j) == {t \in Tokens : registry[t].job = j}
AttemptsAccounted ==
  \A j \in Jobs :
    /\ \A t \in ClaimsOf(j) : registry[t].attempt \in 1..job[j].attempt
    /\ \A t, u \in ClaimsOf(j) : registry[t].attempt = registry[u].attempt => t = u
    /\ \A n \in 1..job[j].attempt : \E t \in ClaimsOf(j) : registry[t].attempt = n
    /\ job[j].status = "RUNNING" =>
         /\ job[j].token \in ClaimsOf(j)
         /\ registry[job[j].token].attempt = job[j].attempt
         /\ registry[job[j].token].owner = job[j].owner
    /\ job[j].status = "SUCCEEDED" =>
         /\ job[j].run \in ClaimsOf(j)
         /\ registry[job[j].run].attempt = job[j].attempt

(* Of all workers that believe they hold a job, at most one believes so    *)
(* while its lease has not ended on the database clock: lost replies,      *)
(* replays, reclaims and clock skew never give a job to two workers.       *)
OneLiveLease ==
  \A v, w \in Workers :
    /\ v # w /\ Holding(v) /\ Holding(w) /\ held[v].job = held[w].job
    => held[v].until <= clock \/ held[w].until <= clock

(* Until its lease ends on the database clock a claim is ended only by the *)
(* worker it was given to, even when its caller's clock runs ahead.        *)
LeaseHonoured ==
  [][\A j \in Jobs :
       job[j].status = "RUNNING" /\ job[j].token # job'[j].token =>
         \/ job[j].until <= clock
         \/ \E w \in Workers :
              held[w].job = j /\ held[w].token = job[j].token /\ held'[w] = NoLease
    ]_vars

(* A job that is due, or whose lease ran out, is not left lying: it is     *)
(* claimed again or ended, as long as the instance has tokens for a claim. *)
Waiting(j) ==
  \/ job[j].status = "PENDING" /\ job[j].next <= clock
  \/ job[j].status = "RUNNING" /\ job[j].until <= clock
DueIsServed ==
  \A j \in Jobs : Waiting(j) ~> ~Waiting(j) \/ \A t \in Tokens : ~FreshToken(t)

(* The store implements FencedJobs: its rows are the phases, and the       *)
(* registry read in attempt order is the sequence of grants of each job.   *)
GrantsOf(j) ==
  [n \in 1..job[j].attempt |->
     CHOOSE t \in Tokens : registry[t].job = j /\ registry[t].attempt = n]

Fenced == INSTANCE FencedJobs WITH
  Claims <- Tokens, NoClaim <- NoToken, Limits <- AttemptLimits,
  phase  <- [j \in Jobs |-> job[j].status],
  limit  <- [j \in Jobs |-> job[j].limit],
  grants <- [j \in Jobs |-> GrantsOf(j)],
  result <- [j \in Jobs |-> job[j].run]

ImplementsFencedJobs == Fenced!Spec
=============================================================================
