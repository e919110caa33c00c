-------------------------- MODULE JobStoreProofs --------------------------
(* Proofs about JobStore, for every set of jobs, workers and tokens and    *)
(* every value of the bounds.                                              *)
EXTENDS JobStore, SequenceTheorems, TLAPS

USE JobsAssumption, NullAssumption, CallAssumption, BoundAssumption

(* A RUNNING row has a lease end; needed wherever a lease end is copied.   *)
RunningHasEnd == \A j \in Jobs : job[j].status = "RUNNING" => job[j].until \in Int

LEMMA NewRowType ==
  ASSUME NEW limit \in Nat, NEW scheduled \in Int, NEW created \in Int
  PROVE  /\ NewRow(limit, scheduled, created) \in Row
         /\ NewRow(limit, scheduled, created).status = "PENDING"
  BY DEF NewRow, Row, Statuses, Errors

LEMMA ReapType ==
  ASSUME TypeOK, RunningHasEnd, NEW R \in SUBSET Jobs, NEW now \in Int
  PROVE  /\ Reap(R, now) \in [Jobs -> Row]
         /\ \A j \in Jobs : Reap(R, now)[j].status = "RUNNING"
                              => Reap(R, now)[j] = job[j]
<1>1. \A j \in Jobs : ExpiredRow(job[j], now) \in Row
                      /\ ExpiredRow(job[j], now).status = "FAILED"
  BY DEF TypeOK, ExpiredRow, ReleasedRow, Row, Statuses, Terminal, Errors
<1>2. QED BY <1>1 DEF Reap, TypeOK

LEMMA ClockTypes ==
  ASSUME TypeOK
  PROVE  /\ \A now \in NearClock(clock) : now \in Int
         /\ \A now \in CallerTimes : now \in Int
         /\ \A d \in LeaseDurations : d \in Nat /\ d >= 1
  BY DEF TypeOK, NearClock, CallerTimes

LEMMA TypeStep == TypeOK /\ RunningHasEnd /\ [Next]_vars => TypeOK' /\ RunningHasEnd'
<1> SUFFICES ASSUME TypeOK, RunningHasEnd, [Next]_vars
             PROVE  TypeOK' /\ RunningHasEnd'
  OBVIOUS
<1> USE ClockTypes
<1>1. ASSUME NEW j \in Jobs, CreateJob(j) PROVE TypeOK' /\ RunningHasEnd'
  <2>2. PICK limit \in AttemptLimits, scheduled \in Schedules, created \in CallerTimes :
             job' = [job EXCEPT ![j] = NewRow(limit, scheduled, created)]
    BY <1>1 DEF CreateJob
  <2>3. NewRow(limit, scheduled, created) \in Row
        /\ NewRow(limit, scheduled, created).status = "PENDING"
    BY NewRowType
  <2>4. QED BY <1>1, <2>2, <2>3 DEF CreateJob, TypeOK, RunningHasEnd
<1>2. ASSUME NEW j \in Jobs, ExpireExhaustedJob(j) PROVE TypeOK' /\ RunningHasEnd'
  <2>1. PICK now \in NearClock(clock) : job' = [job EXCEPT ![j] = ExpiredRow(@, now)]
    BY <1>2 DEF ExpireExhaustedJob
  <2>2. ExpiredRow(job[j], now) \in Row /\ ExpiredRow(job[j], now).status = "FAILED"
    BY DEF TypeOK, ExpiredRow, ReleasedRow, Row, Statuses, Terminal, Errors
  <2>3. QED BY <1>2, <2>1, <2>2 DEF ExpireExhaustedJob, TypeOK, RunningHasEnd
<1>3. ASSUME NEW w \in Workers, NEW t \in Tokens, ClaimDueJob(w, t)
      PROVE  TypeOK' /\ RunningHasEnd'
  <2>2. PICK now \in CallerTimes, d \in LeaseDurations, filter \in TypeFilters,
             j \in Jobs, R \in SUBSET Jobs : TakeHead(w, t, filter, j, R, now, now + d)
    BY <1>3 DEF ClaimDueJob, Due, Exhausted
  <2>3. now \in Int /\ now + d \in Int
    OBVIOUS
  <2>4. /\ ClaimedRow(job[j], w, t, now, now + d) \in Row
        /\ ClaimedRow(job[j], w, t, now, now + d).until = now + d
    BY <2>3 DEF TypeOK, ClaimedRow, Row, Statuses, Errors
  <2>5. /\ Reap(R, now) \in [Jobs -> Row]
        /\ \A i \in Jobs : Reap(R, now)[i].status = "RUNNING" => Reap(R, now)[i] = job[i]
    BY <2>3, ReapType
  <2>6. job' \in [Jobs -> Row] /\ RunningHasEnd'
    BY <2>2, <2>3, <2>4, <2>5 DEF TakeHead, RunningHasEnd
  <2>7. job[j].attempt + 1 \in Nat \ {0}
    BY <2>3 DEF TypeOK, Row
  <2>8. registry' \in [Tokens -> TokenRecord \cup {Unregistered}]
    BY <2>2, <2>3, <2>7 DEF TakeHead, TypeOK, TokenRecord, ClaimRecord
  <2>9. held' \in [Workers -> Lease \cup {NoLease}]
    BY <2>2, <2>3, <2>7 DEF TakeHead, TypeOK, Lease
  <2>10. QED BY <2>2, <2>6, <2>8, <2>9 DEF TakeHead, TypeOK
<1>4. ASSUME NEW w \in Workers, NEW t \in Tokens, ReplayClaim(w, t)
      PROVE  TypeOK' /\ RunningHasEnd'
  <2>1. registry[t].job \in Jobs
    BY <1>4 DEF ReplayClaim, FreshToken, TypeOK, TokenRecord
  <2>2. QED
    BY <1>4, <2>1 DEF ReplayClaim, StillClaimed, TypeOK, TokenRecord, Lease, Row, RunningHasEnd
<1>5. ASSUME NEW w \in Workers, Heartbeat(w) PROVE TypeOK' /\ RunningHasEnd'
  <2> DEFINE j == held[w].job
  <2>1. j \in Jobs
    BY <1>5 DEF Heartbeat, Holding, TypeOK, Lease, NoLease
  <2>2. PICK now \in NearClock(clock), d \in LeaseDurations :
          /\ job' = [job EXCEPT ![j] = ExtendedRow(@, now, now + d)]
          /\ held' \in {held, [held EXCEPT ![w] = Renewed(@, now + d)]}
    BY <1>5 DEF Heartbeat
  <2>3. now \in Int /\ now + d \in Int
    OBVIOUS
  <2>4. /\ ExtendedRow(job[j], now, now + d) \in Row
        /\ ExtendedRow(job[j], now, now + d).until = now + d
    BY <2>1, <2>3 DEF TypeOK, Row, ExtendedRow
  <2>5. job' \in [Jobs -> Row] /\ RunningHasEnd'
    BY <2>1, <2>2, <2>4 DEF TypeOK, RunningHasEnd
  <2>6. held[w] \in Lease
    BY <2>1, JobsAssumption DEF TypeOK, NoLease, NoJob
  <2>7. Renewed(held[w], now + d) \in Lease
    BY <2>3, <2>6 DEF Lease, Renewed
  <2>8. held' \in [Workers -> Lease \cup {NoLease}]
    BY <2>2, <2>7 DEF TypeOK
  <2>9. QED BY <1>5, <2>5, <2>8 DEF Heartbeat, TypeOK
<1>6. ASSUME NEW w \in Workers, Complete(w) PROVE TypeOK' /\ RunningHasEnd'
  <2> DEFINE j == held[w].job
  <2>1. j \in Jobs /\ held[w].token \in Tokens \cup {NoToken}
    BY <1>6 DEF Complete, Holding, TypeOK, Lease, NoLease
  <2>2. PICK now \in NearClock(clock) :
          job' = [job EXCEPT ![j] =
                    ReleasedRow(@, "SUCCEEDED", NoTime, "none", held[w].token, now)]
    BY <1>6 DEF Complete
  <2>3. /\ ReleasedRow(job[j], "SUCCEEDED", NoTime, "none", held[w].token, now) \in Row
        /\ ReleasedRow(job[j], "SUCCEEDED", NoTime, "none", held[w].token, now).status = "SUCCEEDED"
    BY <2>1 DEF TypeOK, ReleasedRow, Row, Statuses, Terminal, Errors
  <2>4. QED
    BY <1>6, <2>1, <2>2, <2>3 DEF Complete, TypeOK, Lease, NoLease, RunningHasEnd
<1>7. ASSUME NEW w \in Workers, Fail(w) PROVE TypeOK' /\ RunningHasEnd'
  <2> DEFINE j == held[w].job
  <2>1. j \in Jobs
    BY <1>7 DEF Fail, Holding, TypeOK, Lease, NoLease
  <2>2. PICK now \in NearClock(clock), retryable \in BOOLEAN, delay \in RetryDelays :
          job' = [job EXCEPT ![j] =
                    IF retryable /\ AttemptsLeft(j)
                    THEN ReleasedRow(@, "PENDING", now + delay, "reported", NoToken, now)
                    ELSE ReleasedRow(@, "FAILED", NoTime, "reported", NoToken, now)]
    BY <1>7 DEF Fail
  <2>3. now + delay \in Int
    OBVIOUS
  <2>4. /\ ReleasedRow(job[j], "PENDING", now + delay, "reported", NoToken, now) \in Row
        /\ ReleasedRow(job[j], "PENDING", now + delay, "reported", NoToken, now).status = "PENDING"
        /\ ReleasedRow(job[j], "FAILED", NoTime, "reported", NoToken, now) \in Row
        /\ ReleasedRow(job[j], "FAILED", NoTime, "reported", NoToken, now).status = "FAILED"
    BY <2>1, <2>3 DEF TypeOK, ReleasedRow, Row, Statuses, Terminal, Errors
  <2>5. QED
    BY <1>7, <2>1, <2>2, <2>4 DEF Fail, TypeOK, Lease, NoLease, RunningHasEnd
<1>8. ASSUME NEW w \in Workers, ReadBack(w) PROVE TypeOK' /\ RunningHasEnd'
  <2>1. held[w].job \in Jobs
    BY <1>8 DEF ReadBack, Holding, TypeOK, Lease, NoLease
  <2>2. held' \in [Workers -> Lease \cup {NoLease}]
    <3> DEFINE row == job[held[w].job]
    <3>1. held[w] \in Lease
      BY <2>1, JobsAssumption DEF TypeOK, NoLease, NoJob
    <3>2. row.status = "RUNNING" => Renewed(held[w], row.until) \in Lease
      BY <2>1, <3>1 DEF Lease, Renewed, RunningHasEnd
    <3>3. QED BY <1>8, <3>2 DEF ReadBack, TypeOK
  <2>3. QED BY <1>8, <2>2 DEF ReadBack, TypeOK, RunningHasEnd
<1>9. ASSUME NEW w \in Workers, WorkerStops(w) PROVE TypeOK' /\ RunningHasEnd'
  BY <1>9 DEF WorkerStops, TypeOK, RunningHasEnd, Lease, NoLease
<1>10. ASSUME ReapOnly PROVE TypeOK' /\ RunningHasEnd'
  <2>2. PICK now \in CallerTimes, R \in SUBSET Jobs : job' = Reap(R, now)
    BY <1>10 DEF ReapOnly, ReapSets, Exhausted
  <2>3. now \in Int
    OBVIOUS
  <2>4. job' \in [Jobs -> Row] /\ RunningHasEnd'
    BY <2>2, <2>3, ReapType DEF RunningHasEnd
  <2>5. QED BY <1>10, <2>4 DEF ReapOnly, TypeOK
<1>11. ASSUME Tick PROVE TypeOK' /\ RunningHasEnd'
  <2>1. clock' \in Nat
    <3>1. clock \in Nat
      BY DEF TypeOK
    <3>2. QED BY <1>11, <3>1 DEF Tick
  <2>2. job' = job /\ registry' = registry /\ held' = held
    BY <1>11 DEF Tick
  <2>3. QED BY <2>1, <2>2 DEF TypeOK, RunningHasEnd
<1>12. CASE UNCHANGED vars
  BY <1>12 DEF vars, TypeOK, RunningHasEnd
<1>13. QED
  BY <1>1, <1>2, <1>3, <1>4, <1>5, <1>6, <1>7, <1>8, <1>9, <1>10, <1>11, <1>12 DEF Next

LEMMA TypeInit == Init => TypeOK /\ RunningHasEnd
  BY DEF Init, TypeOK, RunningHasEnd, AbsentRow, Row, Statuses, Errors,
         Unregistered, TokenRecord, NoLease, Lease

(* The tables and the workers' memories are always well typed: every row,  *)
(* registered claim and remembered lease of the store has its type.        *)
THEOREM TypeCorrect == Spec => []TypeOK
<1>1. Spec => [](TypeOK /\ RunningHasEnd)
  BY TypeInit, TypeStep, PTL DEF Spec
<1>2. QED BY <1>1, PTL

-----------------------------------------------------------------------------
(* Fencing.  What a worker believes is backed by the registry, which names *)
(* one owner for each token, and by the row for as long as the lease the   *)
(* worker was told of has not ended on the database clock.                 *)

Backed(w) ==
  LET lease == held[w]  row == job[lease.job] IN
  /\ lease.token \in Tokens
  /\ registry[lease.token].job = lease.job
  /\ registry[lease.token].owner = w
  /\ \/ row.status = "RUNNING" /\ row.token = lease.token /\ lease.until <= row.until
     \/ lease.until <= clock

LeaseBelief == \A w \in Workers : Holding(w) => Backed(w)

FenceInv == TypeOK /\ RunningHasEnd /\ LeaseBelief

LEMMA HolderTypes ==
  ASSUME TypeOK, NEW w \in Workers, Holding(w)
  PROVE  held[w] \in Lease
  BY DEF TypeOK, Holding, NoLease, NoJob

(* A step that leaves the registry and the workers alone keeps every       *)
(* belief if it changes only rows that are not RUNNING under a live lease, *)
(* or keeps their token and does not shorten them.                         *)
Harmless(i) ==
  \/ job'[i] = job[i]
  \/ job[i].status # "RUNNING"
  \/ job[i].until <= clock
  \/ /\ job'[i].status = "RUNNING" /\ job'[i].token = job[i].token
     /\ job'[i].until \in Int /\ job[i].until <= job'[i].until

LEMMA BeliefKept ==
  ASSUME FenceInv, NEW w \in Workers, Holding(w),
         held'[w] = held[w], registry'[held[w].token] = registry[held[w].token],
         clock' = clock, Harmless(held[w].job)
  PROVE  Backed(w)'
<1>1. held[w] \in Lease /\ held[w].job \in Jobs /\ held[w].until \in Int
  BY HolderTypes DEF FenceInv, Lease
<1>2. Backed(w)
  BY DEF FenceInv, LeaseBelief
<1>3. job[held[w].job].status = "RUNNING" => job[held[w].job].until \in Int
  BY <1>1 DEF FenceInv, RunningHasEnd
<1>4. clock \in Int
  BY DEF FenceInv, TypeOK
<1> DEFINE row == job[held[w].job]  next == job'[held[w].job]
<1>5. \/ next.status = "RUNNING" /\ next.token = held[w].token /\ held[w].until <= next.until
      \/ held[w].until <= clock
  <2>1. CASE held[w].until <= clock
    BY <2>1
  <2>2. CASE row.status = "RUNNING" /\ row.token = held[w].token /\ held[w].until <= row.until
    BY <1>1, <1>3, <1>4, <2>2 DEF Harmless
  <2>3. QED BY <1>2, <2>1, <2>2 DEF Backed
<1>6. QED
  BY <1>2, <1>5 DEF Backed

LEMMA OverIsHarmless ==
  ASSUME NEW now \in Int, NEW filter \in TypeFilters,
         NEW R \in ReapSets(now, filter), NEW i \in R
  PROVE  job[i].until <= clock
  BY DEF ReapSets, Exhausted, LeaseOver

LEMMA FenceStep == FenceInv /\ [Next]_vars => LeaseBelief'
<1> SUFFICES ASSUME FenceInv, [Next]_vars, NEW v \in Workers, Holding(v)'
             PROVE  Backed(v)'
  BY DEF LeaseBelief
<1> USE ClockTypes
<1>0. TypeOK /\ RunningHasEnd
  BY DEF FenceInv
<1>1. ASSUME NEW j \in Jobs, CreateJob(j) PROVE Backed(v)'
  <2>1. \A i \in Jobs : Harmless(i)
    BY <1>0, <1>1 DEF CreateJob, Harmless, TypeOK
  <2>2. Holding(v) /\ held[v].job \in Jobs
    BY <1>0, <1>1, HolderTypes DEF CreateJob, Holding, Lease
  <2>3. QED BY <1>1, <2>1, <2>2, BeliefKept DEF CreateJob
<1>2. ASSUME NEW j \in Jobs, ExpireExhaustedJob(j) PROVE Backed(v)'
  <2>1. job[j].until <= clock
    BY <1>2 DEF ExpireExhaustedJob, Exhausted, LeaseOver
  <2>2. \A i \in Jobs : Harmless(i)
    BY <1>0, <1>2, <2>1 DEF ExpireExhaustedJob, Harmless, TypeOK
  <2>3. Holding(v) /\ held[v].job \in Jobs
    BY <1>0, <1>2, HolderTypes DEF ExpireExhaustedJob, Holding, Lease
  <2>4. QED BY <1>2, <2>2, <2>3, BeliefKept DEF ExpireExhaustedJob
<1>3. ASSUME NEW w \in Workers, NEW t \in Tokens, ClaimDueJob(w, t) PROVE Backed(v)'
  <2>1. PICK now \in CallerTimes, d \in LeaseDurations, filter \in TypeFilters,
             j \in Jobs, R \in SUBSET Jobs : TakeHead(w, t, filter, j, R, now, now + d)
    BY <1>3 DEF ClaimDueJob, Due, Exhausted
  <2>2. now \in Int /\ now + d \in Int /\ FreshToken(t) /\ clock' = clock
    BY <1>0, <1>3, <2>1 DEF ClaimDueJob, TakeHead
  <2>3. job[j].status # "RUNNING" \/ job[j].until <= clock
    BY <2>1 DEF TakeHead, Heads, Due, LeaseOver
  <2>4. \A i \in R : job[i].until <= clock
    BY <2>1, <2>2, OverIsHarmless DEF TakeHead
  <2>5. \A i \in Jobs : Harmless(i)
    BY <1>0, <2>1, <2>3, <2>4 DEF TakeHead, Reap, TypeOK, Harmless
  <2>6. CASE held'[v] = held[v]
    <3>1. Holding(v) /\ held[v].job \in Jobs /\ held[v].token \in Tokens
      BY <1>0, <2>6, HolderTypes DEF Holding, Lease, FenceInv, LeaseBelief, Backed
    <3>2. held[v].token # t
      BY <2>2, <3>1, JobsAssumption
         DEF FenceInv, LeaseBelief, Backed, FreshToken, Unregistered, NoJob
    <3>3. registry'[held[v].token] = registry[held[v].token]
      BY <1>0, <2>1, <3>1, <3>2 DEF TakeHead, TypeOK
    <3>4. QED BY <2>2, <2>5, <2>6, <3>1, <3>3, BeliefKept
  <2>7. CASE held'[v] # held[v]
    <3>1. v = w /\ held'[v] = [job |-> j, token |-> t,
                               attempt |-> job[j].attempt + 1, until |-> now + d]
      BY <1>0, <2>1, <2>7 DEF TakeHead, TypeOK
    <3>2. registry'[t] = ClaimRecord(j, w, now, now + d)
      BY <1>0, <2>1 DEF TakeHead, TypeOK
    <3>3. job'[j] = ClaimedRow(job[j], w, t, now, now + d)
      BY <1>0, <2>1 DEF TakeHead, TypeOK, Reap
    <3>4. QED BY <2>2, <3>1, <3>2, <3>3 DEF Backed, ClaimRecord, ClaimedRow
  <2>8. QED BY <2>6, <2>7
<1>4. ASSUME NEW w \in Workers, NEW t \in Tokens, ReplayClaim(w, t) PROVE Backed(v)'
  <2>1. CASE v # w
    <3>1. held'[v] = held[v] /\ Holding(v)
      BY <1>0, <1>4, <2>1 DEF ReplayClaim, TypeOK, Holding
    <3>2. QED BY <1>4, <3>1, BeliefKept DEF ReplayClaim, Harmless
  <2>2. CASE v = w
    <3>1. registry[t].job \in Jobs
      BY <1>0, <1>4 DEF ReplayClaim, FreshToken, TypeOK, TokenRecord
    <3>2. job[registry[t].job].until \in Int
      BY <1>0, <1>4, <3>1 DEF ReplayClaim, StillClaimed, RunningHasEnd
    <3>3. held'[v] = [job |-> registry[t].job, token |-> t,
                      attempt |-> job[registry[t].job].attempt,
                      until |-> job[registry[t].job].until]
      BY <1>0, <1>4, <2>2 DEF ReplayClaim, TypeOK
    <3>4. QED
      BY <1>4, <2>2, <3>2, <3>3 DEF ReplayClaim, StillClaimed, Backed
  <2>3. QED BY <2>1, <2>2
<1>5. ASSUME NEW w \in Workers, Heartbeat(w) PROVE Backed(v)'
  <2> DEFINE j == held[w].job
  <2>1. held[w] \in Lease /\ j \in Jobs /\ Backed(w)
    BY <1>0, <1>5, HolderTypes DEF Heartbeat, Lease, FenceInv, LeaseBelief
  <2>2. PICK now \in NearClock(clock), d \in LeaseDurations :
          /\ held[w].until < now + d
          /\ job' = [job EXCEPT ![j] = ExtendedRow(@, now, now + d)]
          /\ held' \in {held, [held EXCEPT ![w] = Renewed(@, now + d)]}
    BY <1>5 DEF Heartbeat
  <2>3. now + d \in Int /\ LeaseMatches(w, job[j]) /\ held[w].until \in Int
    BY <1>0, <1>5, <2>1 DEF Heartbeat, Lease
  <2>4. job'[j] = ExtendedRow(job[j], now, now + d)
    BY <1>0, <2>1, <2>2 DEF TypeOK
  <2>5. \A i \in Jobs : Harmless(i)
    BY <1>0, <2>1, <2>2, <2>3, <2>4 DEF Harmless, ExtendedRow, LeaseMatches, TypeOK
  <2>6. CASE held'[v] = held[v]
    <3>1. Holding(v) /\ held[v].job \in Jobs
      BY <1>0, <2>6, HolderTypes DEF Holding, Lease
    <3>2. QED BY <1>5, <2>5, <2>6, <3>1, BeliefKept DEF Heartbeat
  <2>7. CASE held'[v] # held[v]
    <3>1. v = w /\ held'[v] = Renewed(held[w], now + d)
      BY <1>0, <2>2, <2>7 DEF TypeOK
    <3>2. QED
      BY <1>5, <2>1, <2>3, <2>4, <3>1
         DEF Heartbeat, Backed, Renewed, ExtendedRow, LeaseMatches
  <2>8. QED BY <2>6, <2>7
<1>6. ASSUME NEW w \in Workers, Complete(w) \/ Fail(w) PROVE Backed(v)'
  <2>1. /\ Holding(w) /\ LeaseMatches(w, job[held[w].job])
        /\ \A i \in Jobs : i # held[w].job => job'[i] = job[i]
        /\ held' = [held EXCEPT ![w] = NoLease]
        /\ clock' = clock /\ registry' = registry
    BY <1>0, <1>6 DEF Complete, Fail, TypeOK
  <2>2. v # w
    BY <1>0, <2>1 DEF Holding, NoLease, TypeOK
  <2>3. held'[v] = held[v] /\ Holding(v)
    BY <1>0, <2>1, <2>2 DEF TypeOK, Holding
  <2>4. Backed(v) /\ Backed(w) /\ held[v].job \in Jobs
    BY <1>0, <2>1, <2>3, HolderTypes DEF FenceInv, LeaseBelief, Lease
  <2>5. held[v].token # held[w].token
    BY <2>2, <2>4 DEF Backed
  <2>6. CASE held[v].job # held[w].job
    BY <2>1, <2>3, <2>4, <2>6, BeliefKept DEF Harmless
  <2>7. CASE held[v].job = held[w].job
    <3>1. held[v].until <= clock
      BY <2>1, <2>4, <2>5, <2>7 DEF Backed, LeaseMatches
    <3>2. QED BY <2>1, <2>3, <2>4, <3>1 DEF Backed
  <2>8. QED BY <2>6, <2>7
<1>7. ASSUME NEW w \in Workers, ReadBack(w) PROVE Backed(v)'
  <2>1. CASE held'[v] = held[v]
    <3>1. Holding(v) BY <2>1 DEF Holding
    <3>2. QED BY <1>7, <2>1, <3>1, BeliefKept DEF ReadBack, Harmless
  <2>2. CASE held'[v] # held[v]
    <3> DEFINE row == job[held[w].job]
    <3>1. v = w
      BY <1>0, <1>7, <2>2 DEF ReadBack, TypeOK
    <3>2. held[w] \in Lease /\ held[w].job \in Jobs /\ Backed(w)
      BY <1>0, <1>7, HolderTypes DEF ReadBack, Lease, FenceInv, LeaseBelief
    <3>3. row.status = "RUNNING" /\ row.token = held[w].token
          /\ held'[w] = Renewed(held[w], row.until)
      BY <1>0, <1>7, <3>1 DEF ReadBack, TypeOK, Holding, NoLease
    <3>4. row.until \in Int
      BY <1>0, <3>2, <3>3 DEF RunningHasEnd
    <3>5. QED BY <1>7, <3>1, <3>2, <3>3, <3>4 DEF ReadBack, Backed, Renewed
  <2>3. QED BY <2>1, <2>2
<1>8. ASSUME NEW w \in Workers, WorkerStops(w) PROVE Backed(v)'
  <2>1. held'[v] = held[v] /\ Holding(v)
    BY <1>0, <1>8 DEF WorkerStops, TypeOK, Holding, NoLease
  <2>2. QED BY <1>8, <2>1, BeliefKept DEF WorkerStops, Harmless
<1>9. ASSUME ReapOnly PROVE Backed(v)'
  <2>1. PICK now \in CallerTimes, filter \in TypeFilters :
          \E R \in ReapSets(now, filter) : job' = Reap(R, now)
    BY <1>9 DEF ReapOnly
  <2>2. PICK R \in ReapSets(now, filter) : job' = Reap(R, now)
    BY <2>1
  <2>3. now \in Int
    BY <1>0
  <2>4. \A i \in R : job[i].until <= clock
    BY <2>2, <2>3, OverIsHarmless
  <2>5. \A i \in Jobs : Harmless(i)
    BY <2>2, <2>4 DEF Reap, Harmless
  <2>6. Holding(v) /\ held[v].job \in Jobs
    BY <1>0, <1>9, HolderTypes DEF ReapOnly, Holding, Lease
  <2>7. QED BY <1>9, <2>5, <2>6, BeliefKept DEF ReapOnly
<1>10. ASSUME Tick PROVE Backed(v)'
  <2>1. Holding(v) /\ held[v] \in Lease /\ Backed(v)
    BY <1>0, <1>10, HolderTypes DEF Tick, Holding, FenceInv, LeaseBelief
  <2>2. QED BY <1>0, <1>10, <2>1 DEF Tick, Backed, Lease, TypeOK
<1>11. CASE UNCHANGED vars
  <2>1. Holding(v) BY <1>11 DEF vars, Holding
  <2>2. QED BY <1>11, <2>1, BeliefKept DEF vars, Harmless
<1>12. QED
  BY <1>1, <1>2, <1>3, <1>4, <1>5, <1>6, <1>7, <1>8, <1>9, <1>10, <1>11 DEF Next

LEMMA FenceInvariant == Spec => []FenceInv
<1>1. Init => FenceInv
  BY TypeInit DEF Init, FenceInv, LeaseBelief, Holding, NoLease
<1>2. FenceInv /\ [Next]_vars => FenceInv'
  BY TypeStep, FenceStep DEF FenceInv
<1>3. QED BY <1>1, <1>2, PTL DEF Spec

(* However clocks run, replies get lost and claims are repeated, no two    *)
(* workers believe in leases of one job that are both still running.       *)
THEOREM Fencing == Spec => []OneLiveLease
<1>1. FenceInv => OneLiveLease
  <2> SUFFICES ASSUME FenceInv, NEW v \in Workers, NEW w \in Workers, v # w,
                      Holding(v), Holding(w), held[v].job = held[w].job
               PROVE  held[v].until <= clock \/ held[w].until <= clock
    BY DEF OneLiveLease
  <2>1. Backed(v) /\ Backed(w)
    BY DEF FenceInv, LeaseBelief
  <2>2. QED BY <2>1 DEF Backed
<1>2. QED BY <1>1, FenceInvariant, PTL

-----------------------------------------------------------------------------
(* What may end a lease that still runs on the database clock. *)

EndedByHolder(j) ==
  job[j].status = "RUNNING" /\ job[j].token # job'[j].token =>
    \/ job[j].until <= clock
    \/ \E w \in Workers :
         held[w].job = j /\ held[w].token = job[j].token /\ held'[w] = NoLease

LEMMA LeaseStep == FenceInv /\ [Next]_vars => \A j \in Jobs : EndedByHolder(j)
<1> SUFFICES ASSUME FenceInv, [Next]_vars, NEW i \in Jobs, job[i].status = "RUNNING",
                    job[i].token # job'[i].token, ~(job[i].until <= clock)
             PROVE  \E w \in Workers :
                      held[w].job = i /\ held[w].token = job[i].token /\ held'[w] = NoLease
  BY DEF EndedByHolder
<1> USE ClockTypes
<1>0. TypeOK
  BY DEF FenceInv
<1>1. ASSUME NEW j \in Jobs, CreateJob(j) PROVE FALSE
  BY <1>0, <1>1 DEF CreateJob, TypeOK
<1>2. ASSUME NEW j \in Jobs, ExpireExhaustedJob(j) PROVE FALSE
  <2>1. job[j].until <= clock /\ \A k \in Jobs \ {j} : job'[k] = job[k]
    BY <1>0, <1>2 DEF ExpireExhaustedJob, Exhausted, LeaseOver, TypeOK
  <2> QED BY <2>1
<1>3. ASSUME NEW w \in Workers, NEW t \in Tokens, ClaimDueJob(w, t) PROVE FALSE
  <2>1. PICK now \in CallerTimes, d \in LeaseDurations, filter \in TypeFilters,
             j \in Jobs, R \in SUBSET Jobs : TakeHead(w, t, filter, j, R, now, now + d)
    BY <1>3 DEF ClaimDueJob, Due, Exhausted
  <2>2. now \in Int
    BY <1>0
  <2>3. i # j
    BY <2>1 DEF TakeHead, Heads, Due, LeaseOver
  <2>4. i \notin R
    BY <2>1, <2>2, OverIsHarmless DEF TakeHead
  <2> QED BY <1>0, <2>1, <2>3, <2>4 DEF TakeHead, Reap, TypeOK
<1>4. ASSUME ReapOnly PROVE FALSE
  <2>1. PICK now \in CallerTimes, filter \in TypeFilters :
          \E R \in ReapSets(now, filter) : job' = Reap(R, now)
    BY <1>4 DEF ReapOnly
  <2>2. PICK R \in ReapSets(now, filter) : job' = Reap(R, now)
    BY <2>1
  <2>3. now \in Int
    BY <1>0
  <2>4. i \notin R
    BY <2>3, OverIsHarmless
  <2> QED BY <2>2, <2>4 DEF Reap
<1>5. ASSUME NEW w \in Workers, Heartbeat(w) PROVE FALSE
  <2>1. held[w].job \in Jobs
    BY <1>0, <1>5, HolderTypes DEF Heartbeat, Lease
  <2>2. PICK now \in NearClock(clock), d \in LeaseDurations :
          job' = [job EXCEPT ![held[w].job] = ExtendedRow(@, now, now + d)]
    BY <1>5 DEF Heartbeat
  <2> QED BY <1>0, <2>1, <2>2 DEF ExtendedRow, TypeOK
<1>6. ASSUME NEW w \in Workers, Complete(w) \/ Fail(w)
      PROVE  held[w].job = i /\ held[w].token = job[i].token /\ held'[w] = NoLease
  <2>1. /\ Holding(w) /\ LeaseMatches(w, job[held[w].job])
        /\ \A k \in Jobs : k # held[w].job => job'[k] = job[k]
        /\ held' = [held EXCEPT ![w] = NoLease]
    BY <1>0, <1>6 DEF Complete, Fail, TypeOK
  <2>2. held[w].job = i
    BY <2>1
  <2> QED BY <1>0, <2>1, <2>2 DEF LeaseMatches, TypeOK
<1>7. ASSUME UNCHANGED job PROVE FALSE
  BY <1>7
<1>8. QED
  BY <1>1, <1>2, <1>3, <1>4, <1>5, <1>6, <1>7
  DEF Next, ReplayClaim, ReadBack, WorkerStops, Tick, vars

(* A lease that runs on the database clock is ended by the worker that     *)
(* holds it and by nobody else, however far the clocks of others are ahead *)
(* and however often they reap, expire or claim.                           *)
THEOREM LeasesHonoured == Spec => LeaseHonoured
<1>1. FenceInv /\ [Next]_vars =>
        [\A j \in Jobs : EndedByHolder(j)]_vars
  BY LeaseStep
<1>2. Spec => [][\A j \in Jobs : EndedByHolder(j)]_vars
  BY <1>1, FenceInvariant, PTL DEF Spec
<1> QED BY <1>2 DEF LeaseHonoured, EndedByHolder

-----------------------------------------------------------------------------
(* The two tables agree. *)

Accounted(j) ==
  /\ \A t \in ClaimsOf(j) : registry[t].attempt \in 1..job[j].attempt
  /\ \A t, u \in ClaimsOf(j) : registry[t].attempt = registry[u].attempt => t = u
  /\ \A n \in 1..job[j].attempt : \E t \in ClaimsOf(j) : registry[t].attempt = n
  /\ job[j].status = "RUNNING" =>
       /\ job[j].token \in ClaimsOf(j)
       /\ registry[job[j].token].attempt = job[j].attempt
       /\ registry[job[j].token].owner = job[j].owner
  /\ job[j].status = "SUCCEEDED" =>
       /\ job[j].run \in ClaimsOf(j)
       /\ registry[job[j].run].attempt = job[j].attempt
AbsentIsEmpty == \A j \in Jobs : job[j].status = "ABSENT" => job[j].attempt = 0
AccountInv == TypeOK /\ RunningHasEnd /\ AbsentIsEmpty /\ AttemptsAccounted

(* A write that starts no attempt and ends a lease only with its own run. *)
SameAttempt(j) ==
  /\ job'[j].attempt = job[j].attempt /\ job'[j].status # "ABSENT"
  /\ job'[j].status = "RUNNING" =>
       job[j].status = "RUNNING" /\ job'[j].token = job[j].token /\ job'[j].owner = job[j].owner
  /\ job'[j].status = "SUCCEEDED" =>
       \/ job[j].status = "SUCCEEDED" /\ job'[j].run = job[j].run
       \/ job[j].status = "RUNNING" /\ job'[j].run = job[j].token

LEMMA JobAccountKept ==
  ASSUME NEW j \in Jobs, Accounted(j), ClaimsOf(j)' = ClaimsOf(j),
         \A t \in ClaimsOf(j) : registry'[t] = registry[t],
         job'[j] = job[j] \/ SameAttempt(j)
  PROVE  Accounted(j)'
<1>1. job'[j].attempt = job[j].attempt
  BY DEF SameAttempt
<1>2. /\ \A t \in ClaimsOf(j)' : registry'[t].attempt \in 1..job'[j].attempt
      /\ \A n \in 1..job'[j].attempt : \E t \in ClaimsOf(j)' : registry'[t].attempt = n
  BY <1>1 DEF Accounted
<1>3. \A t, u \in ClaimsOf(j)' : registry'[t].attempt = registry'[u].attempt => t = u
  BY DEF Accounted
<1>4. job'[j].status = "RUNNING" =>
        /\ job'[j].token \in ClaimsOf(j)'
        /\ registry'[job'[j].token].attempt = job'[j].attempt
        /\ registry'[job'[j].token].owner = job'[j].owner
  BY <1>1 DEF Accounted, SameAttempt
<1>5. job'[j].status = "SUCCEEDED" =>
        /\ job'[j].run \in ClaimsOf(j)'
        /\ registry'[job'[j].run].attempt = job'[j].attempt
  BY <1>1 DEF Accounted, SameAttempt
<1> QED BY <1>2, <1>3, <1>4, <1>5 DEF Accounted

LEMMA AccountsKept ==
  ASSUME AccountInv, UNCHANGED registry, \A j \in Jobs : job'[j] = job[j] \/ SameAttempt(j)
  PROVE  AbsentIsEmpty' /\ AttemptsAccounted'
<1>1. AbsentIsEmpty'
  BY DEF AccountInv, AbsentIsEmpty, SameAttempt
<1>2. ASSUME NEW j \in Jobs PROVE Accounted(j)'
  <2>1. Accounted(j)
    BY DEF AccountInv, AttemptsAccounted, Accounted
  <2> QED BY <2>1, JobAccountKept DEF ClaimsOf
<1> QED BY <1>1, <1>2 DEF AttemptsAccounted, Accounted

LEMMA ReapKeeps ==
  ASSUME TypeOK, NEW now \in Int, NEW R \in SUBSET Jobs,
         \A i \in R : job[i].status = "RUNNING", job' = Reap(R, now)
  PROVE  \A j \in Jobs : job'[j] = job[j] \/ SameAttempt(j)
  BY DEF Reap, ExpiredRow, ReleasedRow, SameAttempt, TypeOK

LEMMA ExhaustedRuns ==
  ASSUME NEW now \in Int, NEW filter \in TypeFilters, NEW R \in ReapSets(now, filter)
  PROVE  R \in SUBSET Jobs /\ \A i \in R : job[i].status = "RUNNING"
  BY DEF ReapSets, Exhausted, LeaseOver

(* A fresh token adds the next attempt to one job and none to the others. *)
LEMMA ClaimAccounts ==
  ASSUME AccountInv, NEW w \in Workers, NEW t \in Tokens, ClaimDueJob(w, t)
  PROVE  AbsentIsEmpty' /\ AttemptsAccounted'
<1> USE ClockTypes
<1>0. TypeOK
  BY DEF AccountInv
<1>1. PICK now \in CallerTimes, d \in LeaseDurations, filter \in TypeFilters,
           j \in Jobs, R \in SUBSET Jobs : TakeHead(w, t, filter, j, R, now, now + d)
  BY DEF ClaimDueJob, Due, Exhausted
<1>2. now \in Int /\ registry[t] = Unregistered
  BY <1>0 DEF ClaimDueJob, FreshToken
<1>3. /\ job'[j] = ClaimedRow(job[j], w, t, now, now + d)
      /\ \A i \in Jobs \ {j} : job'[i] = Reap(R, now)[i]
  BY <1>0, <1>1 DEF TakeHead, TypeOK, Reap
<1>4. /\ registry'[t] = ClaimRecord(j, w, now, now + d)
      /\ \A u \in Tokens \ {t} : registry'[u] = registry[u]
  BY <1>0, <1>1 DEF TakeHead, TypeOK
<1>5. job[j].attempt \in Nat /\ job[j].attempt + 1 \in Nat \ {0}
  BY <1>0 DEF TypeOK, Row
<1>6. \A i \in Jobs : registry[t].job # i
  BY <1>2 DEF Unregistered, NoJob
<1>7. \A i \in Jobs \ {j} : ClaimsOf(i)' = ClaimsOf(i)
  BY <1>4, <1>6 DEF ClaimsOf, ClaimRecord
<1>8. ClaimsOf(j)' = ClaimsOf(j) \cup {t} /\ t \notin ClaimsOf(j)
  BY <1>4, <1>6 DEF ClaimsOf, ClaimRecord
<1>9. \A i \in R : job[i].status = "RUNNING"
  BY <1>1, <1>2, ExhaustedRuns DEF TakeHead
<1>10. ASSUME NEW i \in Jobs \ {j}
       PROVE  Accounted(i)' /\ (job'[i].status = "ABSENT" => job'[i].attempt = 0)
  <2>1. Accounted(i) /\ (job[i].status = "ABSENT" => job[i].attempt = 0)
    BY DEF AccountInv, AttemptsAccounted, Accounted, AbsentIsEmpty
  <2>2. \A u \in ClaimsOf(i) : registry'[u] = registry[u]
    BY <1>4, <1>6 DEF ClaimsOf
  <2>3. CASE i \in R
    <3>1. job'[i] = ExpiredRow(job[i], now)
      BY <1>3, <2>3 DEF Reap
    <3>2. job'[i].status = "FAILED" /\ job'[i].attempt = job[i].attempt
      BY <3>1 DEF ExpiredRow, ReleasedRow
    <3> QED BY <1>7, <2>1, <2>2, <3>1, <3>2, JobAccountKept DEF SameAttempt
  <2>4. CASE i \notin R
    <3>1. job'[i] = job[i]
      BY <1>3, <2>4 DEF Reap
    <3> QED BY <1>7, <2>1, <2>2, <3>1, JobAccountKept
  <2> QED BY <2>3, <2>4
<1>11. Accounted(j)'
  <2>1. /\ job'[j].attempt = job[j].attempt + 1 /\ job'[j].status = "RUNNING"
        /\ job'[j].token = t /\ job'[j].owner = w
    BY <1>3 DEF ClaimedRow
  <2>2. registry'[t].attempt = job[j].attempt + 1 /\ registry'[t].owner = w
    BY <1>4 DEF ClaimRecord
  <2>3. \A u \in ClaimsOf(j) : registry'[u] = registry[u] /\ registry[u].attempt \in 1..job[j].attempt
    BY <1>4, <1>6 DEF ClaimsOf, AccountInv, AttemptsAccounted
  <2>4. \A u \in ClaimsOf(j)' : registry'[u].attempt \in 1..job'[j].attempt
    BY <1>5, <1>8, <2>1, <2>2, <2>3
  <2>5. \A u, v \in ClaimsOf(j)' : registry'[u].attempt = registry'[v].attempt => u = v
    <3>1. \A u, v \in ClaimsOf(j) : registry[u].attempt = registry[v].attempt => u = v
      BY DEF AccountInv, AttemptsAccounted
    <3> QED BY <1>5, <1>8, <2>2, <2>3, <3>1
  <2>6. \A n \in 1..job'[j].attempt : \E u \in ClaimsOf(j)' : registry'[u].attempt = n
    <3>1. \A n \in 1..job[j].attempt : \E u \in ClaimsOf(j) : registry[u].attempt = n
      BY DEF AccountInv, AttemptsAccounted
    <3> QED BY <1>5, <1>8, <2>1, <2>2, <2>3, <3>1
  <2> QED BY <1>8, <2>1, <2>2, <2>4, <2>5, <2>6 DEF Accounted
<1>12. AbsentIsEmpty'
  BY <1>3, <1>10 DEF AbsentIsEmpty, ClaimedRow
<1> QED BY <1>10, <1>11, <1>12 DEF AttemptsAccounted, Accounted

LEMMA AccountStep ==
  AccountInv /\ [Next]_vars => AbsentIsEmpty' /\ AttemptsAccounted'
<1> SUFFICES ASSUME AccountInv, [Next]_vars PROVE AbsentIsEmpty' /\ AttemptsAccounted'
  OBVIOUS
<1> DEFINE Small == UNCHANGED registry /\ \A j \in Jobs : job'[j] = job[j] \/ SameAttempt(j)
<1> USE ClockTypes
<1>0. TypeOK
  BY DEF AccountInv
<1>1. ASSUME NEW j \in Jobs, CreateJob(j) PROVE Small
  BY <1>0, <1>1 DEF AccountInv, AbsentIsEmpty, CreateJob, NewRow, SameAttempt, TypeOK
<1>2. ASSUME NEW j \in Jobs, ExpireExhaustedJob(j) PROVE Small
  <2>1. PICK now \in NearClock(clock) : job' = [job EXCEPT ![j] = ExpiredRow(@, now)]
    BY <1>2 DEF ExpireExhaustedJob
  <2>2. job'[j] = ExpiredRow(job[j], now) /\ \A k \in Jobs \ {j} : job'[k] = job[k]
    BY <1>0, <2>1 DEF TypeOK
  <2>3. SameAttempt(j)
    BY <2>2 DEF SameAttempt, ExpiredRow, ReleasedRow
  <2> QED BY <1>2, <2>2, <2>3 DEF ExpireExhaustedJob
<1>3. ASSUME ReapOnly PROVE Small
  <2>1. PICK now \in CallerTimes, filter \in TypeFilters :
          \E R \in ReapSets(now, filter) : job' = Reap(R, now)
    BY <1>3 DEF ReapOnly
  <2>2. PICK R \in ReapSets(now, filter) : job' = Reap(R, now)
    BY <2>1
  <2>3. now \in Int
    BY <1>0
  <2>4. R \in SUBSET Jobs /\ \A i \in R : job[i].status = "RUNNING"
    BY <2>3, ExhaustedRuns
  <2> QED BY <1>0, <1>3, <2>2, <2>3, <2>4, ReapKeeps DEF ReapOnly
<1>4. ASSUME NEW w \in Workers, Heartbeat(w) PROVE Small
  <2>1. held[w].job \in Jobs /\ job[held[w].job].status = "RUNNING"
    BY <1>0, <1>4, HolderTypes DEF Heartbeat, Lease, LeaseMatches
  <2>2. PICK now \in NearClock(clock), d \in LeaseDurations :
          job' = [job EXCEPT ![held[w].job] = ExtendedRow(@, now, now + d)]
    BY <1>4 DEF Heartbeat
  <2>3. /\ job'[held[w].job] = ExtendedRow(job[held[w].job], now, now + d)
        /\ \A k \in Jobs \ {held[w].job} : job'[k] = job[k]
    BY <1>0, <2>1, <2>2 DEF TypeOK
  <2>4. SameAttempt(held[w].job)
    BY <2>1, <2>3 DEF SameAttempt, ExtendedRow
  <2> QED BY <1>4, <2>3, <2>4 DEF Heartbeat
<1>5. ASSUME NEW w \in Workers, Complete(w) PROVE Small
  <2>1. /\ held[w].job \in Jobs /\ job[held[w].job].status = "RUNNING"
        /\ job[held[w].job].token = held[w].token
    BY <1>0, <1>5, HolderTypes DEF Complete, Lease, LeaseMatches
  <2>2. PICK now \in NearClock(clock) :
          job' = [job EXCEPT ![held[w].job] =
                    ReleasedRow(@, "SUCCEEDED", NoTime, "none", held[w].token, now)]
    BY <1>5 DEF Complete
  <2>3. /\ job'[held[w].job] =
             ReleasedRow(job[held[w].job], "SUCCEEDED", NoTime, "none", held[w].token, now)
        /\ \A k \in Jobs \ {held[w].job} : job'[k] = job[k]
    BY <1>0, <2>1, <2>2 DEF TypeOK
  <2>4. SameAttempt(held[w].job)
    BY <2>1, <2>3 DEF SameAttempt, ReleasedRow
  <2> QED BY <1>5, <2>3, <2>4 DEF Complete
<1>6. ASSUME NEW w \in Workers, Fail(w) PROVE Small
  <2>1. held[w].job \in Jobs
    BY <1>0, <1>6, HolderTypes DEF Fail, Lease
  <2>2. PICK now \in NearClock(clock), retryable \in BOOLEAN, delay \in RetryDelays :
          job' = [job EXCEPT ![held[w].job] =
                    IF retryable /\ AttemptsLeft(held[w].job)
                    THEN ReleasedRow(@, "PENDING", now + delay, "reported", NoToken, now)
                    ELSE ReleasedRow(@, "FAILED", NoTime, "reported", NoToken, now)]
    BY <1>6 DEF Fail
  <2>3. /\ job'[held[w].job] \in
             {ReleasedRow(job[held[w].job], "PENDING", now + delay, "reported", NoToken, now),
              ReleasedRow(job[held[w].job], "FAILED", NoTime, "reported", NoToken, now)}
        /\ \A k \in Jobs \ {held[w].job} : job'[k] = job[k]
    BY <1>0, <2>1, <2>2 DEF TypeOK
  <2>4. SameAttempt(held[w].job)
    BY <2>3 DEF SameAttempt, ReleasedRow
  <2> QED BY <1>6, <2>3, <2>4 DEF Fail
<1>7. ASSUME UNCHANGED <<job, registry>> PROVE Small
  BY <1>7
<1>8. Small \/ \E w \in Workers, t \in Tokens : ClaimDueJob(w, t)
  BY <1>1, <1>2, <1>3, <1>4, <1>5, <1>6, <1>7
  DEF Next, ReplayClaim, ReadBack, WorkerStops, Tick, vars
<1> QED BY <1>8, AccountsKept, ClaimAccounts

(* A job's attempts are its registered claims, one token each, and a       *)
(* success records the run of the last of them: no reclaim, replay or late *)
(* worker makes the tables of the store disagree.                          *)
THEOREM AttemptsCounted == Spec => []AttemptsAccounted
<1>1. Init => AccountInv
  BY TypeInit
  DEF Init, AccountInv, AbsentIsEmpty, AttemptsAccounted, ClaimsOf, AbsentRow, Unregistered, NoJob
<1>2. AccountInv /\ [Next]_vars => AccountInv'
  BY TypeStep, AccountStep DEF AccountInv
<1>3. AccountInv => AttemptsAccounted
  BY DEF AccountInv
<1> QED BY <1>1, <1>2, <1>3, PTL DEF Spec

-----------------------------------------------------------------------------
(***************************************************************************)
(* More proofs about JobStore: every row it stores passes the integrity    *)
(* check of later reads, and it implements FencedJobs, for every set of    *)
(* jobs, workers and tokens and every value of the bounds.                 *)
(***************************************************************************)

(* What a later read checks of one row; that of a job which was never      *)
(* created is empty.                                                       *)
RowOK(row) ==
  IF row.status = "ABSENT" THEN row = AbsentRow
  ELSE /\ row.attempt <= row.limit
       /\ ChronologyOK(row)
       /\ row.status = "RUNNING" => RunningOK(row)
       /\ row.status = "PENDING" => PendingOK(row)
       /\ row.status \in Terminal => TerminalOK(row)
RowsOK == \A j \in Jobs : RowOK(job[j])

LEMMA NewRowOK ==
  ASSUME NEW limit \in Nat, NEW scheduled \in Int, NEW created \in Int
  PROVE  RowOK(NewRow(limit, scheduled, created))
  BY DEF RowOK, NewRow, ChronologyOK, PendingOK, ReleasedOK, Terminal

LEMMA ClaimedRowOK ==
  ASSUME NEW row \in Row, RowOK(row), row.status \in {"PENDING", "RUNNING"},
         row.attempt < row.limit, NEW w \in Workers, NEW t \in Tokens,
         NEW now \in Int, NEW until \in Int, row.updated < now, now < until
  PROVE  RowOK(ClaimedRow(row, w, t, now, until))
<1> DEFINE new == ClaimedRow(row, w, t, now, until)
<1>1. ChronologyOK(row) /\ row.run = NoToken
  BY DEF RowOK, RunningOK, PendingOK, Terminal
<1>2. ChronologyOK(new)
  BY <1>1 DEF ChronologyOK, ClaimedRow, Row
<1>3. RunningOK(new)
  BY <1>1 DEF RunningOK, ClaimedRow, Row
<1> QED BY <1>2, <1>3 DEF RowOK, ClaimedRow, Row, Terminal

LEMMA ExtendedRowOK ==
  ASSUME NEW row \in Row, RowOK(row), row.status = "RUNNING",
         NEW now \in Int, NEW until \in Int, row.updated < now, now < until
  PROVE  RowOK(ExtendedRow(row, now, until))
<1> DEFINE new == ExtendedRow(row, now, until)
<1>1. ChronologyOK(row) /\ RunningOK(row) /\ row.attempt <= row.limit
  BY DEF RowOK
<1>2. ChronologyOK(new)
  BY <1>1 DEF ChronologyOK, ExtendedRow, Row
<1>3. RunningOK(new)
  BY <1>1 DEF RunningOK, ExtendedRow, Row
<1> QED BY <1>1, <1>2, <1>3 DEF RowOK, ExtendedRow, Row, Terminal

LEMMA ReleasedRowOK ==
  ASSUME NEW row \in Row, RowOK(row), row.status = "RUNNING",
         NEW now \in Int, row.updated < now
  PROVE  /\ \A t \in Tokens : RowOK(ReleasedRow(row, "SUCCEEDED", NoTime, "none", t, now))
         /\ \A error \in {"reported", "lease_expired"} :
              RowOK(ReleasedRow(row, "FAILED", NoTime, error, NoToken, now))
         /\ \A next \in Int : now < next /\ row.attempt < row.limit =>
              RowOK(ReleasedRow(row, "PENDING", next, "reported", NoToken, now))
<1>1. ChronologyOK(row) /\ RunningOK(row) /\ row.attempt <= row.limit
  BY DEF RowOK
<1>2. ASSUME NEW status, NEW next, NEW error, NEW run
      PROVE  ChronologyOK(ReleasedRow(row, status, next, error, run, now))
  BY <1>1 DEF ChronologyOK, ReleasedRow, Row
<1>3. ASSUME NEW t \in Tokens
      PROVE  RowOK(ReleasedRow(row, "SUCCEEDED", NoTime, "none", t, now))
  BY <1>1, <1>2 DEF RowOK, RunningOK, TerminalOK, ReleasedOK, ReleasedRow, Terminal
<1>4. ASSUME NEW error \in {"reported", "lease_expired"}
      PROVE  RowOK(ReleasedRow(row, "FAILED", NoTime, error, NoToken, now))
  BY <1>1, <1>2 DEF RowOK, TerminalOK, ReleasedOK, ReleasedRow, Terminal
<1>5. ASSUME NEW next \in Int, now < next, row.attempt < row.limit
      PROVE  RowOK(ReleasedRow(row, "PENDING", next, "reported", NoToken, now))
  BY <1>1, <1>2, <1>5 DEF RowOK, RunningOK, PendingOK, ReleasedOK, ReleasedRow, Terminal, Row
<1> QED BY <1>3, <1>4, <1>5

(* A lease that is over was written before the time it is over at. *)
LEMMA OverWasWritten ==
  ASSUME TypeOK, RowsOK, NEW j \in Jobs, NEW now \in Int, LeaseOver(j, now)
  PROVE  job[j] \in Row /\ RowOK(job[j]) /\ job[j].status = "RUNNING" /\ job[j].updated < now
<1>1. job[j] \in Row /\ RowOK(job[j]) /\ job[j].status = "RUNNING" /\ job[j].until <= now
  BY DEF TypeOK, RowsOK, LeaseOver
<1>2. job[j].updated < job[j].until /\ job[j].until \in Int /\ job[j].updated \in Int
  BY <1>1 DEF RowOK, RunningOK, Row
<1> QED BY <1>1, <1>2

LEMMA ExpiredRowOK ==
  ASSUME TypeOK, RowsOK, NEW j \in Jobs, NEW now \in Int, LeaseOver(j, now)
  PROVE  RowOK(ExpiredRow(job[j], now))
  BY OverWasWritten, ReleasedRowOK DEF ExpiredRow

LEMMA ReapOK ==
  ASSUME TypeOK, RowsOK, NEW now \in Int, NEW filter \in TypeFilters,
         NEW R \in ReapSets(now, filter)
  PROVE  \A j \in Jobs : RowOK(Reap(R, now)[j])
<1>1. \A j \in R : LeaseOver(j, now)
  BY DEF ReapSets, Exhausted
<1> QED BY <1>1, ExpiredRowOK DEF Reap, RowsOK

LEMMA RowsStep == TypeOK /\ RowsOK /\ [Next]_vars => RowsOK'
<1> SUFFICES ASSUME TypeOK, RowsOK, [Next]_vars PROVE RowsOK'
  OBVIOUS
<1> USE ClockTypes
<1>1. ASSUME NEW j \in Jobs, CreateJob(j) PROVE RowsOK'
  <2>1. PICK limit \in AttemptLimits, scheduled \in Schedules, created \in CallerTimes :
          job' = [job EXCEPT ![j] = NewRow(limit, scheduled, created)]
    BY <1>1 DEF CreateJob
  <2>2. RowOK(NewRow(limit, scheduled, created))
    BY NewRowOK
  <2> QED BY <2>1, <2>2 DEF TypeOK, RowsOK
<1>2. ASSUME NEW j \in Jobs, ExpireExhaustedJob(j) PROVE RowsOK'
  <2>1. PICK now \in NearClock(clock) :
          j \in Exhausted(now, AnyType) /\ job' = [job EXCEPT ![j] = ExpiredRow(@, now)]
    BY <1>2 DEF ExpireExhaustedJob
  <2>2. RowOK(ExpiredRow(job[j], now))
    BY <2>1, ExpiredRowOK DEF Exhausted
  <2> QED BY <2>1, <2>2 DEF TypeOK, RowsOK
<1>3. ASSUME NEW w \in Workers, NEW t \in Tokens, ClaimDueJob(w, t) PROVE RowsOK'
  <2>1. PICK now \in CallerTimes, d \in LeaseDurations, filter \in TypeFilters,
             j \in Jobs, R \in SUBSET Jobs : TakeHead(w, t, filter, j, R, now, now + d)
    BY <1>3 DEF ClaimDueJob, Due, Exhausted
  <2>2. now \in Int /\ now + d \in Int /\ now < now + d
    <3>1. now \in Int
      BY ClockTypes
    <3>2. d \in Nat /\ d >= 1
      BY ClockTypes
    <3> QED BY <3>1, <3>2
  <2>3. /\ AttemptsLeft(j) /\ WrittenBefore(j, now)
        /\ job[j].status \in {"PENDING", "RUNNING"}
        /\ R \in ReapSets(now, filter)
        /\ job' = [Reap(R, now) EXCEPT ![j] = ClaimedRow(job[j], w, t, now, now + d)]
    BY <2>1 DEF TakeHead, Heads, Due, LeaseOver
  <2>4. RowOK(ClaimedRow(job[j], w, t, now, now + d))
    BY <2>2, <2>3, ClaimedRowOK DEF TypeOK, RowsOK, AttemptsLeft, WrittenBefore
  <2>5. \A i \in Jobs : RowOK(Reap(R, now)[i])
    BY <2>2, <2>3, ReapOK
  <2> QED BY <2>3, <2>4, <2>5 DEF RowsOK, Reap
<1>4. ASSUME NEW w \in Workers, Heartbeat(w) PROVE RowsOK'
  <2> DEFINE j == held[w].job
  <2>1. j \in Jobs
    BY <1>4, HolderTypes DEF Heartbeat, Lease
  <2>2. PICK now \in NearClock(clock), d \in LeaseDurations :
          WrittenBefore(j, now) /\ job' = [job EXCEPT ![j] = ExtendedRow(@, now, now + d)]
    BY <1>4 DEF Heartbeat
  <2>3. now \in Int /\ now + d \in Int /\ now < now + d
    OBVIOUS
  <2>4. job[j].status = "RUNNING"
    BY <1>4 DEF Heartbeat, LeaseMatches
  <2>5. RowOK(ExtendedRow(job[j], now, now + d))
    BY <2>1, <2>2, <2>3, <2>4, ExtendedRowOK DEF TypeOK, RowsOK, WrittenBefore
  <2> QED BY <2>1, <2>2, <2>5 DEF TypeOK, RowsOK
<1>5. ASSUME NEW w \in Workers, Complete(w) PROVE RowsOK'
  <2> DEFINE j == held[w].job
  <2>1. j \in Jobs /\ held[w].token \in Tokens
    BY <1>5, HolderTypes DEF Complete, Lease
  <2>2. PICK now \in NearClock(clock) :
          /\ WrittenBefore(j, now)
          /\ job' = [job EXCEPT ![j] =
                       ReleasedRow(@, "SUCCEEDED", NoTime, "none", held[w].token, now)]
    BY <1>5 DEF Complete
  <2>3. job[j].status = "RUNNING"
    BY <1>5 DEF Complete, LeaseMatches
  <2>4. RowOK(ReleasedRow(job[j], "SUCCEEDED", NoTime, "none", held[w].token, now))
    BY <2>1, <2>2, <2>3, ReleasedRowOK DEF TypeOK, RowsOK, WrittenBefore
  <2> QED BY <2>1, <2>2, <2>4 DEF TypeOK, RowsOK
<1>6. ASSUME NEW w \in Workers, Fail(w) PROVE RowsOK'
  <2> DEFINE j == held[w].job
  <2>1. j \in Jobs
    BY <1>6, HolderTypes DEF Fail, Lease
  <2>2. PICK now \in NearClock(clock), retryable \in BOOLEAN, delay \in RetryDelays :
          /\ WrittenBefore(j, now)
          /\ job' = [job EXCEPT ![j] =
                    IF retryable /\ AttemptsLeft(j)
                    THEN ReleasedRow(@, "PENDING", now + delay, "reported", NoToken, now)
                    ELSE ReleasedRow(@, "FAILED", NoTime, "reported", NoToken, now)]
    BY <1>6 DEF Fail
  <2>3. job[j].status = "RUNNING" /\ now + delay \in Int /\ now < now + delay
    BY <1>6 DEF Fail, LeaseMatches
  <2>4. /\ AttemptsLeft(j) =>
             RowOK(ReleasedRow(job[j], "PENDING", now + delay, "reported", NoToken, now))
        /\ RowOK(ReleasedRow(job[j], "FAILED", NoTime, "reported", NoToken, now))
    BY <2>1, <2>2, <2>3, ReleasedRowOK DEF TypeOK, RowsOK, WrittenBefore, AttemptsLeft
  <2> QED BY <2>1, <2>2, <2>4 DEF TypeOK, RowsOK
<1>7. ASSUME ReapOnly PROVE RowsOK'
  <2>1. PICK now \in CallerTimes, filter \in TypeFilters :
          \E R \in ReapSets(now, filter) : job' = Reap(R, now)
    BY <1>7 DEF ReapOnly
  <2>2. PICK R \in ReapSets(now, filter) : job' = Reap(R, now)
    BY <2>1
  <2>3. \A j \in Jobs : RowOK(Reap(R, now)[j])
    BY ReapOK
  <2> QED BY <2>2, <2>3 DEF RowsOK
<1>8. CASE UNCHANGED job
  BY <1>8 DEF RowsOK
<1> QED
  BY <1>1, <1>2, <1>3, <1>4, <1>5, <1>6, <1>7, <1>8
  DEF Next, ReplayClaim, ReadBack, WorkerStops, Tick, vars

LEMMA RowsInit == Init => RowsOK
  BY DEF Init, RowsOK, RowOK, AbsentRow

(* Every row the store writes passes the integrity check of later reads    *)
(* (_job_snapshot): none becomes unreadable, whatever the clocks of the    *)
(* callers and however calls are interleaved.                              *)
THEOREM RowsSound == Spec => []RowContract
<1>1. Spec => [](TypeOK /\ RunningHasEnd)
  BY TypeInit, TypeStep, PTL DEF Spec
<1>2. Spec => []RowsOK
  BY <1>1, RowsInit, RowsStep, PTL DEF Spec
<1>3. RowsOK => RowContract
  BY DEF RowsOK, RowOK, RowContract
<1> QED BY <1>2, <1>3, PTL

-----------------------------------------------------------------------------
(* The refinement.  A row's attempts number the tokens it was granted.     *)

StoreInv == AccountInv /\ RowsOK

LEMMA StoreInvariant == Spec => []StoreInv
<1>1. Init => StoreInv
  BY TypeInit, RowsInit
  DEF Init, StoreInv, AccountInv, AbsentIsEmpty, AttemptsAccounted, ClaimsOf, AbsentRow,
      Unregistered, NoJob
<1>2. StoreInv /\ [Next]_vars => StoreInv'
  BY TypeStep, AccountStep, RowsStep DEF StoreInv, AccountInv
<1> QED BY <1>1, <1>2, PTL DEF Spec

LEMMA GrantsType ==
  ASSUME StoreInv, NEW j \in Jobs
  PROVE  /\ GrantsOf(j) \in Seq(Tokens) /\ Len(GrantsOf(j)) = job[j].attempt
         /\ \A n \in 1..job[j].attempt :
              /\ registry[GrantsOf(j)[n]].job = j
              /\ registry[GrantsOf(j)[n]].attempt = n
<1>1. job[j].attempt \in Nat
  BY DEF StoreInv, AccountInv, TypeOK, Row
<1>2. ASSUME NEW n \in 1..job[j].attempt
      PROVE  /\ GrantsOf(j)[n] \in Tokens
             /\ registry[GrantsOf(j)[n]].job = j /\ registry[GrantsOf(j)[n]].attempt = n
  <2>1. \E t \in Tokens : registry[t].job = j /\ registry[t].attempt = n
    BY DEF StoreInv, AccountInv, AttemptsAccounted, ClaimsOf
  <2> QED BY <2>1 DEF GrantsOf
<1>3. GrantsOf(j) \in [1..job[j].attempt -> Tokens]
  BY <1>2 DEF GrantsOf
<1> QED BY <1>1, <1>2, <1>3

(* The token of a grant is the only one of its job and attempt. *)
LEMMA GrantIs ==
  ASSUME StoreInv, NEW j \in Jobs, NEW t \in Tokens, registry[t].job = j
  PROVE  registry[t].attempt \in 1..job[j].attempt /\ GrantsOf(j)[registry[t].attempt] = t
<1>1. registry[t].attempt \in 1..job[j].attempt /\ t \in ClaimsOf(j)
  BY DEF StoreInv, AccountInv, AttemptsAccounted, ClaimsOf
<1> DEFINE u == GrantsOf(j)[registry[t].attempt]
<1>2. u \in ClaimsOf(j) /\ registry[u].attempt = registry[t].attempt
  BY <1>1, GrantsType, ElementOfSeq DEF ClaimsOf
<1>3. u = t
  BY <1>1, <1>2 DEF StoreInv, AccountInv, AttemptsAccounted
<1> QED BY <1>1, <1>3

(* A job whose attempts and tokens stay keeps its grants. *)
LEMMA GrantsKept ==
  ASSUME UNCHANGED registry, NEW j \in Jobs, job'[j].attempt = job[j].attempt
  PROVE  GrantsOf(j)' = GrantsOf(j)
  BY DEF GrantsOf

(* All of this in this state and in the next. *)
Exact(j) ==
  /\ GrantsOf(j) \in Seq(Tokens) /\ Len(GrantsOf(j)) = job[j].attempt
  /\ \A n \in 1..job[j].attempt :
       registry[GrantsOf(j)[n]].job = j /\ registry[GrantsOf(j)[n]].attempt = n
  /\ \A t \in Tokens :
       registry[t].job = j =>
         registry[t].attempt \in 1..job[j].attempt /\ GrantsOf(j)[registry[t].attempt] = t
GrantsExact == \A j \in Jobs : Exact(j)

LEMMA GrantsSound == StoreInv => GrantsExact
  BY GrantsType, GrantIs DEF GrantsExact, Exact

LEMMA GrantsSoundNext == StoreInv' => GrantsExact'
  BY GrantsSound, PTL

(* What the abstract variables read. *)
Unseen == UNCHANGED registry /\ \A j \in Jobs : job'[j].attempt = job[j].attempt
SamePhase(j) == job'[j].status = job[j].status
SameLimit(j) == job'[j].limit = job[j].limit
SameResult(j) == job'[j].run = job[j].run
Phases == [j \in Jobs |-> job[j].status]
LimitsOf == [j \in Jobs |-> job[j].limit]
Results == [j \in Jobs |-> job[j].run]
AllGrants == [j \in Jobs |-> GrantsOf(j)]

LEMMA AllGrantsKept == Unseen => AllGrants' = AllGrants
  BY GrantsKept DEF Unseen, AllGrants

LEMMA StutterMaps ==
  ASSUME Unseen, \A j \in Jobs : SamePhase(j) /\ SameLimit(j) /\ SameResult(j)
  PROVE  UNCHANGED Fenced!fenced
<1>1. AllGrants' = AllGrants
  BY AllGrantsKept
<1> QED BY <1>1 DEF AllGrants, Fenced!fenced, SamePhase, SameLimit, SameResult

LEMMA NextCases ==
  /\ \A j \in Jobs, n \in AttemptLimits : Fenced!Submit(j, n) => Fenced!Next
  /\ \A j \in Jobs : Fenced!Succeed(j) \/ Fenced!GoBack(j) \/ Fenced!Fail(j) => Fenced!Next
  BY DEF Fenced!Next

LEMMA CreateMaps ==
  ASSUME StoreInv, NEW j \in Jobs, CreateJob(j)
  PROVE  Fenced!Next
<1> USE ClockTypes
<1>1. job \in [Jobs -> Row] /\ job[j] = AbsentRow
  BY DEF StoreInv, AccountInv, TypeOK, RowsOK, RowOK, CreateJob
<1>2. PICK limit \in AttemptLimits, scheduled \in Schedules, created \in CallerTimes :
        job' = [job EXCEPT ![j] = NewRow(limit, scheduled, created)]
  BY DEF CreateJob
<1>3. /\ job'[j].status = "PENDING" /\ job'[j].limit = limit /\ job'[j].run = NoToken
      /\ job'[j].attempt = 0 /\ \A i \in Jobs \ {j} : job'[i] = job[i]
  BY <1>1, <1>2 DEF NewRow
<1>4. AllGrants' = AllGrants
  BY <1>1, <1>3, AllGrantsKept DEF Unseen, AbsentRow, CreateJob
<1>5. /\ Phases' = [Phases EXCEPT ![j] = "PENDING"] /\ Phases[j] = "ABSENT"
      /\ LimitsOf' = [LimitsOf EXCEPT ![j] = limit]
      /\ Results' = Results
  <2>1. Phases[j] = "ABSENT"
    BY <1>1 DEF AbsentRow, Phases
  <2>2. Phases' = [Phases EXCEPT ![j] = "PENDING"]
    BY <1>1, <1>3 DEF Phases
  <2>3. LimitsOf' = [LimitsOf EXCEPT ![j] = limit]
    BY <1>1, <1>3 DEF LimitsOf
  <2>4. Results' = Results
    BY <1>1, <1>3 DEF AbsentRow, Results
  <2> QED BY <2>1, <2>2, <2>3, <2>4
<1>6. Fenced!Submit(j, limit)
  BY <1>4, <1>5 DEF AllGrants, Phases, LimitsOf, Results, Fenced!Submit
<1> QED BY <1>6, NextCases

(* The ends of a run: its lease is taken off and nothing else changes.     *)
LEMMA SucceedMaps ==
  ASSUME StoreInv, NEW w \in Workers, Complete(w), NEW j, j = held[w].job
  PROVE  Fenced!Next
<1>1. job \in [Jobs -> Row] /\ j \in Jobs
  BY HolderTypes DEF StoreInv, AccountInv, TypeOK, Complete, Lease
<1>2. job[j].status = "RUNNING" /\ job[j].token = held[w].token
  BY DEF Complete, LeaseMatches
<1>3. PICK now \in NearClock(clock) :
        job' = [job EXCEPT ![j] =
                  ReleasedRow(@, "SUCCEEDED", NoTime, "none", held[w].token, now)]
  BY DEF Complete
<1>4. /\ job'[j].status = "SUCCEEDED" /\ job'[j].limit = job[j].limit
      /\ job'[j].run = held[w].token /\ job'[j].attempt = job[j].attempt
      /\ \A i \in Jobs \ {j} : job'[i] = job[i]
  BY <1>1, <1>3 DEF ReleasedRow
<1>5. AllGrants' = AllGrants
  BY <1>4, AllGrantsKept DEF Unseen, Complete
<1>6. job[j].token \in Tokens /\ registry[job[j].token].job = j
      /\ registry[job[j].token].attempt = job[j].attempt
  BY <1>1, <1>2 DEF StoreInv, AccountInv, AttemptsAccounted, ClaimsOf
<1>7. Len(GrantsOf(j)) = job[j].attempt /\ GrantsOf(j)[job[j].attempt] = job[j].token
  <2>1. Exact(j)
    BY <1>1, GrantsSound DEF GrantsExact
  <2>2. Len(GrantsOf(j)) = job[j].attempt
    BY <2>1 DEF Exact
  <2>3. \A t \in Tokens : registry[t].job = j => GrantsOf(j)[registry[t].attempt] = t
    BY <2>1 DEF Exact
  <2>4. GrantsOf(j)[job[j].attempt] = job[j].token
    BY <1>6, <2>3
  <2> QED BY <2>2, <2>4
<1>8. AllGrants[j][Len(AllGrants[j])] = held[w].token
  BY <1>1, <1>2, <1>7 DEF AllGrants
<1>9. Fenced!Succeed(j)
  BY <1>1, <1>2, <1>4, <1>5, <1>8 DEF AllGrants, Fenced!Succeed, Fenced!Last
<1> QED BY <1>1, <1>9, NextCases

LEMMA FailMaps ==
  ASSUME StoreInv, NEW w \in Workers, Fail(w), NEW j, j = held[w].job
  PROVE  Fenced!Next
<1>1. job \in [Jobs -> Row] /\ j \in Jobs
  BY HolderTypes DEF StoreInv, AccountInv, TypeOK, Fail, Lease
<1>2. job[j].status = "RUNNING" /\ job[j].run = NoToken
  BY <1>1 DEF Fail, LeaseMatches, StoreInv, RowsOK, RowOK, RunningOK
<1>3. PICK now \in NearClock(clock), retryable \in BOOLEAN, delay \in RetryDelays :
        job' = [job EXCEPT ![j] =
                  IF retryable /\ AttemptsLeft(j)
                  THEN ReleasedRow(@, "PENDING", now + delay, "reported", NoToken, now)
                  ELSE ReleasedRow(@, "FAILED", NoTime, "reported", NoToken, now)]
  BY DEF Fail
<1>4. /\ job'[j].status = "FAILED" \/ (job'[j].status = "PENDING" /\ AttemptsLeft(j))
      /\ job'[j].limit = job[j].limit
      /\ job'[j].run = NoToken /\ job'[j].attempt = job[j].attempt
      /\ \A i \in Jobs \ {j} : job'[i] = job[i]
  BY <1>1, <1>3 DEF ReleasedRow
<1>5. AllGrants' = AllGrants
  BY <1>4, AllGrantsKept DEF Unseen, Fail
<1>6. Len(AllGrants[j]) = job[j].attempt
  BY <1>1, GrantsSound DEF GrantsExact, Exact, AllGrants
<1>7. CASE job'[j].status = "FAILED"
  <2>1. Phases' = [Phases EXCEPT ![j] = "FAILED"] /\ Phases[j] = "RUNNING"
    BY <1>1, <1>2, <1>4, <1>7 DEF Phases
  <2>2. LimitsOf' = LimitsOf
    BY <1>4 DEF LimitsOf
  <2>3. Results' = Results
    BY <1>2, <1>4 DEF Results
  <2>4. Fenced!Fail(j)
    BY <1>5, <2>1, <2>2, <2>3 DEF AllGrants, Phases, LimitsOf, Results, Fenced!Fail
  <2> QED BY <1>1, <2>4, NextCases
<1>8. CASE job'[j].status = "PENDING" /\ AttemptsLeft(j)
  <2>1. Fenced!GoBack(j)
    BY <1>1, <1>2, <1>4, <1>5, <1>6, <1>8 DEF AllGrants, Fenced!GoBack, AttemptsLeft
  <2> QED BY <1>1, <2>1, NextCases
<1> QED BY <1>4, <1>7, <1>8

(* Jobs that are given up: RUNNING, and out of attempts.                   *)
LEMMA ExhaustedMaps ==
  ASSUME StoreInv, NEW now \in Int, NEW filter \in TypeFilters,
         NEW R \in SUBSET Exhausted(now, filter)
  PROVE  /\ R \in SUBSET Fenced!GivenUp
         /\ \A i \in R : job[i].status = "RUNNING" /\ job[i].run = NoToken
<1> SUFFICES ASSUME NEW i \in R
             PROVE  i \in Fenced!GivenUp /\ job[i].status = "RUNNING" /\ job[i].run = NoToken
  OBVIOUS
<1>1. i \in Jobs /\ job[i].status = "RUNNING" /\ ~(job[i].attempt < job[i].limit)
  BY DEF Exhausted, LeaseOver, AttemptsLeft
<1>2. /\ job[i].run = NoToken /\ job[i].attempt <= job[i].limit
      /\ job[i].attempt \in Nat /\ job[i].limit \in Nat
  BY <1>1 DEF StoreInv, RowsOK, RowOK, RunningOK, AccountInv, TypeOK, Row
<1>3. job[i].attempt = job[i].limit
  BY <1>1, <1>2
<1>4. Len(AllGrants[i]) = job[i].attempt
  BY <1>1, GrantsSound DEF GrantsExact, Exact, AllGrants
<1>5. Phases[i] = "RUNNING" /\ Len(AllGrants[i]) = LimitsOf[i]
  BY <1>1, <1>3, <1>4 DEF Phases, LimitsOf
<1>6. i \in Fenced!GivenUp
  BY <1>1, <1>5 DEF Phases, LimitsOf, AllGrants, Fenced!GivenUp
<1> QED BY <1>1, <1>2, <1>6

LEMMA GiveUpMaps ==
  ASSUME StoreInv, NEW now \in Int, NEW filter \in TypeFilters,
         NEW R \in SUBSET Exhausted(now, filter), job' = Reap(R, now), UNCHANGED registry
  PROVE  Fenced!Next
<1>1. /\ R \in SUBSET Fenced!GivenUp
      /\ \A i \in R : job[i].status = "RUNNING" /\ job[i].run = NoToken
  BY ExhaustedMaps
<1>2. \A i \in Jobs :
        /\ job'[i].status = IF i \in R THEN "FAILED" ELSE job[i].status
        /\ job'[i].limit = job[i].limit /\ job'[i].run = job[i].run
        /\ job'[i].attempt = job[i].attempt
  BY <1>1 DEF Reap, ExpiredRow, ReleasedRow
<1>3. AllGrants' = AllGrants
  BY <1>2, AllGrantsKept DEF Unseen
<1>4. Phases' = [j \in Jobs |-> IF j \in R THEN "FAILED" ELSE Phases[j]]
  BY <1>2 DEF Phases
<1>5. LimitsOf' = LimitsOf /\ Results' = Results
  BY <1>2 DEF LimitsOf, Results
<1>6. Fenced!GiveUp(R)
  BY <1>3, <1>4, <1>5
  DEF AllGrants, Phases, LimitsOf, Results, Fenced!GiveUp, Fenced!WithoutHope
<1> QED BY <1>1, <1>6 DEF Fenced!Next

LEMMA ReapMaps ==
  ASSUME StoreInv, ReapOnly
  PROVE  Fenced!Next
<1>1. PICK now \in CallerTimes, filter \in TypeFilters :
        \E R \in ReapSets(now, filter) : job' = Reap(R, now)
  BY DEF ReapOnly
<1>2. PICK R \in ReapSets(now, filter) : job' = Reap(R, now)
  BY <1>1
<1>3. now \in Int /\ R \in SUBSET Exhausted(now, filter)
  BY ClockTypes DEF ReapSets, StoreInv, AccountInv
<1> QED BY <1>2, <1>3, GiveUpMaps DEF ReapOnly

LEMMA ExpireMaps ==
  ASSUME StoreInv, NEW j \in Jobs, ExpireExhaustedJob(j)
  PROVE  Fenced!Next
<1>1. PICK now \in NearClock(clock) :
        j \in Exhausted(now, AnyType) /\ job' = [job EXCEPT ![j] = ExpiredRow(@, now)]
  BY DEF ExpireExhaustedJob
<1>2. now \in Int /\ job \in [Jobs -> Row]
  BY ClockTypes DEF StoreInv, AccountInv, TypeOK
<1>3. job' = Reap({j}, now)
  BY <1>1, <1>2 DEF Reap
<1>4. AnyType \in TypeFilters /\ {j} \in SUBSET Exhausted(now, AnyType) /\ UNCHANGED registry
  BY <1>1 DEF ExpireExhaustedJob, TypeFilters
<1> QED BY <1>2, <1>3, <1>4, GiveUpMaps

(* A claim: the fresh token is appended to the grants of its job. *)
LEMMA ClaimMaps ==
  ASSUME StoreInv, StoreInv', NEW w \in Workers, NEW t \in Tokens, ClaimDueJob(w, t)
  PROVE  Fenced!Next
<1>1. PICK now \in CallerTimes, d \in LeaseDurations, filter \in TypeFilters,
           j \in Jobs, R \in SUBSET Jobs : TakeHead(w, t, filter, j, R, now, now + d)
  BY DEF ClaimDueJob, Due, Exhausted
<1>2. now \in Int /\ job \in [Jobs -> Row] /\ registry \in [Tokens -> TokenRecord \cup {Unregistered}]
  BY ClockTypes DEF StoreInv, AccountInv, TypeOK
<1>3. registry[t] = Unregistered /\ registry[t].job \notin Jobs
  BY DEF ClaimDueJob, FreshToken, Unregistered, NoJob
<1>4. /\ R \in SUBSET Exhausted(now, filter)
      /\ job[j].attempt < job[j].limit /\ job[j].status \in {"PENDING", "RUNNING"}
  BY <1>1 DEF TakeHead, ReapSets, Heads, Due, AttemptsLeft, LeaseOver
<1>5. /\ R \in SUBSET Fenced!GivenUp
      /\ \A i \in R : job[i].status = "RUNNING" /\ job[i].run = NoToken
  BY <1>2, <1>4, ExhaustedMaps
<1>6. j \notin R
  BY <1>4 DEF Exhausted, AttemptsLeft
<1>7. /\ job'[j] = ClaimedRow(job[j], w, t, now, now + d)
      /\ \A i \in Jobs \ {j} : job'[i] = Reap(R, now)[i]
      /\ registry'[t] = ClaimRecord(j, w, now, now + d)
      /\ \A u \in Tokens \ {t} : registry'[u] = registry[u]
  BY <1>1, <1>2 DEF TakeHead, Reap
<1>8. /\ job'[j].status = "RUNNING" /\ job'[j].limit = job[j].limit
      /\ job'[j].run = job[j].run /\ job'[j].attempt = job[j].attempt + 1
  BY <1>7 DEF ClaimedRow
<1>9. \A i \in Jobs \ {j} :
        /\ job'[i].status = IF i \in R THEN "FAILED" ELSE job[i].status
        /\ job'[i].limit = job[i].limit /\ job'[i].run = job[i].run
        /\ job'[i].attempt = job[i].attempt
  <2> SUFFICES ASSUME NEW i \in Jobs \ {j}
               PROVE  /\ job'[i].status = IF i \in R THEN "FAILED" ELSE job[i].status
                      /\ job'[i].limit = job[i].limit /\ job'[i].run = job[i].run
                      /\ job'[i].attempt = job[i].attempt
    OBVIOUS
  <2>1. CASE i \in R
    <3>1. job'[i] = ExpiredRow(job[i], now)
      BY <1>7, <2>1 DEF Reap
    <3>2. /\ job'[i].status = "FAILED" /\ job'[i].run = NoToken
          /\ job'[i].limit = job[i].limit /\ job'[i].attempt = job[i].attempt
      BY <3>1 DEF ExpiredRow, ReleasedRow
    <3> QED BY <1>5, <2>1, <3>2
  <2>2. CASE i \notin R
    BY <1>7, <2>2 DEF Reap
  <2> QED BY <2>1, <2>2
<1>10. ASSUME NEW i \in Jobs PROVE Exact(i) /\ Exact(i)'
  BY GrantsSound, GrantsSoundNext DEF GrantsExact
<1>11. ASSUME NEW i \in Jobs, NEW n \in 1..job[i].attempt
       PROVE  n \in 1..job'[i].attempt /\ GrantsOf(i)'[n] = GrantsOf(i)[n]
  <2>1. /\ GrantsOf(i)[n] \in Tokens /\ registry[GrantsOf(i)[n]].job = i
        /\ registry[GrantsOf(i)[n]].attempt = n
    <3>1. GrantsOf(i) \in Seq(Tokens) /\ Len(GrantsOf(i)) = job[i].attempt
      BY <1>10 DEF Exact
    <3>2. GrantsOf(i)[n] \in Tokens
      BY <3>1, ElementOfSeq
    <3>3. registry[GrantsOf(i)[n]].job = i /\ registry[GrantsOf(i)[n]].attempt = n
      BY <1>10 DEF Exact
    <3> QED BY <3>2, <3>3
  <2>2. ASSUME NEW u \in Tokens, u = GrantsOf(i)[n]
        PROVE  n \in 1..job'[i].attempt /\ GrantsOf(i)'[n] = u
    <3>1. registry'[u] = registry[u]
      BY <1>3, <1>7, <2>1, <2>2
    <3>2. registry'[u].job = i /\ registry'[u].attempt = n
      BY <2>1, <2>2, <3>1
    <3> QED BY <1>10, <3>2 DEF Exact
  <2> QED BY <2>1, <2>2
<1>12. ASSUME NEW i \in Jobs \ {j} PROVE GrantsOf(i)' = GrantsOf(i)
  <2>1. GrantsOf(i)' \in Seq(Tokens) /\ Len(GrantsOf(i)') = job[i].attempt
    BY <1>9, <1>10 DEF Exact
  <2>2. GrantsOf(i) \in Seq(Tokens) /\ Len(GrantsOf(i)) = job[i].attempt
    BY <1>10 DEF Exact
  <2> QED BY <1>11, <2>1, <2>2, SeqEqual
<1>13. GrantsOf(j)' = Append(GrantsOf(j), t)
  <2>1. GrantsOf(j)' \in Seq(Tokens) /\ Len(GrantsOf(j)') = job[j].attempt + 1
    BY <1>8, <1>10 DEF Exact
  <2>2. GrantsOf(j) \in Seq(Tokens) /\ Len(GrantsOf(j)) = job[j].attempt
    BY <1>10 DEF Exact
  <2>3. registry'[t].job = j /\ registry'[t].attempt = job[j].attempt + 1
    BY <1>7 DEF ClaimRecord
  <2>4. GrantsOf(j)'[job[j].attempt + 1] = t
    <3>1. Exact(j)'
      BY <1>10
    <3>2. \A u \in Tokens : registry'[u].job = j => GrantsOf(j)'[registry'[u].attempt] = u
      BY <3>1 DEF Exact
    <3> QED BY <2>3, <3>2
  <2>5. /\ Append(GrantsOf(j), t) \in Seq(Tokens)
        /\ Len(Append(GrantsOf(j), t)) = job[j].attempt + 1
        /\ Append(GrantsOf(j), t)[job[j].attempt + 1] = t
        /\ \A n \in 1..job[j].attempt : Append(GrantsOf(j), t)[n] = GrantsOf(j)[n]
    <3> DEFINE g == GrantsOf(j)
    <3>1. /\ Append(g, t) \in Seq(Tokens) /\ Len(Append(g, t)) = Len(g) + 1
          /\ \A n \in 1..Len(g) : Append(g, t)[n] = g[n]
          /\ Append(g, t)[Len(g) + 1] = t
      <4> HIDE DEF g
      <4> QED BY <2>2, AppendProperties DEF g
    <3> QED BY <2>2, <3>1
  <2>6. \A n \in 1..job[j].attempt + 1 : GrantsOf(j)'[n] = Append(GrantsOf(j), t)[n]
    BY <1>2, <1>11, <2>4, <2>5 DEF Row
  <2> QED BY <2>1, <2>5, <2>6, SeqEqual
<1>14. AllGrants' = [AllGrants EXCEPT ![j] = Append(@, t)]
  BY <1>12, <1>13 DEF AllGrants
<1>15. t \notin Fenced!Used
  <2> SUFFICES ASSUME NEW i \in Jobs, t \in Fenced!Range(GrantsOf(i)) PROVE FALSE
    BY DEF Fenced!Used
  <2>1. PICK n \in DOMAIN GrantsOf(i) : GrantsOf(i)[n] = t
    BY DEF Fenced!Range
  <2>2. n \in 1..job[i].attempt
    BY <1>10, <2>1, LenProperties DEF Exact
  <2> QED BY <1>3, <1>10, <2>1, <2>2 DEF Exact
<1>16. /\ Phases' = [[i \in Jobs |-> IF i \in R THEN "FAILED" ELSE Phases[i]] EXCEPT ![j] = "RUNNING"]
       /\ Phases[j] \in {"PENDING", "RUNNING"}
  BY <1>4, <1>8, <1>9 DEF Phases
<1>17. LimitsOf' = LimitsOf /\ Results' = Results
  BY <1>8, <1>9 DEF LimitsOf, Results
<1>18. Len(AllGrants[j]) < LimitsOf[j]
  BY <1>4, <1>10 DEF Exact, AllGrants, LimitsOf
<1>19. Fenced!Grant(R, j, t)
  BY <1>14, <1>15, <1>16, <1>17, <1>18
  DEF AllGrants, Phases, LimitsOf, Results, Fenced!Grant, Fenced!WithoutHope
<1> QED BY <1>5, <1>6, <1>19 DEF Fenced!Next

(* What only moves a lease, a clock or what a worker knows is a stutter. *)
LEMMA HeartbeatMaps ==
  ASSUME StoreInv, NEW w \in Workers, Heartbeat(w)
  PROVE  UNCHANGED Fenced!fenced
<1>1. held[w].job \in Jobs /\ job \in [Jobs -> Row]
  BY HolderTypes DEF Heartbeat, Lease, StoreInv, AccountInv, TypeOK
<1>2. PICK now \in NearClock(clock), d \in LeaseDurations :
        job' = [job EXCEPT ![held[w].job] = ExtendedRow(@, now, now + d)]
  BY DEF Heartbeat
<1>3. \A j \in Jobs : job'[j] = job[j] \/ job'[j] = ExtendedRow(job[j], now, now + d)
  BY <1>1, <1>2
<1>4. \A j \in Jobs : /\ SamePhase(j) /\ SameLimit(j) /\ SameResult(j)
                      /\ job'[j].attempt = job[j].attempt
  <2> SUFFICES ASSUME NEW j \in Jobs
               PROVE  /\ SamePhase(j) /\ SameLimit(j) /\ SameResult(j)
                      /\ job'[j].attempt = job[j].attempt
    OBVIOUS
  <2>1. CASE job'[j] = job[j]
    BY <2>1 DEF SamePhase, SameLimit, SameResult
  <2>2. CASE job'[j] = ExtendedRow(job[j], now, now + d)
    <3>1. /\ job'[j].status = job[j].status /\ job'[j].limit = job[j].limit
          /\ job'[j].run = job[j].run /\ job'[j].attempt = job[j].attempt
      BY <2>2 DEF ExtendedRow
    <3> QED BY <3>1 DEF SamePhase, SameLimit, SameResult
  <2> QED BY <1>3, <2>1, <2>2
<1> QED BY <1>4, StutterMaps DEF Unseen, Heartbeat

LEMMA StepMaps == StoreInv /\ StoreInv' /\ [Next]_vars => [Fenced!Next]_(Fenced!fenced)
<1> SUFFICES ASSUME StoreInv, StoreInv', [Next]_vars
             PROVE  Fenced!Next \/ UNCHANGED Fenced!fenced
  OBVIOUS
<1>1. ASSUME NEW j \in Jobs, CreateJob(j) \/ ExpireExhaustedJob(j) PROVE Fenced!Next
  BY <1>1, CreateMaps, ExpireMaps
<1>2. ASSUME NEW w \in Workers, NEW t \in Tokens, ClaimDueJob(w, t) PROVE Fenced!Next
  BY <1>2, ClaimMaps
<1>3. ASSUME NEW w \in Workers, Complete(w) \/ Fail(w) PROVE Fenced!Next
  BY <1>3, SucceedMaps, FailMaps
<1>4. ASSUME NEW w \in Workers, Heartbeat(w) PROVE UNCHANGED Fenced!fenced
  BY <1>4, HeartbeatMaps
<1>5. CASE ReapOnly
  BY <1>5, ReapMaps
<1>6. CASE UNCHANGED <<job, registry>>
  <2>1. Unseen /\ \A j \in Jobs : SamePhase(j) /\ SameLimit(j) /\ SameResult(j)
    BY <1>6 DEF Unseen, SamePhase, SameLimit, SameResult
  <2> QED BY <2>1, StutterMaps
<1> QED
  BY <1>1, <1>2, <1>3, <1>4, <1>5, <1>6
  DEF Next, ReplayClaim, ReadBack, WorkerStops, Tick, vars

LEMMA InitMaps == Init => Fenced!Init
<1> SUFFICES ASSUME Init PROVE Fenced!Init
  OBVIOUS
<1>1. \A j \in Jobs : GrantsOf(j) = << >>
  BY DEF GrantsOf, Init, AbsentRow
<1>2. /\ Phases = [j \in Jobs |-> "ABSENT"] /\ LimitsOf = [j \in Jobs |-> 0]
      /\ AllGrants = [j \in Jobs |-> << >>] /\ Results = [j \in Jobs |-> NoToken]
  BY <1>1 DEF Init, AbsentRow, Phases, LimitsOf, AllGrants, Results
<1> QED BY <1>2 DEF Phases, LimitsOf, AllGrants, Results, Fenced!Init

(* The tables of the store, read as grants of jobs to claims, behave as    *)
(* FencedJobs says: a job is granted to one token after another, at most   *)
(* max_attempts times, its result is that of the last, and an ended job    *)
(* stays ended (job_store.py as a whole).                                  *)
THEOREM StoreImplements == Spec => ImplementsFencedJobs
<1>1. Spec => Fenced!Spec
  BY InitMaps, StepMaps, StoreInvariant, PTL DEF Spec, Fenced!Spec
<1> QED BY <1>1 DEF ImplementsFencedJobs
=============================================================================
