------------------------ MODULE ResearchBridgeProofs ------------------------
(***************************************************************************)
(* Proofs about ResearchBridge.                                            *)
(***************************************************************************)
EXTENDS ResearchBridge, FiniteSetTheorems, TLAPS

(* The job of a worker between its claim and its last word is one it owns. *)
JobsOwned ==
  \A h \in Hosts :
    /\ At(h, {"idle", "down"}) <=> Job(h) = NoRequest
    /\ Job(h) # NoRequest => row[Job(h)].owner = WorkerId(h)
(* A row's owner is a process, once; its answer is that process's.         *)
RowsSound ==
  \A r \in Requests :
    /\ row[r].status = "absent" => row[r].owner = Nobody
    /\ row[r].status = "completed" => row[r].answer = row[r].owner
(* A model starts between the claim and the model's end.                   *)
CallsCounted ==
  /\ OneModelCall
  /\ \A r \in Requests : row[r].owner = Nobody => calls[r] = 0
  /\ \A h \in Hosts : At(h, {"claimed", "leased"}) => calls[Job(h)] = 0
(* What a caller waits for has its input.                                  *)
Told(c) ==
  LET r == RequestOf[c] IN
  /\ caller[c].stage \in {"polling", "overdue"} =>
       row[r].status # "absent" /\ row[r].input = InputOf[c]
  /\ caller[c].stage = "answered" =>
       /\ row[r].status = "completed" /\ row[r].input = InputOf[c]
       /\ caller[c].answer = row[r].answer
  /\ caller[c].stage = "failed" => row[r].status = "failed"
CallersTold == \A c \in Callers : Told(c)
ReceiptsTrue ==
  \A h \in Hosts : \A r \in Requests :
    receipt[h][r] \in Ended => row[r].status = receipt[h][r] /\ row[r].owner[1] = h
(* A child is the running job's, or its worker process is gone, or its end *)
(* was not confirmed.                                                      *)
Past(h, r) ==
  \E life \in 0..MaxLives :
    /\ row[r].owner = <<h, life>>
    /\ life < worker[h].life \/ (life = worker[h].life /\ At(h, {"down"}))
ChildOK(h, r) ==
  \/ At(h, {"model"}) /\ Job(h) = r
  \/ receipt[h][r] = "open" /\ Past(h, r)
  \/ receipt[h][r] = "blocked"
  \/ r \in unrecorded[h]
ChildrenKnown ==
  \A h \in Hosts :
    /\ \A r \in Requests : receipt[h][r] = "blocked" => At(h, {"down"})
    /\ At(h, {"leased", "model"}) => receipt[h][Job(h)] = "open"
    /\ \A r \in children[h] : ChildOK(h, r)

BridgeInv ==
  /\ TypeOK /\ JobsOwned /\ RowsSound /\ CallsCounted /\ CallersTold /\ ReceiptsTrue
  /\ ChildrenKnown

-----------------------------------------------------------------------------
(* What steps do to the parts of the state *)

LEMMA ConstantFacts ==
  /\ Nobody \notin WorkerIds /\ NoRequest \notin Requests
  /\ \A c \in Callers : RequestOf[c] \in Requests /\ InputOf[c] \in Inputs
  /\ \A budget \in Budgets : budget \in Nat
  /\ LeaseTime \in Nat /\ MaxLives \in Nat
  /\ \A S \in SUBSET Requests : Cardinality(S) \in Nat
<1>1. \A S \in SUBSET Requests : IsFiniteSet(S)
  BY FS_Subset, BridgeAssumption DEF BridgeAssumption
<1>2. \A S \in SUBSET Requests : Cardinality(S) \in Nat
  BY <1>1, FS_CardinalityType
<1> QED BY <1>2, BridgeAssumption DEF BridgeAssumption, WorkerIds, Inputs

(* A worker that goes to another stage keeps its job unless it is done.    *)
LEMMA GoesFacts ==
  ASSUME worker \in [Hosts -> Worker], NEW h \in Hosts, NEW stage \in Stages, Goes(h, stage)
  PROVE  /\ worker' \in [Hosts -> Worker]
         /\ \A g \in Hosts \ {h} : worker'[g] = worker[g]
         /\ worker'[h].life = worker[h].life /\ worker'[h].stage = stage
         /\ stage \in {"idle", "down"} => worker'[h].request = NoRequest
         /\ stage \notin {"idle", "down"} =>
              /\ worker'[h].request = worker[h].request
              /\ worker'[h].completion = worker[h].completion
<1>1. CASE stage \in {"idle", "down"}
  <2>1. worker' = [worker EXCEPT ![h] = Without(stage, @.life)]
    BY <1>1 DEF Goes
  <2>2. Without(stage, worker[h].life) \in Worker
    BY DEF Without, Worker, Ended
  <2> QED BY <1>1, <2>1, <2>2 DEF Without
<1>2. CASE stage \notin {"idle", "down"}
  <2>1. worker' = [worker EXCEPT ![h] = [@ EXCEPT !.stage = stage]]
    BY <1>2 DEF Goes
  <2>2. [worker[h] EXCEPT !.stage = stage] \in Worker
    BY DEF Worker
  <2>3. worker[h] \in Worker
    OBVIOUS
  <2>4. /\ [worker[h] EXCEPT !.stage = stage].life = worker[h].life
        /\ [worker[h] EXCEPT !.stage = stage].stage = stage
        /\ [worker[h] EXCEPT !.stage = stage].request = worker[h].request
        /\ [worker[h] EXCEPT !.stage = stage].completion = worker[h].completion
    BY <2>3 DEF Worker
  <2> QED BY <1>2, <2>1, <2>2, <2>4
<1> QED BY <1>1, <1>2

(* What no step undoes of a row.                                           *)
RowStep(r) ==
  /\ row'[r] \in Row
  /\ row[r].status # "absent" => row'[r].status # "absent" /\ row'[r].input = row[r].input
  /\ row[r].status \in Ended =>
       /\ row'[r].status = row[r].status /\ row'[r].answer = row[r].answer
       /\ row'[r].owner = row[r].owner
  /\ row'[r].status = "absent" =>
       row[r].status = "absent" /\ row'[r].owner = row[r].owner
  /\ row'[r].status = "completed" /\ row[r].status # "completed" =>
       row'[r].answer = row'[r].owner
OwnerKept(r) == row'[r].owner = row[r].owner

LEMMA SubmitRows ==
  ASSUME TypeOK, RowsSound, NEW c \in Callers, Submit(c)
  PROVE  /\ row' \in [Requests -> Row]
         /\ \A r \in Requests : RowStep(r) /\ OwnerKept(r)
<1> DEFINE q == RequestOf[c]
<1>0. q \in Requests /\ row \in [Requests -> Row]
  BY ConstantFacts DEF TypeOK
<1>1. CASE row[q].status # "absent"
  <2>1. row' = row
    BY <1>1 DEF Submit
  <2> QED BY <2>1, <1>0 DEF RowStep, OwnerKept
<1>2. CASE row[q].status = "absent"
  <2>1. PICK budget \in Budgets :
          row' = [row EXCEPT ![q] = NewRow(c, clock + budget)]
    BY <1>2 DEF Submit
  <2> DEFINE n == NewRow(c, clock + budget)
             count == Cardinality(Requests \ With("absent"))
  <2>2. count \in Nat
    BY ConstantFacts
  <2>3. clock + budget \in Nat /\ InputOf[c] \in Inputs /\ count + 1 \in Nat
    BY <2>2, ConstantFacts DEF TypeOK
  <2>4. n \in Row
    BY <2>3 DEF Row, NewRow
  <2>5. n.status = "queued" /\ n.owner = Nobody
    BY DEF NewRow
  <2> HIDE DEF n
  <2>6. row'[q] = n /\ \A r \in Requests \ {q} : row'[r] = row[r]
    BY <2>1, <1>0 DEF n
  <2>7. row' \in [Requests -> Row]
    BY <2>1, <2>4, <1>0 DEF n
  <2> QED BY <1>0, <1>2, <2>4, <2>5, <2>6, <2>7 DEF RowStep, OwnerKept, RowsSound, Ended
<1> QED BY <1>1, <1>2

LEMMA ExpiredFacts ==
  ASSUME NEW r \in Requests, row[r] \in Row
  PROVE  /\ Expired(r) \in Row /\ Expired(r).owner = row[r].owner
         /\ Expired(r).input = row[r].input /\ Expired(r).answer = row[r].answer
         /\ Expired(r).status =
              IF row[r].status \in {"queued", "processing"} THEN "failed" ELSE row[r].status
  BY DEF Expired, Row, Ended

LEMMA GiveUpRows ==
  ASSUME TypeOK, RowsSound, NEW c \in Callers, GiveUp(c)
  PROVE  /\ row' \in [Requests -> Row]
         /\ \A r \in Requests : RowStep(r) /\ OwnerKept(r)
<1> DEFINE q == RequestOf[c]
<1>0. q \in Requests /\ row \in [Requests -> Row]
  BY ConstantFacts DEF TypeOK
<1>1. CASE row' = row
  BY <1>1, <1>0 DEF RowStep, OwnerKept
<1>2. CASE row' = [row EXCEPT ![q] = Expired(q)]
  <2>1. row'[q] = Expired(q) /\ \A r \in Requests \ {q} : row'[r] = row[r]
    BY <1>2, <1>0
  <2>2. row' \in [Requests -> Row]
    BY <1>2, <1>0, ExpiredFacts
  <2> QED BY <1>0, <2>1, <2>2, ExpiredFacts DEF RowStep, OwnerKept, Ended, Row
<1> QED BY <1>1, <1>2 DEF GiveUp

LEMMA LeaseEndType ==
  ASSUME TypeOK, NEW r \in Requests
  PROVE  LeaseEnd(r) \in Nat
  BY ConstantFacts DEF TypeOK, LeaseEnd, Row

(* A claim gives rows without an owner to the worker; the rest of a claim  *)
(* only fails rows.                                                        *)
LEMMA ClaimRows ==
  ASSUME TypeOK, NEW h \in Hosts, Claim(h)
  PROVE  /\ row' \in [Requests -> Row]
         /\ \A r \in Requests : RowStep(r)
         /\ \A r \in Requests :
              OwnerKept(r) \/ (row[r].owner = Nobody /\ row'[r].owner = WorkerId(h))
         /\ \/ worker' = worker
            \/ \E r \in Requests :
                 /\ row[r].owner = Nobody /\ row'[r].owner = WorkerId(h)
                 /\ worker' = [worker EXCEPT ![h].stage = "claimed", ![h].request = r]
<1> DEFINE dead == {r \in Stale : row[r].deadline <= clock}
           live == {r \in Claimable : row[r].deadline > clock}
           scanned == Oldest(Claimable, Batch)
           passed == {r \in scanned : \A q \in live : row[r].id < row[q].id}
           next == {r \in scanned \cap live : \A q \in live : row[r].id <= row[q].id}
           taken(r) == [row[r] EXCEPT !.status = "processing", !.owner = WorkerId(h),
                                      !.lease = LeaseEnd(r)]
<1>1. row' = [r \in Requests |-> IF r \in dead \cup passed THEN Expired(r)
                                 ELSE IF r \in next THEN taken(r) ELSE row[r]]
  BY DEF Claim
<1>2. \A r \in next : r \in Requests /\ row[r].status = "queued" /\ row[r].owner = Nobody
  BY DEF Claimable, With
<1>3. \A r \in next : r \notin dead \cup passed
  BY <1>2 DEF Stale, Oldest, With, Row, TypeOK
<1>4. \/ worker' = worker
      \/ \E r \in next :
           worker' = [worker EXCEPT ![h].stage = "claimed", ![h].request = r]
  BY DEF Claim
<1>5. WorkerId(h) \in WorkerIds
  BY DEF WorkerId, WorkerIds, TypeOK, Worker
<1>6. \A r \in Requests : row[r] \in Row
  BY DEF TypeOK
<1>7. ASSUME NEW r \in Requests
      PROVE  /\ taken(r) \in Row
             /\ taken(r).status = "processing" /\ taken(r).owner = WorkerId(h)
             /\ taken(r).input = row[r].input /\ taken(r).answer = row[r].answer
  <2>1. LeaseEnd(r) \in Nat
    BY LeaseEndType
  <2> QED BY <1>5, <1>6, <2>1 DEF Row
<1> HIDE DEF taken, dead, passed, next
<1>8. \A r \in Requests :
        row'[r] = IF r \in dead \cup passed THEN Expired(r)
                  ELSE IF r \in next THEN taken(r) ELSE row[r]
  BY <1>1
<1>9. ASSUME NEW r \in Requests
      PROVE  /\ RowStep(r)
             /\ OwnerKept(r) \/ (row[r].owner = Nobody /\ row'[r].owner = WorkerId(h))
  <2>1. CASE r \in dead \cup passed
    <3>1. row'[r] = Expired(r)
      BY <2>1, <1>8
    <3>2. row[r] \in Row
      BY <1>6
    <3>3. RowStep(r)
      BY <3>1, <3>2, ExpiredFacts DEF RowStep, Ended
    <3>4. OwnerKept(r)
      BY <3>1, <3>2, ExpiredFacts DEF OwnerKept
    <3> QED BY <3>3, <3>4
  <2>2. CASE r \notin dead \cup passed /\ r \in next
    <3>1. row'[r] = taken(r)
      BY <2>2, <1>8
    <3>2. RowStep(r)
      BY <3>1, <2>2, <1>2, <1>7 DEF RowStep, Ended
    <3>3. row[r].owner = Nobody /\ row'[r].owner = WorkerId(h)
      BY <3>1, <2>2, <1>2, <1>7
    <3> QED BY <3>2, <3>3
  <2>3. CASE r \notin dead \cup passed /\ r \notin next
    <3>1. row'[r] = row[r]
      BY <2>3, <1>8
    <3> QED BY <3>1, <1>6 DEF RowStep, OwnerKept
  <2> QED BY <2>1, <2>2, <2>3
<1>10. row' \in [Requests -> Row]
  <2>1. \A r \in Requests : row'[r] \in Row
    BY <1>9 DEF RowStep
  <2> QED BY <2>1, <1>1
<1>11. \A r \in next : row'[r].owner = WorkerId(h)
  BY <1>2, <1>3, <1>7, <1>8
<1> QED BY <1>2, <1>4, <1>9, <1>10, <1>11

LEMMA RenewedRows ==
  ASSUME TypeOK, NEW h \in Hosts, Job(h) \in Requests, Renewed(h)
  PROVE  /\ row' \in [Requests -> Row]
         /\ \A r \in Requests : RowStep(r) /\ OwnerKept(r)
<1> DEFINE q == Job(h)
           n == [row[q] EXCEPT !.lease = LeaseEnd(q)]
<1>1. row' = [row EXCEPT ![q] = n] /\ row[q].status = "processing"
  BY DEF Renewed, Active
<1>2. row \in [Requests -> Row] /\ row[q] \in Row
  BY DEF TypeOK
<1>3. /\ n \in Row /\ n.status = row[q].status /\ n.owner = row[q].owner
      /\ n.input = row[q].input /\ n.answer = row[q].answer
  BY <1>2, LeaseEndType DEF Row
<1> HIDE DEF n
<1>4. row'[q] = n /\ \A r \in Requests \ {q} : row'[r] = row[r]
  BY <1>1, <1>2
<1>5. row' \in [Requests -> Row]
  BY <1>1, <1>2, <1>3
<1> QED BY <1>1, <1>2, <1>3, <1>4, <1>5 DEF RowStep, OwnerKept, Ended

LEMMA CompletedRows ==
  ASSUME TypeOK, NEW h \in Hosts, Job(h) \in Requests, Accepts(h),
         row' = [row EXCEPT ![Job(h)] = Completed(h)]
  PROVE  /\ row' \in [Requests -> Row]
         /\ \A r \in Requests : RowStep(r) /\ OwnerKept(r)
         /\ row'[Job(h)].status = worker[h].completion
<1> DEFINE q == Job(h)
<1>0. row \in [Requests -> Row] /\ row[q] \in Row /\ worker[h].completion \in Ended
  BY DEF TypeOK, Worker
<1>1. CASE Repeats(h)
  <2>1. row' = row
    BY <1>0, <1>1 DEF Completed
  <2> QED BY <2>1, <1>0, <1>1 DEF RowStep, OwnerKept, Repeats
<1>2. CASE ~Repeats(h)
  <2> DEFINE n == [row[q] EXCEPT !.status = worker[h].completion, !.lease = 0,
               !.answer = IF worker[h].completion = "completed" THEN WorkerId(h) ELSE Nobody]
  <2>1. row' = [row EXCEPT ![q] = n]
    BY <1>2 DEF Completed
  <2>2. row[q].status = "processing" /\ row[q].owner = WorkerId(h)
    BY <1>2 DEF Accepts, Active, Owned
  <2>3. WorkerId(h) \in WorkerIds
    BY DEF WorkerId, WorkerIds, TypeOK, Worker
  <2>4. /\ n \in Row /\ n.status = worker[h].completion /\ n.owner = row[q].owner
        /\ n.input = row[q].input
        /\ n.status = "completed" => n.answer = n.owner
    BY <1>0, <2>2, <2>3 DEF Row, Ended
  <2> HIDE DEF n
  <2>5. row'[q] = n /\ \A r \in Requests \ {q} : row'[r] = row[r]
    BY <1>0, <2>1
  <2>6. row' \in [Requests -> Row]
    BY <1>0, <2>1, <2>4
  <2> QED BY <1>0, <2>2, <2>4, <2>5, <2>6 DEF RowStep, OwnerKept, Ended
<1> QED BY <1>1, <1>2

LEMMA JobIsRequest ==
  ASSUME TypeOK, JobsOwned, NEW h \in Hosts, ~At(h, {"idle", "down"})
  PROVE  Job(h) \in Requests /\ row[Job(h)].owner = WorkerId(h) /\ WorkerId(h) \in WorkerIds
  BY DEF TypeOK, JobsOwned, Job, At, Worker, WorkerId, WorkerIds

LEMMA RowsMove ==
  ASSUME TypeOK, JobsOwned, RowsSound, [Next]_vars
  PROVE  /\ row' \in [Requests -> Row]
         /\ \A r \in Requests : RowStep(r)
         /\ \A r \in Requests : OwnerKept(r) \/ row[r].owner = Nobody
<1>1. ASSUME row' = row
      PROVE  /\ row' \in [Requests -> Row]
             /\ \A r \in Requests : RowStep(r) /\ OwnerKept(r)
  BY <1>1 DEF TypeOK, RowStep, OwnerKept
<1>2. ASSUME NEW c \in Callers, Submit(c) \/ Watch(c)
      PROVE  /\ row' \in [Requests -> Row]
             /\ \A r \in Requests : RowStep(r) /\ OwnerKept(r)
  <2>1. CASE Submit(c)
    BY <2>1, SubmitRows
  <2>2. CASE GiveUp(c)
    BY <2>2, GiveUpRows
  <2>3. CASE Poll(c)
    BY <2>3, <1>1 DEF Poll
  <2> QED BY <1>2, <2>1, <2>2, <2>3 DEF Watch
<1>3. ASSUME NEW h \in Hosts, Claim(h)
      PROVE  /\ row' \in [Requests -> Row]
             /\ \A r \in Requests : RowStep(r)
             /\ \A r \in Requests : OwnerKept(r) \/ row[r].owner = Nobody
  BY <1>3, ClaimRows
<1>4. ASSUME NEW h \in Hosts, Begin(h) \/ Renew(h) \/ Post(h)
      PROVE  /\ row' \in [Requests -> Row]
             /\ \A r \in Requests : RowStep(r) /\ OwnerKept(r)
  <2>1. Job(h) \in Requests
    BY <1>4, JobIsRequest DEF Begin, Renew, Post, At
  <2>2. CASE Renewed(h)
    BY <2>1, <2>2, RenewedRows
  <2>3. CASE Accepts(h) /\ row' = [row EXCEPT ![Job(h)] = Completed(h)]
    BY <2>1, <2>3, CompletedRows
  <2>4. CASE row' = row
    BY <2>4, <1>1
  <2> QED BY <1>4, <2>2, <2>3, <2>4 DEF Begin, Renew, Post
<1>5. ASSUME NEW h \in Hosts,
             Drop(h) \/ Launch(h) \/ ModelEnds(h) \/ Ask(h) \/ Unconfirmed(h) \/ Die(h)
               \/ ChildEnds(h) \/ Restart(h)
      PROVE  row' = row
  BY <1>5 DEF Drop, Launch, ModelEnds, Ask, Unconfirmed, Die, ChildEnds, Restart
<1>6. CASE Tick
  BY <1>1, <1>6 DEF Tick
<1>7. CASE UNCHANGED vars
  BY <1>1, <1>7 DEF vars
<1> QED BY <1>1, <1>2, <1>3, <1>4, <1>5, <1>6, <1>7 DEF Next, Work

-----------------------------------------------------------------------------
(* The invariant *)

LEMMA InitInv == Init => BridgeInv
<1> SUFFICES ASSUME Init PROVE BridgeInv
  OBVIOUS
<1>1. AbsentRow \in Row /\ AbsentRow.status = "absent" /\ AbsentRow.owner = Nobody
  BY DEF AbsentRow, Row
<1>2. /\ Without("idle", 0) \in Worker /\ Without("idle", 0).stage = "idle"
      /\ Without("idle", 0).request = NoRequest
  BY ConstantFacts DEF Without, Worker, Stages, Ended
<1>3. TypeOK
  BY <1>1, <1>2 DEF Init, TypeOK
<1>4. JobsOwned
  BY <1>2 DEF Init, JobsOwned, At, Job
<1>5. RowsSound
  BY <1>1 DEF Init, RowsSound
<1>6. CallsCounted
  BY <1>2 DEF Init, CallsCounted, OneModelCall, At
<1>7. CallersTold
  BY DEF Init, CallersTold, Told
<1>8. ReceiptsTrue
  BY DEF Init, ReceiptsTrue, Ended
<1>9. ChildrenKnown
  BY <1>2 DEF Init, ChildrenKnown, At
<1> QED BY <1>3, <1>4, <1>5, <1>6, <1>7, <1>8, <1>9 DEF BridgeInv

LEMMA RowsSoundKept == BridgeInv /\ [Next]_vars => RowsSound'
<1> SUFFICES ASSUME BridgeInv, [Next]_vars PROVE RowsSound'
  OBVIOUS
<1>1. \A r \in Requests : RowStep(r)
  BY RowsMove DEF BridgeInv
<1> QED BY <1>1 DEF BridgeInv, RowsSound, RowStep, Ended

(* A claimed job of a worker.                                              *)
LEMMA ClaimedFacts ==
  ASSUME TypeOK, NEW h \in Hosts, NEW r \in Requests,
         worker' = [worker EXCEPT ![h].stage = "claimed", ![h].request = r]
  PROVE  /\ worker' \in [Hosts -> Worker]
         /\ \A g \in Hosts \ {h} : worker'[g] = worker[g]
         /\ worker'[h].stage = "claimed" /\ worker'[h].request = r
         /\ worker'[h].life = worker[h].life
<1>1. worker \in [Hosts -> Worker]
  BY DEF TypeOK
<1> DEFINE w == [[worker[h] EXCEPT !.stage = "claimed"] EXCEPT !.request = r]
<1>2. w \in Worker /\ w.stage = "claimed" /\ w.request = r /\ w.life = worker[h].life
  BY <1>1 DEF Worker, Stages
<1>3. worker' = [worker EXCEPT ![h] = w]
  BY <1>1
<1> HIDE DEF w
<1> QED BY <1>1, <1>2, <1>3

LEMMA EndsFacts ==
  ASSUME TypeOK, NEW h \in Hosts, NEW completion \in Ended,
         worker' = [worker EXCEPT ![h].stage = "posting", ![h].completion = completion]
  PROVE  /\ worker' \in [Hosts -> Worker]
         /\ \A g \in Hosts \ {h} : worker'[g] = worker[g]
         /\ worker'[h].stage = "posting" /\ worker'[h].request = worker[h].request
         /\ worker'[h].life = worker[h].life
<1>1. worker \in [Hosts -> Worker]
  BY DEF TypeOK
<1> DEFINE w == [[worker[h] EXCEPT !.stage = "posting"] EXCEPT !.completion = completion]
<1>2. /\ w \in Worker /\ w.stage = "posting" /\ w.request = worker[h].request
      /\ w.life = worker[h].life
  BY <1>1 DEF Worker, Stages
<1>3. worker' = [worker EXCEPT ![h] = w]
  BY <1>1
<1> HIDE DEF w
<1> QED BY <1>1, <1>2, <1>3

LEMMA RestartFacts ==
  ASSUME TypeOK, NEW h \in Hosts, Restart(h)
  PROVE  /\ worker' \in [Hosts -> Worker]
         /\ \A g \in Hosts \ {h} : worker'[g] = worker[g]
         /\ worker'[h].stage = "idle" /\ worker'[h].request = NoRequest
         /\ worker'[h].life = worker[h].life + 1
<1>1. worker \in [Hosts -> Worker]
  BY DEF TypeOK
<1> DEFINE w == Without("idle", worker[h].life + 1)
<1>2. /\ w \in Worker /\ w.stage = "idle" /\ w.request = NoRequest
      /\ w.life = worker[h].life + 1
  BY <1>1, ConstantFacts DEF Worker, Stages, Without, Ended, Restart
<1>3. worker' = [worker EXCEPT ![h] = w]
  BY <1>1 DEF Restart
<1> HIDE DEF w
<1> QED BY <1>1, <1>2, <1>3

(* The steps of a worker, by what becomes of its stage.                    *)
WorkerStep(h) ==
  /\ worker' \in [Hosts -> Worker]
  /\ \A g \in Hosts \ {h} : worker'[g] = worker[g]
  /\ \/ worker'[h] = worker[h]
     \/ /\ worker'[h].stage \in {"idle", "down"} /\ worker'[h].request = NoRequest
        /\ worker'[h].life = worker[h].life
        /\ worker[h].stage # "down"
     \/ /\ worker[h].stage = "down"
        /\ worker'[h].stage = "idle" /\ worker'[h].request = NoRequest
        /\ worker'[h].life = worker[h].life + 1
     \/ /\ worker'[h].stage \in {"leased", "model", "posting", "unsure", "again"}
        /\ worker[h].stage \notin {"idle", "down"}
        /\ worker'[h].request = worker[h].request
        /\ worker'[h].life = worker[h].life
     \/ /\ worker[h].stage = "idle" /\ worker'[h].stage = "claimed"
        /\ worker'[h].request \in Requests
        /\ row[worker'[h].request].owner = Nobody
        /\ row'[worker'[h].request].owner = WorkerId(h)
        /\ worker'[h].life = worker[h].life

LEMMA WorkerSteps ==
  ASSUME TypeOK, NEW h \in Hosts,
         Claim(h) \/ Work(h) \/ Renew(h) \/ Unconfirmed(h) \/ Die(h) \/ ChildEnds(h) \/ Restart(h)
  PROVE  WorkerStep(h)
<1>0. worker \in [Hosts -> Worker]
  BY DEF TypeOK
<1>1. ASSUME worker' = worker
      PROVE  WorkerStep(h)
  BY <1>0, <1>1 DEF WorkerStep
<1>2. ASSUME NEW stage \in {"idle", "down"}, Goes(h, stage), worker[h].stage # "down"
      PROVE  WorkerStep(h)
  BY <1>0, <1>2, GoesFacts DEF WorkerStep, Stages
<1>3. ASSUME NEW stage \in {"leased", "model", "posting", "unsure", "again"}, Goes(h, stage),
             worker[h].stage \notin {"idle", "down"}
      PROVE  WorkerStep(h)
  BY <1>0, <1>3, GoesFacts DEF WorkerStep, Stages
<1>4. CASE Claim(h)
  <2>1. worker[h].stage = "idle"
    BY <1>4 DEF Claim, At
  <2>2. ASSUME NEW r \in Requests, row[r].owner = Nobody, row'[r].owner = WorkerId(h),
               worker' = [worker EXCEPT ![h].stage = "claimed", ![h].request = r]
        PROVE  WorkerStep(h)
    <3>1. /\ worker' \in [Hosts -> Worker]
          /\ \A g \in Hosts \ {h} : worker'[g] = worker[g]
          /\ worker'[h].stage = "claimed" /\ worker'[h].request = r
          /\ worker'[h].life = worker[h].life
      BY <2>2, ClaimedFacts
    <3> QED BY <2>1, <2>2, <3>1 DEF WorkerStep
  <2>3. \/ worker' = worker
        \/ \E r \in Requests :
             /\ row[r].owner = Nobody /\ row'[r].owner = WorkerId(h)
             /\ worker' = [worker EXCEPT ![h].stage = "claimed", ![h].request = r]
    BY <1>4, ClaimRows
  <2> QED BY <1>1, <2>2, <2>3
<1>5. CASE Begin(h)
  <2>1. worker[h].stage = "claimed"
    BY <1>5 DEF Begin, At
  <2>2. Goes(h, "idle") \/ Goes(h, "leased")
    BY <1>5 DEF Begin
  <2> QED BY <1>2, <1>3, <2>1, <2>2
<1>6. CASE Drop(h)
  BY <1>2, <1>6 DEF Drop, At
<1>7. CASE Launch(h)
  BY <1>3, <1>7 DEF Launch, At
<1>8. CASE ModelEnds(h)
  <2>1. PICK completion \in Ended :
          worker' = [worker EXCEPT ![h].stage = "posting", ![h].completion = completion]
    BY <1>8 DEF ModelEnds
  <2>2. worker[h].stage \in {"leased", "model"}
    BY <1>8 DEF ModelEnds, At
  <2> QED BY <2>1, <2>2, EndsFacts DEF WorkerStep
<1>9. CASE Post(h)
  <2>1. AfterNoReply(h) \in {"unsure", "idle"}
    BY DEF AfterNoReply
  <2>2. worker[h].stage \in {"posting", "again"}
    BY <1>9 DEF Post, At
  <2>3. Goes(h, "idle") \/ Goes(h, AfterNoReply(h))
    BY <1>9 DEF Post, Confirmed, Unanswered
  <2>4. CASE Goes(h, "idle")
    BY <1>2, <2>2, <2>4
  <2>5. CASE Goes(h, "unsure")
    BY <1>3, <2>2, <2>5
  <2> QED BY <2>1, <2>3, <2>4, <2>5
<1>10. CASE Ask(h)
  BY <1>2, <1>3, <1>10 DEF Ask, Confirmed, At
<1>11. CASE Unconfirmed(h)
  <2>1. worker[h].stage = "model"
    BY <1>11 DEF Unconfirmed, At
  <2>2. CASE worker' = [worker EXCEPT ![h].stage = "posting", ![h].completion = "failed"]
    BY <2>1, <2>2, EndsFacts DEF WorkerStep, Ended
  <2>3. CASE Goes(h, "idle") \/ Goes(h, "down")
    BY <1>2, <2>1, <2>3
  <2> QED BY <1>11, <2>2, <2>3 DEF Unconfirmed
<1>12. CASE Die(h)
  BY <1>2, <1>12 DEF Die, At
<1>13. CASE Restart(h)
  <2>1. worker[h].stage = "down"
    BY <1>13 DEF Restart, At
  <2> QED BY <1>13, <2>1, RestartFacts DEF WorkerStep
<1>14. CASE Renew(h) \/ ChildEnds(h)
  BY <1>1, <1>14 DEF Renew, ChildEnds
<1> QED BY <1>4, <1>5, <1>6, <1>7, <1>8, <1>9, <1>10, <1>11, <1>12, <1>13, <1>14 DEF Work

LEMMA OthersRest ==
  ASSUME NEW c \in Callers, Submit(c) \/ Watch(c)
  PROVE  UNCHANGED <<clock, worker, receipt, children, unrecorded, calls>>
  BY DEF Submit, Watch, Poll, GiveUp

LEMMA JobsOwnedKept == BridgeInv /\ [Next]_vars => JobsOwned'
<1> SUFFICES ASSUME BridgeInv, [Next]_vars, NEW h \in Hosts
             PROVE  /\ At(h, {"idle", "down"})' <=> Job(h)' = NoRequest
                    /\ Job(h)' # NoRequest => row'[Job(h)'].owner = WorkerId(h)'
  BY DEF JobsOwned
<1>1. \A r \in Requests : OwnerKept(r) \/ row[r].owner = Nobody
  BY RowsMove DEF BridgeInv
<1>2. /\ At(h, {"idle", "down"}) <=> Job(h) = NoRequest
      /\ Job(h) # NoRequest =>
           Job(h) \in Requests /\ row[Job(h)].owner = WorkerId(h) /\ WorkerId(h) \in WorkerIds
  BY JobIsRequest DEF BridgeInv, JobsOwned
<1>3. ASSUME worker'[h].stage = worker[h].stage \/ {worker'[h].stage, worker[h].stage} \cap {"idle", "down"} = {},
             worker'[h].request = worker[h].request, worker'[h].life = worker[h].life
      PROVE  /\ At(h, {"idle", "down"})' <=> Job(h)' = NoRequest
             /\ Job(h)' # NoRequest => row'[Job(h)'].owner = WorkerId(h)'
  BY <1>1, <1>2, <1>3, ConstantFacts DEF At, Job, WorkerId, OwnerKept
<1>4. ASSUME NEW g \in Hosts, WorkerStep(g)
      PROVE  /\ At(h, {"idle", "down"})' <=> Job(h)' = NoRequest
             /\ Job(h)' # NoRequest => row'[Job(h)'].owner = WorkerId(h)'
  <2>1. CASE worker'[h] = worker[h]
    BY <1>3, <2>1
  <2>2. CASE g = h /\ worker'[h].stage \in {"idle", "down"} /\ worker'[h].request = NoRequest
    BY <2>2 DEF At, Job
  <2>3. CASE /\ worker'[h].stage \in {"leased", "model", "posting", "unsure", "again"}
             /\ worker[h].stage \notin {"idle", "down"}
             /\ worker'[h].request = worker[h].request
             /\ worker'[h].life = worker[h].life
    BY <1>3, <2>3
  <2>4. CASE /\ worker'[h].stage = "claimed" /\ worker'[h].request \in Requests
             /\ row'[worker'[h].request].owner = WorkerId(h)
             /\ worker'[h].life = worker[h].life
    BY <2>4, ConstantFacts DEF At, Job, WorkerId
  <2> QED BY <1>4, <2>1, <2>2, <2>3, <2>4 DEF WorkerStep
<1>5. ASSUME worker' = worker
      PROVE  /\ At(h, {"idle", "down"})' <=> Job(h)' = NoRequest
             /\ Job(h)' # NoRequest => row'[Job(h)'].owner = WorkerId(h)'
  BY <1>3, <1>5
<1>6. ASSUME NEW c \in Callers, Submit(c) \/ Watch(c)
      PROVE  worker' = worker
  BY <1>6, OthersRest
<1>7. CASE Tick \/ UNCHANGED vars
  BY <1>5, <1>7 DEF Tick, vars
<1> QED BY <1>4, <1>5, <1>6, <1>7, WorkerSteps DEF Next, BridgeInv

-----------------------------------------------------------------------------
(* What follows from who owns a row *)

LEMMA CallsKept == BridgeInv /\ [Next]_vars => CallsCounted'
<1> SUFFICES ASSUME BridgeInv, [Next]_vars PROVE CallsCounted'
  OBVIOUS
<1> USE DEF CallsCounted, OneModelCall
<1>1. /\ \A r \in Requests : OwnerKept(r) \/ row[r].owner = Nobody
      /\ TypeOK /\ calls \in [Requests -> Nat]
  BY RowsMove DEF BridgeInv, TypeOK
<1>2. ASSUME NEW h \in Hosts, Launch(h)
      PROVE  CallsCounted'
  <2>1. /\ Job(h) \in Requests /\ row[Job(h)].owner = WorkerId(h)
        /\ WorkerId(h) \in WorkerIds /\ calls[Job(h)] = 0
    BY <1>2, JobIsRequest DEF BridgeInv, Launch, At
  <2>2. /\ calls'[Job(h)] = 1
        /\ \A r \in Requests \ {Job(h)} : calls'[r] = calls[r]
    BY <1>1, <1>2, <2>1 DEF Launch
  <2>3. OneModelCall'
    BY <1>1, <2>2 DEF BridgeInv
  <2>4. row' = row
    BY <1>2 DEF Launch
  <2>5. \A r \in Requests : row'[r].owner = Nobody => calls'[r] = 0
    BY <2>1, <2>2, <2>4, ConstantFacts DEF BridgeInv
  <2>6. /\ worker'[h].stage = "model"
        /\ \A g \in Hosts \ {h} : worker'[g] = worker[g]
    BY <1>1, <1>2, GoesFacts DEF Launch, Stages, TypeOK
  <2>7. ASSUME NEW g \in Hosts, At(g, {"claimed", "leased"})'
        PROVE  calls'[Job(g)'] = 0
    <3>1. g # h /\ worker'[g] = worker[g] /\ At(g, {"claimed", "leased"})
      BY <2>6, <2>7 DEF At
    <3>2. /\ Job(g) \in Requests /\ row[Job(g)].owner = WorkerId(g) /\ calls[Job(g)] = 0
      BY <1>1, <3>1, JobIsRequest DEF BridgeInv, At
    <3>3. Job(g) # Job(h)
      BY <2>1, <3>1, <3>2 DEF WorkerId
    <3> QED BY <2>2, <3>1, <3>2, <3>3 DEF Job
  <2> QED BY <2>3, <2>5, <2>7
<1>3. ASSUME calls' = calls,
             \A g \in Hosts : At(g, {"claimed", "leased"})' =>
               \/ At(g, {"claimed", "leased"}) /\ Job(g)' = Job(g)
               \/ Job(g)' \in Requests /\ row[Job(g)'].owner = Nobody
      PROVE  CallsCounted'
  <2>1. OneModelCall'
    BY <1>3 DEF BridgeInv
  <2>2. \A r \in Requests : row'[r].owner = Nobody => calls'[r] = 0
    BY <1>1, <1>3 DEF BridgeInv, OwnerKept
  <2>3. \A g \in Hosts : At(g, {"claimed", "leased"})' => calls'[Job(g)'] = 0
    BY <1>3 DEF BridgeInv
  <2> QED BY <2>1, <2>2, <2>3
<1>4. ASSUME NEW h \in Hosts,
             Claim(h) \/ Renew(h) \/ Drop(h) \/ ModelEnds(h) \/ Post(h) \/ Ask(h) \/ Begin(h)
               \/ Unconfirmed(h) \/ Die(h) \/ ChildEnds(h) \/ Restart(h)
      PROVE  CallsCounted'
  <2>1. calls' = calls
    BY <1>4 DEF Claim, Renew, Drop, ModelEnds, Post, Ask, Begin, Unconfirmed, Die, ChildEnds, Restart
  <2>2. WorkerStep(h)
    BY <1>1, <1>4, WorkerSteps DEF Work
  <2>3. worker'[h].stage = "leased" => worker[h].stage \in {"claimed", "leased"}
    <3>1. CASE Begin(h)
      BY <3>1 DEF Begin, At
    <3>2. CASE Post(h)
      <4>1. Goes(h, "idle") \/ Goes(h, "unsure")
        BY <3>2 DEF Post, Confirmed, Unanswered, AfterNoReply
      <4> QED BY <1>1, <4>1, GoesFacts DEF TypeOK, Stages
    <3>3. CASE Ask(h)
      <4>1. Goes(h, "idle") \/ Goes(h, "again")
        BY <3>3 DEF Ask, Confirmed
      <4> QED BY <1>1, <4>1, GoesFacts DEF TypeOK, Stages
    <3>4. CASE Drop(h) \/ Die(h) \/ Unconfirmed(h)
      <4>1. \/ Goes(h, "idle") \/ Goes(h, "down")
            \/ worker' = [worker EXCEPT ![h].stage = "posting", ![h].completion = "failed"]
        BY <3>4 DEF Drop, Die, Unconfirmed
      <4>2. CASE worker' = [worker EXCEPT ![h].stage = "posting", ![h].completion = "failed"]
        BY <1>1, <4>2, EndsFacts DEF Ended
      <4>3. CASE Goes(h, "idle") \/ Goes(h, "down")
        BY <1>1, <4>3, GoesFacts DEF TypeOK, Stages
      <4> QED BY <4>1, <4>2, <4>3
    <3>5. CASE ModelEnds(h)
      BY <1>1, <3>5, EndsFacts DEF ModelEnds
    <3>6. CASE Renew(h) \/ ChildEnds(h)
      BY <3>6 DEF Renew, ChildEnds
    <3>7. CASE Restart(h)
      BY <1>1, <3>7, RestartFacts
    <3>8. CASE Claim(h)
      <4>1. worker[h].stage = "idle"
        BY <3>8 DEF Claim, At
      <4> QED BY <1>1, <3>8, <4>1, ClaimRows, ClaimedFacts
    <3> QED BY <1>4, <3>1, <3>2, <3>3, <3>4, <3>5, <3>6, <3>7, <3>8
  <2>4. \A g \in Hosts : At(g, {"claimed", "leased"})' =>
               \/ At(g, {"claimed", "leased"}) /\ Job(g)' = Job(g)
               \/ Job(g)' \in Requests /\ row[Job(g)'].owner = Nobody
    BY <2>2, <2>3 DEF WorkerStep, At, Job
  <2> QED BY <1>3, <2>1, <2>4
<1>5. ASSUME worker' = worker, calls' = calls
      PROVE  CallsCounted'
  BY <1>3, <1>5 DEF At, Job
<1>6. CASE Tick \/ UNCHANGED vars
  BY <1>5, <1>6 DEF Tick, vars
<1> QED BY <1>2, <1>4, <1>5, <1>6, OthersRest DEF Next, Work

LEMMA ToldStays ==
  ASSUME BridgeInv, [Next]_vars, NEW c \in Callers, caller'[c] = caller[c]
  PROVE  Told(c)'
<1>1. RowStep(RequestOf[c]) /\ Told(c)
  BY RowsMove, ConstantFacts DEF BridgeInv, CallersTold
<1> QED BY <1>1 DEF Told, RowStep, Ended

LEMMA CallersToldKept == BridgeInv /\ [Next]_vars => CallersTold'
<1> SUFFICES ASSUME BridgeInv, [Next]_vars PROVE CallersTold'
  OBVIOUS
<1>1. /\ caller \in [Callers -> [stage: {"new", "polling", "overdue", "answered", "failed",
                                        "refused"},
                                 answer: WorkerIds \cup {Nobody}]]
      /\ row \in [Requests -> Row]
  BY DEF BridgeInv, TypeOK
<1>2. ASSUME caller' = caller
      PROVE  CallersTold'
  BY <1>2, ToldStays DEF CallersTold
<1>3. ASSUME NEW c \in Callers, Submit(c) \/ Watch(c)
      PROVE  CallersTold'
  <2> DEFINE q == RequestOf[c]
  <2>0. q \in Requests /\ Told(c) /\ RowStep(q)
    BY RowsMove, ConstantFacts DEF BridgeInv, CallersTold
  <2>1. \A d \in Callers \ {c} : caller'[d] = caller[d]
    BY <1>1, <1>3 DEF Submit, Watch, Poll, GiveUp
  <2>2. Told(c)'
    <3>1. CASE Submit(c)
      <4>1. \/ /\ row[q].status = "absent"
               /\ \E deadline : row' = [row EXCEPT ![q] = NewRow(c, deadline)]
               /\ caller'[c].stage = "polling"
            \/ /\ row' = row /\ row[q].status # "absent" /\ row[q].input = InputOf[c]
               /\ caller'[c].stage = "polling"
            \/ caller'[c].stage = "refused"
        BY <1>1, <3>1 DEF Submit
      <4>2. \A deadline : NewRow(c, deadline).status = "queued" /\ NewRow(c, deadline).input = InputOf[c]
        BY DEF NewRow
      <4> QED BY <1>1, <2>0, <4>1, <4>2 DEF Told
    <3>2. CASE Poll(c)
      <4>1. /\ row' = row /\ caller[c].stage = "polling"
            /\ \/ /\ row[q].status = "completed" /\ caller'[c].stage = "answered"
                  /\ caller'[c].answer = row[q].answer
               \/ row[q].status = "failed" /\ caller'[c].stage = "failed"
               \/ caller'[c].stage = "overdue"
        BY <1>1, <3>2 DEF Poll
      <4> QED BY <2>0, <4>1 DEF Told
    <3>3. CASE GiveUp(c)
      <4>1. caller[c].stage = "overdue"
        BY <3>3 DEF GiveUp
      <4>2. CASE row[q].status = "completed"
        <5>1. /\ row' = row /\ caller'[c].stage = "answered"
              /\ caller'[c].answer = row[q].answer
          BY <1>1, <3>3, <4>2 DEF GiveUp
        <5> QED BY <2>0, <4>1, <4>2, <5>1 DEF Told
      <4>3. CASE row[q].status # "completed"
        <5>1. row' = [row EXCEPT ![q] = Expired(q)] /\ caller'[c].stage = "failed"
          BY <1>1, <3>3, <4>3 DEF GiveUp
        <5>2. row'[q] = Expired(q) /\ row[q] \in Row
          BY <1>1, <2>0, <5>1
        <5>3. row'[q].status = "failed"
          BY <2>0, <4>1, <4>3, <5>2, ExpiredFacts DEF Told, Row, Ended
        <5> QED BY <5>1, <5>3 DEF Told
      <4> QED BY <4>2, <4>3
    <3> QED BY <1>3, <3>1, <3>2, <3>3 DEF Watch
  <2> QED BY <2>1, <2>2, ToldStays DEF CallersTold
<1>4. ASSUME NEW h \in Hosts,
             Claim(h) \/ Work(h) \/ Renew(h) \/ Unconfirmed(h) \/ Die(h) \/ ChildEnds(h) \/ Restart(h)
      PROVE  caller' = caller
  BY <1>4 DEF Claim, Work, Begin, Drop, Launch, ModelEnds, Post, Ask, Renew, Unconfirmed, Die,
    ChildEnds, Restart
<1>5. CASE Tick \/ UNCHANGED vars
  BY <1>2, <1>5 DEF Tick, vars
<1> QED BY <1>2, <1>3, <1>4, <1>5 DEF Next

(* Only a confirmed completion closes a receipt. *)
ReceiptStep(h) ==
  /\ receipt' \in [Hosts -> [Requests -> {"none", "open", "blocked"} \cup Ended]]
  /\ \A g \in Hosts \ {h} : receipt'[g] = receipt[g]
  /\ \/ receipt'[h] = receipt[h]
     \/ /\ Job(h) \in Requests /\ row[Job(h)].owner = WorkerId(h)
        /\ \A r \in Requests \ {Job(h)} : receipt'[h][r] = receipt[h][r]
        /\ \/ /\ At(h, {"claimed"}) /\ receipt'[h][Job(h)] = "open"
              /\ receipt[h][Job(h)] = "none"
           \/ /\ At(h, {"model"}) /\ receipt'[h][Job(h)] = "blocked"
              /\ At(h, {"down"})'
           \/ /\ At(h, {"posting", "again", "unsure"}) /\ At(h, {"idle"})'
              /\ receipt'[h][Job(h)] = worker[h].completion
              /\ row'[Job(h)].status = worker[h].completion
              /\ row'[Job(h)].owner = WorkerId(h)

LEMMA ReceiptSteps ==
  ASSUME BridgeInv, NEW h \in Hosts,
         Claim(h) \/ Work(h) \/ Renew(h) \/ Unconfirmed(h) \/ Die(h) \/ ChildEnds(h) \/ Restart(h)
  PROVE  ReceiptStep(h)
<1>0. /\ receipt \in [Hosts -> [Requests -> {"none", "open", "blocked"} \cup Ended]]
      /\ worker \in [Hosts -> Worker] /\ TypeOK
  BY DEF BridgeInv, TypeOK
<1>1. ASSUME receipt' = receipt
      PROVE  ReceiptStep(h)
  BY <1>0, <1>1 DEF ReceiptStep
<1>2. ASSUME ~At(h, {"idle", "down"})
      PROVE  Job(h) \in Requests /\ row[Job(h)].owner = WorkerId(h)
  BY <1>2, JobIsRequest DEF BridgeInv
<1>3. ASSUME NEW value \in {"open", "blocked"} \cup Ended, Job(h) \in Requests,
             receipt' = [receipt EXCEPT ![h][Job(h)] = value]
      PROVE  /\ receipt' \in [Hosts -> [Requests -> {"none", "open", "blocked"} \cup Ended]]
             /\ \A g \in Hosts \ {h} : receipt'[g] = receipt[g]
             /\ \A r \in Requests \ {Job(h)} : receipt'[h][r] = receipt[h][r]
             /\ receipt'[h][Job(h)] = value
  BY <1>0, <1>3
<1>4. CASE Begin(h)
  <2>1. At(h, {"claimed"}) /\ ~At(h, {"idle", "down"}) /\ receipt[h][Job(h)] = "none"
    BY <1>4 DEF Begin, At
  <2>2. receipt' = [receipt EXCEPT ![h][Job(h)] = "open"]
    BY <1>4 DEF Begin
  <2> QED BY <1>2, <1>3, <2>1, <2>2 DEF ReceiptStep
<1>5. CASE Unconfirmed(h)
  <2>1. At(h, {"model"}) /\ ~At(h, {"idle", "down"})
    BY <1>5 DEF Unconfirmed, At
  <2>2. CASE receipt' = [receipt EXCEPT ![h][Job(h)] = "blocked"] /\ Goes(h, "down")
    <3>1. At(h, {"down"})'
      BY <1>0, <2>2, GoesFacts DEF Stages, At
    <3> QED BY <1>2, <1>3, <2>1, <2>2, <3>1 DEF ReceiptStep
  <2>3. CASE receipt' = receipt
    BY <1>1, <2>3
  <2> QED BY <1>5, <2>2, <2>3 DEF Unconfirmed
<1>6. ASSUME At(h, {"posting", "again", "unsure"}), Confirmed(h),
             row'[Job(h)].status = worker[h].completion, row'[Job(h)].owner = WorkerId(h)
      PROVE  ReceiptStep(h)
  <2>1. receipt' = [receipt EXCEPT ![h][Job(h)] = worker[h].completion] /\ Goes(h, "idle")
    BY <1>6 DEF Confirmed
  <2>2. At(h, {"idle"})' /\ worker[h].completion \in Ended
    BY <1>0, <2>1, GoesFacts DEF Stages, At, Worker
  <2>3. ~At(h, {"idle", "down"})
    BY <1>6 DEF At
  <2> QED BY <1>2, <1>3, <1>6, <2>1, <2>2, <2>3 DEF ReceiptStep
<1>7. CASE Post(h)
  <2>1. At(h, {"posting", "again", "unsure"}) /\ ~At(h, {"idle", "down"})
    BY <1>7 DEF Post, At
  <2>2. CASE Accepts(h) /\ row' = [row EXCEPT ![Job(h)] = Completed(h)] /\ Confirmed(h)
    <3>1. row'[Job(h)].status = worker[h].completion /\ OwnerKept(Job(h))
      BY <1>0, <1>2, <2>1, <2>2, CompletedRows
    <3> QED BY <1>2, <1>6, <2>1, <2>2, <3>1 DEF OwnerKept
  <2>3. CASE Unanswered(h)
    BY <1>1, <2>3 DEF Unanswered
  <2> QED BY <1>7, <2>2, <2>3 DEF Post
<1>8. CASE Ask(h)
  <2>1. At(h, {"posting", "again", "unsure"}) /\ ~At(h, {"idle", "down"}) /\ row' = row
    BY <1>8 DEF Ask, At
  <2>2. CASE Repeats(h) /\ Confirmed(h)
    BY <1>2, <1>6, <2>1, <2>2 DEF Repeats
  <2>3. CASE receipt' = receipt
    BY <1>1, <2>3
  <2> QED BY <1>8, <2>2, <2>3 DEF Ask
<1>9. CASE Claim(h) \/ Drop(h) \/ Launch(h) \/ ModelEnds(h) \/ Renew(h) \/ Die(h)
             \/ ChildEnds(h) \/ Restart(h)
  BY <1>1, <1>9 DEF Claim, Drop, Launch, ModelEnds, Renew, Die, ChildEnds, Restart
<1> QED BY <1>4, <1>5, <1>7, <1>8, <1>9 DEF Work

LEMMA ReceiptsKept == BridgeInv /\ [Next]_vars => ReceiptsTrue'
<1> SUFFICES ASSUME BridgeInv, [Next]_vars PROVE ReceiptsTrue'
  OBVIOUS
<1>1. \A r \in Requests : RowStep(r)
  BY RowsMove DEF BridgeInv
<1>2. ASSUME NEW g \in Hosts, NEW r \in Requests, receipt'[g][r] = receipt[g][r],
             receipt'[g][r] \in Ended
      PROVE  row'[r].status = receipt'[g][r] /\ row'[r].owner[1] = g
  BY <1>1, <1>2 DEF BridgeInv, ReceiptsTrue, RowStep
<1>3. ASSUME NEW h \in Hosts, ReceiptStep(h)
      PROVE  ReceiptsTrue'
  <2>1. ASSUME NEW r \in Requests, receipt'[h][r] \in Ended
        PROVE  row'[r].status = receipt'[h][r] /\ row'[r].owner[1] = h
    <3>1. CASE receipt'[h][r] = receipt[h][r]
      BY <1>2, <2>1, <3>1
    <3>2. CASE /\ r = Job(h) /\ receipt'[h][r] = worker[h].completion
               /\ row'[r].status = worker[h].completion
               /\ row'[r].owner = WorkerId(h)
      BY <3>2 DEF WorkerId
    <3>3. CASE r = Job(h) /\ receipt'[h][r] \in {"open", "blocked"}
      BY <2>1, <3>3 DEF Ended
    <3> QED BY <1>3, <3>1, <3>2, <3>3 DEF ReceiptStep
  <2>2. \A g \in Hosts \ {h} : receipt'[g] = receipt[g]
    BY <1>3 DEF ReceiptStep
  <2> QED BY <1>2, <2>1, <2>2 DEF ReceiptsTrue
<1>4. ASSUME receipt' = receipt
      PROVE  ReceiptsTrue'
  BY <1>2, <1>4 DEF ReceiptsTrue
<1>5. CASE Tick \/ UNCHANGED vars
  BY <1>4, <1>5 DEF Tick, vars
<1> QED BY <1>3, <1>4, <1>5, OthersRest, ReceiptSteps DEF Next

-----------------------------------------------------------------------------
(* Children *)

(* A row's owner and a process that is gone stay so.                       *)
LEMMA PastStays ==
  ASSUME BridgeInv, [Next]_vars, NEW h \in Hosts, NEW r \in Requests, Past(h, r),
         \/ worker'[h].life = worker[h].life /\ (At(h, {"down"}) => At(h, {"down"})')
         \/ worker'[h].life = worker[h].life + 1
  PROVE  Past(h, r)'
<1>1. PICK life \in 0..MaxLives :
        /\ row[r].owner = <<h, life>>
        /\ life < worker[h].life \/ (life = worker[h].life /\ At(h, {"down"}))
  BY DEF Past
<1>2. <<h, life>> \in WorkerIds
  BY <1>1 DEF WorkerIds
<1>3. row'[r].owner = <<h, life>>
  BY <1>1, <1>2, ConstantFacts, RowsMove DEF BridgeInv, OwnerKept
<1>4. worker[h].life \in 0..MaxLives
  BY DEF BridgeInv, TypeOK, Worker
<1>5. life < worker'[h].life \/ (life = worker'[h].life /\ At(h, {"down"})')
  BY <1>1, <1>4, ConstantFacts
<1> QED BY <1>3, <1>5 DEF Past

LEMMA ChildStays ==
  ASSUME BridgeInv, [Next]_vars, NEW h \in Hosts, NEW r \in children[h],
         receipt'[h][r] = receipt[h][r], r \in unrecorded[h] => r \in unrecorded'[h],
         \/ worker'[h].life = worker[h].life /\ (At(h, {"down"}) => At(h, {"down"})')
         \/ worker'[h].life = worker[h].life + 1,
         At(h, {"model"}) /\ Job(h) = r => At(h, {"model"})' /\ Job(h)' = r
  PROVE  ChildOK(h, r)'
<1>1. ChildOK(h, r) /\ r \in Requests
  BY DEF BridgeInv, ChildrenKnown, TypeOK
<1> QED BY <1>1, PastStays DEF ChildOK

(* What a worker's step does to its own host. *)
LEMMA HostSteps ==
  ASSUME BridgeInv, [Next]_vars, NEW h \in Hosts,
         Claim(h) \/ Work(h) \/ Renew(h) \/ Unconfirmed(h) \/ Die(h) \/ ChildEnds(h) \/ Restart(h)
  PROVE  /\ \A r \in Requests : receipt'[h][r] = "blocked" => At(h, {"down"})'
         /\ At(h, {"leased", "model"})' => receipt'[h][Job(h)'] = "open"
         /\ \A r \in children'[h] : ChildOK(h, r)'
<1> DEFINE Goal == /\ \A r \in Requests : receipt'[h][r] = "blocked" => At(h, {"down"})'
                   /\ At(h, {"leased", "model"})' => receipt'[h][Job(h)'] = "open"
                   /\ \A r \in children'[h] : ChildOK(h, r)'
<1>0. /\ worker \in [Hosts -> Worker] /\ TypeOK /\ JobsOwned
      /\ receipt \in [Hosts -> [Requests -> {"none", "open", "blocked"} \cup Ended]]
      /\ children \in [Hosts -> SUBSET Requests] /\ unrecorded \in [Hosts -> SUBSET Requests]
      /\ \A r \in Requests : receipt[h][r] = "blocked" => At(h, {"down"})
      /\ At(h, {"leased", "model"}) => receipt[h][Job(h)] = "open"
      /\ \A r \in children[h] : ChildOK(h, r)
  BY DEF BridgeInv, TypeOK, ChildrenKnown
<1>1. ReceiptStep(h)
  BY ReceiptSteps
<1>2. ASSUME worker'[h] = worker[h], receipt' = receipt, children'[h] \subseteq children[h],
             \A r \in children'[h] : r \in unrecorded[h] => r \in unrecorded'[h]
      PROVE  Goal
  <2>1. ASSUME NEW r \in children'[h]
        PROVE  ChildOK(h, r)'
    BY <1>2, ChildStays DEF At, Job
  <2> QED BY <1>0, <1>2, <2>1 DEF At, Job
<1>3. CASE Claim(h)
  <2>1. /\ At(h, {"idle"}) /\ receipt' = receipt /\ children' = children
        /\ unrecorded' = unrecorded
    BY <1>3 DEF Claim
  <2>2. CASE worker' = worker
    BY <1>2, <2>1, <2>2
  <2>3. ASSUME NEW r \in Requests,
               worker' = [worker EXCEPT ![h].stage = "claimed", ![h].request = r]
        PROVE  Goal
    <3>1. worker'[h].stage = "claimed" /\ worker'[h].life = worker[h].life
      BY <1>0, <2>3, ClaimedFacts
    <3>2. \A q \in children'[h] : ChildOK(h, q)'
      BY <2>1, <3>1, ChildStays DEF At
    <3> QED BY <1>0, <2>1, <3>1, <3>2 DEF At
  <2> QED BY <1>0, <1>3, <2>2, <2>3, ClaimRows
<1>4. ASSUME NEW stage \in Stages \ {"leased", "model"}, Goes(h, stage), ~At(h, {"model"}), ~At(h, {"down"}),
             receipt' = receipt, children' = children, unrecorded' = unrecorded
      PROVE  Goal
  <2>1. worker'[h].stage = stage /\ worker'[h].life = worker[h].life
    BY <1>0, <1>4, GoesFacts
  <2>2. \A r \in children'[h] : ChildOK(h, r)'
    BY <1>4, <2>1, ChildStays DEF At
  <2> QED BY <1>0, <1>4, <2>1, <2>2 DEF At
<1>5. CASE Begin(h)
  <2>1. /\ At(h, {"claimed"}) /\ ~At(h, {"idle", "down"}) /\ receipt[h][Job(h)] = "none"
        /\ children' = children /\ receipt' = [receipt EXCEPT ![h][Job(h)] = "open"]
        /\ Goes(h, "leased") \/ Goes(h, "idle")
        /\ unrecorded' = unrecorded
    BY <1>5 DEF Begin, At
  <2>2. Job(h) \in Requests
    BY <1>0, <2>1, JobIsRequest
  <2>3. /\ receipt'[h][Job(h)] = "open"
        /\ \A r \in Requests \ {Job(h)} : receipt'[h][r] = receipt[h][r]
    BY <1>0, <2>1, <2>2
  <2>4. /\ worker'[h].life = worker[h].life
        /\ \/ worker'[h].stage = "idle"
           \/ worker'[h].stage = "leased" /\ worker'[h].request = worker[h].request
    BY <1>0, <2>1, GoesFacts DEF Stages
  <2>5. Job(h) \in children[h] => Job(h) \in unrecorded[h]
    BY <1>0, <2>1 DEF ChildOK, At
  <2>6. ASSUME NEW r \in children'[h]
        PROVE  ChildOK(h, r)'
    <3>1. r \in children[h] /\ r \in Requests
      BY <1>0, <2>1
    <3>2. CASE r = Job(h)
      BY <2>1, <2>5, <3>1, <3>2 DEF ChildOK
    <3>3. CASE r # Job(h)
      BY <2>1, <2>3, <2>4, <3>1, <3>3, ChildStays DEF At
    <3> QED BY <3>2, <3>3
  <2> QED BY <1>0, <2>1, <2>3, <2>4, <2>6 DEF At, Job
<1>6. CASE Launch(h)
  <2>1. /\ At(h, {"leased"}) /\ ~At(h, {"idle", "down"}) /\ receipt' = receipt
        /\ children' = [children EXCEPT ![h] = @ \cup {Job(h)}] /\ Goes(h, "model")
        /\ unrecorded' = unrecorded
    BY <1>6 DEF Launch, At
  <2>2. /\ worker'[h].life = worker[h].life /\ worker'[h].stage = "model"
        /\ worker'[h].request = worker[h].request
    BY <1>0, <2>1, GoesFacts DEF Stages
  <2>3. children'[h] = children[h] \cup {Job(h)}
    BY <1>0, <2>1
  <2>4. ASSUME NEW r \in children[h]
        PROVE  ChildOK(h, r)'
    BY <2>1, <2>2, ChildStays DEF At
  <2>5. ChildOK(h, Job(h))'
    BY <2>2 DEF ChildOK, At, Job
  <2>6. Job(h)' = Job(h)
    BY <2>2 DEF Job
  <2>7. \A r \in children'[h] : ChildOK(h, r)'
    BY <2>2, <2>3, <2>4 DEF ChildOK, At, Job
  <2> QED BY <1>0, <2>1, <2>2, <2>6, <2>7 DEF At
<1>7. CASE ModelEnds(h)
  <2>1. /\ At(h, {"leased", "model"}) /\ ~At(h, {"idle", "down"}) /\ receipt' = receipt
        /\ children' = [children EXCEPT ![h] = @ \ {Job(h)}] /\ unrecorded' = unrecorded
    BY <1>7 DEF ModelEnds, At
  <2>2. worker'[h].life = worker[h].life /\ worker'[h].stage = "posting"
    BY <1>0, <1>7, EndsFacts DEF ModelEnds
  <2>3. children'[h] = children[h] \ {Job(h)}
    BY <1>0, <2>1
  <2>4. \A r \in children'[h] : ChildOK(h, r)'
    BY <2>1, <2>2, <2>3, ChildStays DEF At
  <2> QED BY <1>0, <2>1, <2>2, <2>4 DEF At
<1>8. CASE Unconfirmed(h)
  <2>1. At(h, {"model"}) /\ ~At(h, {"idle", "down"}) /\ children' = children
    BY <1>8 DEF Unconfirmed, At
  <2>2. Job(h) \in Requests
    BY <1>0, <2>1, JobIsRequest
  <2>3. CASE /\ receipt' = [receipt EXCEPT ![h][Job(h)] = "blocked"] /\ Goes(h, "down")
             /\ unrecorded' = unrecorded
    <3>1. /\ receipt'[h][Job(h)] = "blocked"
          /\ \A r \in Requests \ {Job(h)} : receipt'[h][r] = receipt[h][r]
      BY <1>0, <2>2, <2>3
    <3>2. worker'[h].life = worker[h].life /\ worker'[h].stage = "down"
      BY <1>0, <2>3, GoesFacts DEF Stages
    <3>3. ASSUME NEW r \in children'[h]
          PROVE  ChildOK(h, r)'
      <4>1. r \in children[h] /\ r \in Requests
        BY <1>0, <2>1
      <4>2. CASE r = Job(h)
        BY <3>1, <4>2 DEF ChildOK
      <4>3. CASE r # Job(h)
        BY <2>3, <3>1, <3>2, <4>1, <4>3, ChildStays DEF At
      <4> QED BY <4>2, <4>3
    <3> QED BY <3>2, <3>3 DEF At
  <2>4. CASE /\ unrecorded' = [unrecorded EXCEPT ![h] = @ \cup {Job(h)}] /\ receipt' = receipt
             /\ \/ worker' = [worker EXCEPT ![h].stage = "posting", ![h].completion = "failed"]
                \/ Goes(h, "idle")
    <3>1. unrecorded'[h] = unrecorded[h] \cup {Job(h)}
      BY <1>0, <2>4
    <3>2. worker'[h].life = worker[h].life /\ worker'[h].stage \in {"posting", "idle"}
      <4>1. CASE worker' = [worker EXCEPT ![h].stage = "posting", ![h].completion = "failed"]
        BY <1>0, <4>1, EndsFacts DEF Ended
      <4>2. CASE Goes(h, "idle")
        BY <1>0, <4>2, GoesFacts DEF Stages
      <4> QED BY <2>4, <4>1, <4>2
    <3>3. ASSUME NEW r \in children'[h]
          PROVE  ChildOK(h, r)'
      <4>1. r \in children[h]
        BY <2>1
      <4>2. CASE r = Job(h)
        BY <3>1, <4>2 DEF ChildOK
      <4>3. CASE r # Job(h)
        BY <2>1, <2>4, <3>1, <3>2, <4>1, <4>3, ChildStays DEF At
      <4> QED BY <4>2, <4>3
    <3> QED BY <1>0, <2>1, <2>4, <3>2, <3>3 DEF At
  <2> QED BY <1>8, <2>3, <2>4 DEF Unconfirmed
<1>9. CASE Post(h) \/ Ask(h)
  <2>1. /\ At(h, {"posting", "unsure", "again"}) /\ ~At(h, {"idle", "down"})
        /\ children' = children /\ unrecorded' = unrecorded
    BY <1>9 DEF Post, Ask, At
  <2>2. Job(h) \in Requests /\ row[Job(h)].owner = WorkerId(h)
    BY <1>0, <2>1, JobIsRequest
  <2>3. /\ \A r \in Requests \ {Job(h)} : receipt'[h][r] = receipt[h][r]
        /\ receipt'[h][Job(h)] \in {receipt[h][Job(h)]} \cup Ended
    BY <1>0, <1>1, <2>1 DEF ReceiptStep, At, Worker
  <2>4. Goes(h, "idle") \/ Goes(h, "unsure") \/ Goes(h, "again")
    BY <1>9 DEF Post, Ask, Confirmed, Unanswered, AfterNoReply
  <2>5. worker'[h].life = worker[h].life /\ worker'[h].stage \in {"idle", "unsure", "again"}
    BY <1>0, <2>4, GoesFacts DEF Stages
  <2>6. Job(h) \in children[h] => Job(h) \in unrecorded[h]
    <3>1. ASSUME Past(h, Job(h))
          PROVE  FALSE
      BY <1>0, <2>1, <2>2, <3>1 DEF Past, WorkerId, At, Worker
    <3> QED BY <1>0, <2>1, <2>2, <3>1 DEF ChildOK, At
  <2>7. ASSUME NEW r \in children'[h]
        PROVE  ChildOK(h, r)'
    <3>1. r \in children[h] /\ r \in Requests
      BY <1>0, <2>1
    <3>2. CASE r = Job(h)
      BY <2>1, <2>6, <3>1, <3>2 DEF ChildOK
    <3>3. CASE r # Job(h)
      BY <2>1, <2>3, <2>5, <3>1, <3>3, ChildStays DEF At
    <3> QED BY <3>2, <3>3
  <2>8. \A r \in Requests : receipt'[h][r] # "blocked"
    BY <1>0, <2>1, <2>2, <2>3 DEF At, Ended
  <2> QED BY <2>5, <2>7, <2>8 DEF At
<1>10. CASE Die(h)
  <2>1. /\ ~At(h, {"down"}) /\ receipt' = receipt /\ children' = children /\ Goes(h, "down")
        /\ unrecorded' = unrecorded
    BY <1>10 DEF Die
  <2>2. worker'[h].life = worker[h].life /\ worker'[h].stage = "down"
    BY <1>0, <2>1, GoesFacts DEF Stages
  <2>3. ASSUME NEW r \in children'[h]
        PROVE  ChildOK(h, r)'
    <3>1. r \in children[h]
      BY <2>1
    <3>2. CASE At(h, {"model"}) /\ Job(h) = r
      <4>1. ~At(h, {"idle", "down"})
        BY <3>2 DEF At
      <4>2. r \in Requests /\ row[r].owner = WorkerId(h) /\ receipt[h][r] = "open"
        BY <1>0, <3>2, <4>1, JobIsRequest DEF At
      <4>3. row' = row
        BY <1>10 DEF Die
      <4>4. Past(h, r)'
        BY <1>0, <2>2, <4>2, <4>3 DEF Past, WorkerId, At, Worker
      <4> QED BY <2>1, <4>2, <4>4 DEF ChildOK
    <3>3. CASE ~(At(h, {"model"}) /\ Job(h) = r)
      BY <2>1, <2>2, <3>1, <3>3, ChildStays
    <3> QED BY <3>2, <3>3
  <2> QED BY <2>2, <2>3 DEF At
<1>11. CASE Restart(h)
  <2>1. /\ At(h, {"down"}) /\ receipt' = receipt /\ children' = children
        /\ unrecorded' = unrecorded
        /\ \A r \in Requests : receipt[h][r] # "blocked"
    BY <1>11 DEF Restart, MayStart
  <2>2. worker'[h].life = worker[h].life + 1 /\ worker'[h].stage = "idle"
    BY <1>0, <1>11, RestartFacts
  <2>3. \A r \in children'[h] : ChildOK(h, r)'
    BY <2>1, <2>2, ChildStays DEF At
  <2> QED BY <2>1, <2>2, <2>3 DEF At
<1>12. CASE Drop(h)
  BY <1>4, <1>12 DEF Drop, At, Stages
<1>13. CASE Renew(h)
  BY <1>2, <1>13 DEF Renew
<1>14. CASE ChildEnds(h)
  <2>1. PICK q \in children[h] :
          /\ children' = [children EXCEPT ![h] = @ \ {q}]
          /\ unrecorded' = [unrecorded EXCEPT ![h] = @ \ {q}]
    BY <1>14 DEF ChildEnds
  <2>2. children'[h] = children[h] \ {q} /\ unrecorded'[h] = unrecorded[h] \ {q}
    BY <1>0, <2>1
  <2>3. worker' = worker /\ receipt' = receipt
    BY <1>14 DEF ChildEnds
  <2> QED BY <1>2, <2>2, <2>3
<1> QED BY <1>3, <1>5, <1>6, <1>7, <1>8, <1>9, <1>10, <1>11, <1>12, <1>13, <1>14 DEF Work

LEMMA ChildrenStep ==
  ASSUME NEW h \in Hosts, TypeOK,
         Claim(h) \/ Work(h) \/ Renew(h) \/ Unconfirmed(h) \/ Die(h) \/ ChildEnds(h) \/ Restart(h),
         JobsOwned
  PROVE  /\ {children', unrecorded'} \subseteq [Hosts -> SUBSET Requests]
         /\ \A g \in Hosts \ {h} :
              children'[g] = children[g] /\ unrecorded'[g] = unrecorded[g]
<1>1. children \in [Hosts -> SUBSET Requests] /\ unrecorded \in [Hosts -> SUBSET Requests]
  BY DEF TypeOK
<1>2. CASE Launch(h)
  <2>1. Job(h) \in Requests
    BY <1>2, JobIsRequest DEF Launch, At
  <2> QED BY <1>1, <1>2, <2>1 DEF Launch
<1>3. CASE ModelEnds(h)
  BY <1>1, <1>3 DEF ModelEnds
<1>4. CASE ChildEnds(h)
  BY <1>1, <1>4 DEF ChildEnds
<1>5. CASE children' = children /\ unrecorded' = unrecorded
  BY <1>1, <1>5
<1>6. CASE Unconfirmed(h)
  <2>1. Job(h) \in Requests
    BY <1>6, JobIsRequest DEF Unconfirmed, At
  <2> QED BY <1>1, <1>6, <2>1 DEF Unconfirmed
<1> QED BY <1>2, <1>3, <1>4, <1>5, <1>6
        DEF Claim, Work, Begin, Drop, Post, Ask, Renew, Die, Restart

LEMMA ChildrenKept == BridgeInv /\ [Next]_vars => ChildrenKnown'
<1> SUFFICES ASSUME BridgeInv, [Next]_vars, NEW h \in Hosts
             PROVE  /\ \A r \in Requests : receipt'[h][r] = "blocked" => At(h, {"down"})'
                    /\ At(h, {"leased", "model"})' => receipt'[h][Job(h)'] = "open"
                    /\ \A r \in children'[h] : ChildOK(h, r)'
  BY DEF ChildrenKnown
<1>0. /\ \A r \in Requests : receipt[h][r] = "blocked" => At(h, {"down"})
      /\ At(h, {"leased", "model"}) => receipt[h][Job(h)] = "open"
      /\ TypeOK /\ JobsOwned
  BY DEF BridgeInv, ChildrenKnown
<1>1. ASSUME worker'[h] = worker[h], receipt'[h] = receipt[h], children'[h] = children[h],
             unrecorded'[h] = unrecorded[h]
      PROVE  /\ \A r \in Requests : receipt'[h][r] = "blocked" => At(h, {"down"})'
             /\ At(h, {"leased", "model"})' => receipt'[h][Job(h)'] = "open"
             /\ \A r \in children'[h] : ChildOK(h, r)'
  <2>1. \A r \in children'[h] : ChildOK(h, r)'
    BY <1>1, ChildStays DEF At, Job
  <2> QED BY <1>0, <1>1, <2>1 DEF At, Job
<1>2. ASSUME NEW g \in Hosts \ {h},
             Claim(g) \/ Work(g) \/ Renew(g) \/ Unconfirmed(g) \/ Die(g) \/ ChildEnds(g) \/ Restart(g)
      PROVE  /\ worker'[h] = worker[h] /\ receipt'[h] = receipt[h] /\ children'[h] = children[h]
             /\ unrecorded'[h] = unrecorded[h]
  <2>1. WorkerStep(g) /\ ReceiptStep(g)
    BY <1>0, <1>2, WorkerSteps, ReceiptSteps
  <2>2. children'[h] = children[h] /\ unrecorded'[h] = unrecorded[h]
    BY <1>0, <1>2, ChildrenStep
  <2> QED BY <2>1, <2>2 DEF WorkerStep, ReceiptStep
<1>3. CASE Tick \/ UNCHANGED vars
  BY <1>1, <1>3 DEF Tick, vars
<1>4. CASE \E c \in Callers : Submit(c) \/ Watch(c)
  BY <1>1, <1>4, OthersRest
<1>5. CASE \E g \in Hosts : Claim(g) \/ Work(g) \/ Renew(g) \/ Unconfirmed(g) \/ Die(g)
                            \/ ChildEnds(g) \/ Restart(g)
  <2>1. PICK g \in Hosts : Claim(g) \/ Work(g) \/ Renew(g) \/ Unconfirmed(g) \/ Die(g)
                            \/ ChildEnds(g) \/ Restart(g)
    BY <1>5
  <2>2. CASE g = h
    BY <2>1, <2>2, HostSteps
  <2>3. CASE g # h
    BY <1>1, <1>2, <2>1, <2>3
  <2> QED BY <2>2, <2>3
<1> QED BY <1>3, <1>4, <1>5 DEF Next

-----------------------------------------------------------------------------
(* Types, and the theorems *)

LEMMA TypesKept == BridgeInv /\ [Next]_vars => TypeOK'
<1> SUFFICES ASSUME BridgeInv, [Next]_vars PROVE TypeOK'
  OBVIOUS
<1> DEFINE CallerType == [stage: {"new", "polling", "overdue", "answered", "failed", "refused"},
                          answer: WorkerIds \cup {Nobody}]
<1>0. TypeOK /\ JobsOwned /\ RowsSound /\ caller \in [Callers -> CallerType]
  BY DEF BridgeInv, TypeOK
<1>1. row' \in [Requests -> Row]
  BY <1>0, RowsMove
<1>2. ASSUME NEW c \in Callers, Submit(c) \/ Watch(c)
      PROVE  TypeOK'
  <2>1. UNCHANGED <<clock, worker, receipt, children, unrecorded, calls>>
    BY <1>2, OthersRest
  <2>2. caller' \in [Callers -> CallerType]
    <3>1. row[RequestOf[c]].answer \in WorkerIds \cup {Nobody}
      BY <1>0, ConstantFacts DEF TypeOK, Row
    <3>2. ASSUME NEW stage \in {"polling", "overdue", "failed", "refused"},
                 caller' = [caller EXCEPT ![c].stage = stage]
          PROVE  caller' \in [Callers -> CallerType]
      BY <1>0, <3>2
    <3>3. ASSUME caller' = [caller EXCEPT ![c].stage = "answered", ![c].answer = row[RequestOf[c]].answer]
          PROVE  caller' \in [Callers -> CallerType]
      <4> DEFINE n == [[caller[c] EXCEPT !.stage = "answered"] EXCEPT !.answer = row[RequestOf[c]].answer]
      <4>1. n \in CallerType
        BY <1>0, <3>1
      <4>2. caller' = [caller EXCEPT ![c] = n]
        BY <1>0, <3>3
      <4> HIDE DEF n, CallerType
      <4> QED BY <1>0, <4>1, <4>2
    <3> HIDE DEF CallerType
    <3>4. CASE Submit(c)
      BY <3>2, <3>4 DEF Submit
    <3>5. CASE Poll(c)
      BY <3>2, <3>3, <3>5 DEF Poll
    <3>6. CASE GiveUp(c)
      BY <3>2, <3>3, <3>6 DEF GiveUp
    <3> QED BY <1>2, <3>4, <3>5, <3>6 DEF Watch
  <2> QED BY <1>0, <1>1, <2>1, <2>2 DEF TypeOK
<1>3. ASSUME NEW h \in Hosts,
             Claim(h) \/ Work(h) \/ Renew(h) \/ Unconfirmed(h) \/ Die(h) \/ ChildEnds(h) \/ Restart(h)
      PROVE  TypeOK'
  <2>1. worker' \in [Hosts -> Worker]
    BY <1>0, <1>3, WorkerSteps DEF WorkerStep
  <2>2. receipt' \in [Hosts -> [Requests -> {"none", "open", "blocked"} \cup Ended]]
    BY <1>3, ReceiptSteps DEF ReceiptStep
  <2>3. children' \in [Hosts -> SUBSET Requests] /\ unrecorded' \in [Hosts -> SUBSET Requests]
    BY <1>0, <1>3, ChildrenStep
  <2>4. calls' \in [Requests -> Nat]
    <3>1. CASE Launch(h)
      <4>1. Job(h) \in Requests
        BY <1>0, <3>1, JobIsRequest DEF Launch, At
      <4>2. calls \in [Requests -> Nat] /\ calls' = [calls EXCEPT ![Job(h)] = calls[Job(h)] + 1]
        BY <1>0, <3>1 DEF Launch, TypeOK
      <4>3. calls[Job(h)] + 1 \in Nat
        BY <4>1, <4>2
      <4> QED BY <4>1, <4>2, <4>3
    <3>2. CASE calls' = calls
      BY <1>0, <3>2 DEF TypeOK
    <3> QED BY <1>3, <3>1, <3>2 DEF Claim, Work, Begin, Drop, ModelEnds, Post, Ask, Renew,
          Unconfirmed, Die, ChildEnds, Restart
  <2>5. UNCHANGED <<clock, caller>>
    BY <1>3 DEF Claim, Work, Begin, Drop, Launch, ModelEnds, Post, Ask, Renew, Unconfirmed, Die,
      ChildEnds, Restart
  <2> QED BY <1>0, <1>1, <2>1, <2>2, <2>3, <2>4, <2>5 DEF TypeOK
<1>4. CASE Tick
  BY <1>0, <1>4 DEF Tick, TypeOK
<1>5. CASE UNCHANGED vars
  BY <1>0, <1>5 DEF vars, TypeOK
<1> QED BY <1>2, <1>3, <1>4, <1>5 DEF Next

LEMMA BridgeInvKept == BridgeInv /\ [Next]_vars => BridgeInv'
  BY TypesKept, JobsOwnedKept, RowsSoundKept, CallsKept, CallersToldKept, ReceiptsKept, ChildrenKept
  DEF BridgeInv

LEMMA AlwaysBridgeInv == Spec => []BridgeInv
  BY InitInv, BridgeInvKept, PTL DEF Spec

(* claim_research: the model is called once for a request.                 *)
THEOREM OneCall == Spec => []OneModelCall
<1>1. BridgeInv => OneModelCall
  BY DEF BridgeInv, CallsCounted
<1> QED BY <1>1, AlwaysBridgeInv, PTL

(* What callers were told, and what receipts on the workers' disks say, is *)
(* what the rows say from then on.                                         *)
THEOREM Truthful == Spec => []ToldTheTruth
<1>1. BridgeInv => ToldTheTruth
  <2> SUFFICES ASSUME BridgeInv PROVE ToldTheTruth
    OBVIOUS
  <2>1. \A c \in Callers : RequestOf[c] \in Requests
    BY ConstantFacts
  <2> QED BY <2>1 DEF BridgeInv, CallersTold, Told, RowsSound, ReceiptsTrue, ToldTheTruth
<1> QED BY <1>1, AlwaysBridgeInv, PTL

(* A model is started beside another one only when the worker process of   *)
(* that one is gone without having said that its child was still there, or *)
(* when its kill or the record of that failed.                             *)
THEOREM PriorGone == Spec => PriorChildGone
<1> DEFINE Beside == \A h \in Hosts : children'[h] \ children[h] # {} =>
                       \A r \in children[h] \ unrecorded[h] :
                         receipt[h][r] = "open" /\ row[r].owner # WorkerId(h)
<1>1. BridgeInv /\ [Next]_vars => [Beside]_vars
  <2> SUFFICES ASSUME BridgeInv, Next, NEW h \in Hosts, children'[h] \ children[h] # {},
                      NEW r \in children[h] \ unrecorded[h]
               PROVE  receipt[h][r] = "open" /\ row[r].owner # WorkerId(h)
    OBVIOUS
  <2>0. TypeOK /\ JobsOwned
    BY DEF BridgeInv
  <2>1. Launch(h)
    <3>1. CASE \E c \in Callers : Submit(c) \/ Watch(c)
      BY <3>1, OthersRest
    <3>2. CASE Tick
      BY <3>2 DEF Tick
    <3>3. CASE \E g \in Hosts : Claim(g) \/ Work(g) \/ Renew(g) \/ Unconfirmed(g) \/ Die(g)
                                \/ ChildEnds(g) \/ Restart(g)
      <4>1. PICK g \in Hosts : Claim(g) \/ Work(g) \/ Renew(g) \/ Unconfirmed(g) \/ Die(g)
                                \/ ChildEnds(g) \/ Restart(g)
        BY <3>3
      <4>2. g = h
        BY <2>0, <4>1, ChildrenStep
      <4>3. CASE ModelEnds(h) \/ ChildEnds(h)
        BY <2>0, <4>3 DEF ModelEnds, ChildEnds, TypeOK
      <4>4. CASE children' = children
        BY <4>4
      <4> QED BY <4>1, <4>2, <4>3, <4>4 DEF Claim, Work, Begin, Drop, Post, Ask, Renew,
            Unconfirmed, Die, Restart
    <3> QED BY <3>1, <3>2, <3>3 DEF Next
  <2>2. At(h, {"leased"}) /\ r \in Requests
    BY <2>0, <2>1 DEF Launch, TypeOK
  <2>3. ChildOK(h, r) /\ (receipt[h][r] = "blocked" => At(h, {"down"}))
    BY <2>2 DEF BridgeInv, ChildrenKnown
  <2>4. receipt[h][r] = "open" /\ Past(h, r)
    BY <2>2, <2>3 DEF ChildOK, At
  <2>5. worker[h].life \in 0..MaxLives /\ ~At(h, {"down"})
    BY <2>0, <2>2 DEF TypeOK, Worker, At
  <2>6. row[r].owner # WorkerId(h)
    BY <2>4, <2>5, ConstantFacts DEF Past, WorkerId
  <2> QED BY <2>4, <2>6
<1> QED BY <1>1, AlwaysBridgeInv, PTL DEF Spec, PriorChildGone
=============================================================================
