--------------------------- MODULE ResearchBridge ---------------------------
(***************************************************************************)
(* The research channel of the AI bridge (server/ai_bridge/research.py and *)
(* the research worker of tools/run_codex_web_bridge.py): programs on the  *)
(* server request one model call under a UUID and poll its row; a worker   *)
(* process on another host claims the row over HTTP, runs the model as a   *)
(* child process, and reports what it answered.                            *)
(*                                                                         *)
(* A lease is never taken over: a request whose worker is gone fails at    *)
(* its deadline.  Each transaction locks what it tests and is one step.    *)
(* Replies to the worker may be lost, and worker processes, their children *)
(* and callers may go at any point.  A worker's clock is unrelated to the  *)
(* server's, so that what it makes of lease and deadline on its own is a   *)
(* choice.                                                                 *)
(***************************************************************************)
EXTENDS Integers, FiniteSets

CONSTANTS
  Requests,      \* request UUIDs
  Callers,       \* calls of request_research
  Watchers,      \* those that live on once they have submitted
  RequestOf,     \* the UUID of each call
  InputOf,       \* its input_sha256
  Budgets,       \* how long after its submission a request may have its deadline
  Hosts,         \* hosts of workers, each with its state directory and lock
  LeaseTime,     \* lease_seconds
  Batch,         \* how many rows one claim cleans up
  Nobody,        \* the NULL worker_id
  NoRequest,     \* an idle worker's request
  MaxLives,      \* bound: worker processes of one host
  Horizon        \* bound: time stops here, and every deadline is before

ASSUME BridgeAssumption ==
  /\ Watchers \subseteq Callers
  /\ IsFiniteSet(Requests)
  /\ RequestOf \in [Callers -> Requests]
  /\ Budgets \subseteq Nat \ {0}
  /\ LeaseTime \in Nat \ {0} /\ Batch \in Nat \ {0}
  /\ MaxLives \in Nat /\ Horizon \in Nat
  /\ NoRequest \notin Requests
  /\ Nobody \notin Hosts \X (0..MaxLives)

VARIABLES
  clock,       \* utcnow() of the server
  row,         \* ai_bridge_job, by request
  caller,      \* what each caller has been told
  worker,      \* the worker process of each host
  receipt,     \* receipt.json of each request on each host
  children,    \* requests whose model process may be alive on a host
  unrecorded,  \* those whose end was neither confirmed nor recorded as BLOCKED
  calls        \* how often the model was started for a request (history)

vars == <<clock, row, caller, worker, receipt, children, unrecorded, calls>>

-----------------------------------------------------------------------------

Inputs == {InputOf[c] : c \in Callers}
WorkerIds == Hosts \X (0..MaxLives)
Ended == {"completed", "failed"}

(* attempts is 1 when there is an owner; an answer is named by the process *)
(* whose model gave it.                                                    *)
Row == [status: {"absent", "queued", "processing"} \cup Ended, id: Nat,
        input: Inputs \cup {"none"}, deadline: Nat, owner: WorkerIds \cup {Nobody},
        lease: Nat, answer: WorkerIds \cup {Nobody}]
AbsentRow == [status |-> "absent", id |-> 0, input |-> "none", deadline |-> 0,
              owner |-> Nobody, lease |-> 0, answer |-> Nobody]

(* Where process_research_job stands, and the completion it will report.   *)
Stages == {"down", "idle", "claimed", "leased", "model", "posting", "unsure", "again"}
Worker == [life: 0..MaxLives, stage: Stages, request: Requests \cup {NoRequest},
           completion: Ended]
WorkerId(h) == <<h, worker[h].life>>
Job(h) == worker[h].request
At(h, stages) == worker[h].stage \in stages
Without(stage, life) == [life |-> life, stage |-> stage, request |-> NoRequest,
                         completion |-> "failed"]
Goes(h, stage) ==
  worker' = [worker EXCEPT ![h] =
               IF stage \in {"idle", "down"} THEN Without(stage, @.life)
               ELSE [@ EXCEPT !.stage = stage]]

With(status) == {r \in Requests : row[r].status = status}
Oldest(S, n) == {r \in S : Cardinality({q \in S : row[q].id <= row[r].id}) <= n}

(* _expire: only what is queued or processing. *)
Expired(r) ==
  IF row[r].status \in {"queued", "processing"}
  THEN [row[r] EXCEPT !.status = "failed", !.lease = 0] ELSE row[r]

LeaseEnd(r) ==
  IF row[r].deadline < clock + LeaseTime THEN row[r].deadline ELSE clock + LeaseTime

Owned(r, id) == row[r].owner = id
(* Mutated form: any write of the owner's before the deadline counts. *)
Active_AnyStatus(r, id) == Owned(r, id) /\ row[r].deadline > clock
(* _owned with active: still the worker's, under a lease that runs. *)
Active(r, id) ==
  /\ Owned(r, id) /\ row[r].status = "processing"
  /\ row[r].lease > clock /\ row[r].deadline > clock

-----------------------------------------------------------------------------

Init ==
  /\ clock = 0
  /\ row = [r \in Requests |-> AbsentRow]
  /\ caller = [c \in Callers |-> [stage |-> "new", answer |-> Nobody]]
  /\ worker = [h \in Hosts |-> Without("idle", 0)]
  /\ receipt = [h \in Hosts |-> [r \in Requests |-> "none"]]
  /\ children = [h \in Hosts |-> {}]
  /\ unrecorded = [h \in Hosts |-> {}]
  /\ calls = [r \in Requests |-> 0]

(* The caller: request_research.  One that died, or whose transaction      *)
(* failed, is one that takes no more steps.                                *)

NewRow(c, deadline) ==
  [status |-> "queued", id |-> Cardinality(Requests \ With("absent")) + 1,
   input |-> InputOf[c], deadline |-> deadline,
   owner |-> Nobody, lease |-> 0, answer |-> Nobody]

(* _enqueue: one row per UUID; another call of it joins when its input is  *)
(* the same.                                                               *)
Submit(c) ==
  LET r == RequestOf[c] IN
  /\ caller[c].stage = "new"
  /\ \E budget \in Budgets :
       /\ clock + budget <= Horizon
       /\ row' = IF row[r].status = "absent"
                 THEN [row EXCEPT ![r] = NewRow(c, clock + budget)]
                 ELSE row
       /\ caller' = [caller EXCEPT
            ![c].stage = IF row[r].status = "absent" \/ row[r].input = InputOf[c]
                         THEN "polling" ELSE "refused"]
  /\ UNCHANGED <<clock, worker, receipt, children, unrecorded, calls>>

(* One look at the row, without a lock.  A caller has a timeout of its own *)
(* beside the deadline, on its own clock.                                  *)
Poll(c) ==
  LET r == RequestOf[c] IN
  /\ c \in Watchers /\ caller[c].stage = "polling"
  /\ \/ row[r].status = "completed"
        /\ caller' = [caller EXCEPT ![c].stage = "answered", ![c].answer = row[r].answer]
     \/ row[r].status = "failed"
        /\ caller' = [caller EXCEPT ![c].stage = "failed"]
     \/ row[r].status \notin Ended
        /\ caller' = [caller EXCEPT ![c].stage = "overdue"]
  /\ UNCHANGED <<clock, row, worker, receipt, children, unrecorded, calls>>

(* Past the deadline the row is looked at again, locked, and failed unless *)
(* an answer has come in between.                                          *)
GiveUp(c) ==
  LET r == RequestOf[c] IN
  /\ caller[c].stage = "overdue"
  /\ IF row[r].status = "completed"
     THEN /\ caller' = [caller EXCEPT ![c].stage = "answered", ![c].answer = row[r].answer]
          /\ UNCHANGED row
     ELSE /\ caller' = [caller EXCEPT ![c].stage = "failed"]
          /\ row' = [row EXCEPT ![r] = Expired(r)]
  /\ UNCHANGED <<clock, worker, receipt, children, unrecorded, calls>>

-----------------------------------------------------------------------------
(* The worker: run_research_worker and process_research_job.  A claim, a   *)
(* renewal and a completion are requests to the server; what the worker    *)
(* writes on its own disk beside them is part of the step.                 *)

(* Mutated form: a lease that ran out is taken over. *)
Claimable_RunOut == With("queued") \cup {r \in With("processing") : row[r].lease <= clock}
Claimable == {r \in With("queued") : row[r].owner = Nobody}

(* Mutated form: the cleanup is left to the callers. *)
Stale_Nowhere == {}
(* Requests whose lease ran out, up to Batch of them. *)
Stale == Oldest({r \in With("processing") : row[r].lease <= clock}, Batch)

(* claim_research: requests past their deadline fail, up to Batch whose    *)
(* lease ran out and up to Batch at the head of the queue; the first other *)
(* one is claimed.  When the reply is lost, nobody works on it.            *)
Claim(h) ==
  LET dead == {r \in Stale : row[r].deadline <= clock}
      live == {r \in Claimable : row[r].deadline > clock}
      scanned == Oldest(Claimable, Batch)
      passed == {r \in scanned : \A q \in live : row[r].id < row[q].id}
      next == {r \in scanned \cap live : \A q \in live : row[r].id <= row[q].id}
  IN
  /\ At(h, {"idle"})
  /\ dead \cup passed \cup next # {}
  /\ row' = [r \in Requests |->
               IF r \in dead \cup passed THEN Expired(r)
               ELSE IF r \in next
               THEN [row[r] EXCEPT !.status = "processing", !.owner = WorkerId(h),
                                   !.lease = LeaseEnd(r)]
               ELSE row[r]]
  /\ \/ UNCHANGED worker
     \/ \E r \in next :
          worker' = [worker EXCEPT ![h].stage = "claimed", ![h].request = r]
  /\ UNCHANGED <<clock, caller, receipt, children, unrecorded, calls>>

(* progress_research: the first renewal, and those of the heartbeat.       *)
Renewed(h) ==
  /\ Active(Job(h), WorkerId(h))
  /\ row' = [row EXCEPT ![Job(h)].lease = LeaseEnd(Job(h))]

Renew(h) ==
  /\ At(h, {"leased", "model", "posting", "unsure", "again"})
  /\ Renewed(h)
  /\ UNCHANGED <<clock, caller, worker, receipt, children, unrecorded, calls>>

(* The checkpoint RUNNING, which no receipt may precede, and the first     *)
(* renewal.  When the claim is not valid for the worker's clock, or the    *)
(* renewal or its reply fails, the job is given up without a word.         *)
Begin(h) ==
  /\ At(h, {"claimed"})
  /\ receipt[h][Job(h)] = "none"
  /\ receipt' = [receipt EXCEPT ![h][Job(h)] = "open"]
  /\ \/ Renewed(h) /\ Goes(h, "leased")
     \/ Goes(h, "idle") /\ (Renewed(h) \/ UNCHANGED row)
  /\ UNCHANGED <<clock, caller, children, unrecorded, calls>>

Drop(h) ==
  /\ At(h, {"claimed"})
  /\ Goes(h, "idle")
  /\ UNCHANGED <<clock, row, caller, receipt, children, unrecorded, calls>>

Launch(h) ==
  /\ At(h, {"leased"})
  /\ calls' = [calls EXCEPT ![Job(h)] = @ + 1]
  /\ children' = [children EXCEPT ![h] = @ \cup {Job(h)}]
  /\ Goes(h, "model")
  /\ UNCHANGED <<clock, row, caller, receipt, unrecorded>>

(* The child answers; or it fails, was never started, or is killed for a   *)
(* lost lease or the deadline, and is then known to be gone.  Either       *)
(* becomes the completion, which is checkpointed.                          *)
ModelEnds(h) ==
  /\ At(h, {"leased", "model"})
  /\ \E completion \in Ended :
       /\ completion = "completed" => At(h, {"model"})
       /\ worker' = [worker EXCEPT ![h].stage = "posting", ![h].completion = completion]
  /\ children' = [children EXCEPT ![h] = @ \ {Job(h)}]
  /\ UNCHANGED <<clock, row, caller, receipt, unrecorded, calls>>

(* The child is to be killed and does not end: the worker says so and      *)
(* stops.  When the kill or the record of the process fails, though, that  *)
(* is a failure like any other and is posted; and when the receipt cannot  *)
(* be written, one after which the worker claims its next job.             *)
Unconfirmed(h) ==
  /\ At(h, {"model"})
  /\ \/ /\ receipt' = [receipt EXCEPT ![h][Job(h)] = "blocked"]
        /\ Goes(h, "down")
        /\ UNCHANGED unrecorded
     \/ /\ unrecorded' = [unrecorded EXCEPT ![h] = @ \cup {Job(h)}]
        /\ \/ worker' = [worker EXCEPT ![h].stage = "posting", ![h].completion = "failed"]
           \/ Goes(h, "idle")
        /\ UNCHANGED receipt
  /\ UNCHANGED <<clock, row, caller, children, calls>>

(* What complete_research answers: the outcome that is stored, or a write  *)
(* by a worker whose lease runs.  Nothing else is accepted.                *)
Repeats(h) ==
  LET r == Job(h) IN
  /\ Owned(r, WorkerId(h)) /\ row[r].status = worker[h].completion
  /\ row[r].status = "completed" => row[r].answer = WorkerId(h)
Accepts(h) == Repeats(h) \/ Active(Job(h), WorkerId(h))
Completed(h) ==
  IF Repeats(h) THEN row[Job(h)]
  ELSE [row[Job(h)] EXCEPT !.status = worker[h].completion, !.lease = 0,
          !.answer = IF worker[h].completion = "completed" THEN WorkerId(h) ELSE Nobody]

(* _confirm_research_completion asks after the first POST that failed and  *)
(* gives up after the second.                                              *)
AfterNoReply(h) == IF At(h, {"posting"}) THEN "unsure" ELSE "idle"

(* The confirmed completion is the receipt on disk. *)
Confirmed(h) ==
  /\ receipt' = [receipt EXCEPT ![h][Job(h)] = worker[h].completion]
  /\ Goes(h, "idle")
Unanswered(h) == Goes(h, AfterNoReply(h)) /\ UNCHANGED receipt

Post(h) ==
  /\ At(h, {"posting", "again"})
  /\ \/ /\ Accepts(h)
        /\ row' = [row EXCEPT ![Job(h)] = Completed(h)]
        /\ Confirmed(h) \/ Unanswered(h)
     \/ Unanswered(h) /\ UNCHANGED row
  /\ UNCHANGED <<clock, caller, children, unrecorded, calls>>

(* research_status after a POST without a reply. *)
Ask(h) ==
  /\ At(h, {"unsure"})
  /\ \/ row[Job(h)].status = "processing" /\ Goes(h, "again") /\ UNCHANGED receipt
     \/ Repeats(h) /\ Confirmed(h)
     \/ Goes(h, "idle") /\ UNCHANGED receipt
  /\ UNCHANGED <<clock, row, caller, children, unrecorded, calls>>

(* A worker process dies, all but the last of a host; its child goes on.   *)
Die(h) ==
  /\ ~At(h, {"down"}) /\ worker[h].life < MaxLives
  /\ Goes(h, "down")
  /\ UNCHANGED <<clock, row, caller, receipt, children, unrecorded, calls>>

(* A child nobody waits for ends by itself. *)
ChildEnds(h) ==
  /\ \E r \in children[h] :
       /\ ~(At(h, {"model"}) /\ Job(h) = r)
       /\ children' = [children EXCEPT ![h] = @ \ {r}]
       /\ unrecorded' = [unrecorded EXCEPT ![h] = @ \ {r}]
  /\ UNCHANGED <<clock, row, caller, worker, receipt, calls>>

(* Mutated form: receipts are not looked at. *)
MayStart_Always(h) == TRUE
(* The next worker of a host does not start after one that stopped with an *)
(* unconfirmed child.                                                      *)
MayStart(h) == \A r \in Requests : receipt[h][r] # "blocked"

Restart(h) ==
  /\ At(h, {"down"}) /\ worker[h].life < MaxLives
  /\ MayStart(h)
  /\ worker' = [worker EXCEPT ![h] = Without("idle", @.life + 1)]
  /\ UNCHANGED <<clock, row, caller, receipt, children, unrecorded, calls>>

Tick ==
  /\ clock < Horizon
  /\ clock' = clock + 1
  /\ UNCHANGED <<row, caller, worker, receipt, children, unrecorded, calls>>

Watch(c) == Poll(c) \/ GiveUp(c)
Work(h) ==
  Begin(h) \/ Drop(h) \/ Launch(h) \/ ModelEnds(h) \/ Post(h) \/ Ask(h)

Next ==
  \/ \E c \in Callers : Submit(c) \/ Watch(c)
  \/ \E h \in Hosts : Claim(h) \/ Work(h) \/ Renew(h) \/ Unconfirmed(h) \/ Die(h)
                      \/ ChildEnds(h) \/ Restart(h)
  \/ Tick

Spec == Init /\ [][Next]_vars

(* A worker polls and goes on with its job (its model has a deadline), its *)
(* task is started again, and time passes.  Callers may all be gone.       *)
FairSpec ==
  /\ Spec
  /\ \A h \in Hosts : WF_vars(Claim(h)) /\ WF_vars(Work(h)) /\ WF_vars(Restart(h))
  /\ WF_vars(Tick)

-----------------------------------------------------------------------------
(* Properties *)

TypeOK ==
  /\ clock \in Nat
  /\ row \in [Requests -> Row]
  /\ caller \in [Callers -> [stage: {"new", "polling", "overdue", "answered", "failed",
                                     "refused"},
                             answer: WorkerIds \cup {Nobody}]]
  /\ worker \in [Hosts -> Worker]
  /\ receipt \in [Hosts -> [Requests -> {"none", "open", "blocked"} \cup Ended]]
  /\ children \in [Hosts -> SUBSET Requests]
  /\ unrecorded \in [Hosts -> SUBSET Requests]
  /\ calls \in [Requests -> Nat]

(* "A dead processing owner can never create a parallel model run": the    *)
(* model is called once for a request, whatever replies are lost and       *)
(* whoever dies.                                                           *)
OneModelCall == \A r \in Requests : calls[r] <= 1

(* What anybody was told stays true: a caller that has an answer has that  *)
(* of the one call for its input; one that was told of a failure, or that  *)
(* wrote it at the deadline, never sees the request completed by a late    *)
(* worker; and a receipt on a worker's disk says what the row says. A      *)
(* caller whose own transaction raised was told nothing of the request.    *)
ToldTheTruth ==
  /\ \A c \in Callers :
       LET r == RequestOf[c] IN
       /\ caller[c].stage = "answered" =>
            /\ row[r].status = "completed" /\ row[r].input = InputOf[c]
            /\ caller[c].answer = row[r].answer /\ row[r].answer = row[r].owner
       /\ caller[c].stage = "failed" => row[r].status = "failed"
  /\ \A h \in Hosts : \A r \in Requests :
       receipt[h][r] \in Ended =>
         row[r].status = receipt[h][r] /\ row[r].owner[1] = h

(* "Do not accept another model job until the prior child is proven        *)
(* absent": when a model is started, one that may still be alive on the    *)
(* host is one whose worker process died and could not say so, or one      *)
(* whose kill, or the record that it was not confirmed, failed too.        *)
PriorChildGone ==
  [][\A h \in Hosts : children'[h] \ children[h] # {} =>
       \A r \in children[h] \ unrecorded[h] :
         receipt[h][r] = "open" /\ row[r].owner # WorkerId(h)
    ]_vars

(* Every request ends, with all its callers gone and its worker dead, as   *)
(* long as one host is left that starts workers: again and again none is   *)
(* open, and each is opened once.                                          *)
Over(r) == row[r].status \notin {"queued", "processing"} \/ \A h \in Hosts : ~MayStart(h)
RequestsEnd == []<>(\A r \in Requests : Over(r))
=============================================================================
