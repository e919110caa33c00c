-------------------------- MODULE ProjectionOutbox --------------------------
(***************************************************************************)
(* The V3 execution projection and its outbox (server/integrations): every *)
(* canonical order transition appends a row to the outbox inside its own   *)
(* transaction; worker processes lease the rows, apply them to the V3 read *)
(* model in a second transaction and acknowledge them in a third.          *)
(*                                                                         *)
(* Each transaction is one step (they lock the rows they test).  A worker  *)
(* uses the time it read at the start of a run for all three.  Between the *)
(* three it may stop, stall past its lease, or find a database away.       *)
(* Outbox rows carry the event (o, n): the n-th transition of order o; its *)
(* payload is immutable and identified by (o, n).                          *)
(***************************************************************************)
EXTENDS Integers, FiniteSets

CONSTANTS
  Orders,        \* orders, each bound to one execution plan
  Prior,         \* how many transitions an order may have made before the outbox
  MaxSequence,   \* bound: the last transition of any order
  Baselines,     \* sequences an operator may register as a baseline
  Processes,     \* worker processes
  WorkerId,      \* the worker_id of each process; a restart may repeat one
  Nobody,        \* the NULL lease owner and token
  LeaseTime, MaxAttempts, RetryDelay,   \* the arguments of a worker run
  Skew,          \* how far a worker's clock may lag
  MaxPlace,      \* bound: outbox_sequence numbers (AUTO_INCREMENT)
  Horizon        \* bound: time stops here

ASSUME OutboxAssumption ==
  /\ MaxSequence \in Nat \ {0} /\ MaxPlace \in Nat /\ Skew \in Nat /\ Horizon \in Nat
  /\ LeaseTime \in Nat \ {0} /\ MaxAttempts \in Nat \ {0} /\ RetryDelay \in Nat
  /\ Prior \subseteq Nat
  /\ Baselines \subseteq Nat \ {0}
  /\ Nobody \notin Processes
  /\ Orders # {}

VARIABLES
  clock,
  history,     \* sequence of the last canonical transition of each order
  row,         \* the outbox, by event
  baseline,    \* registered baseline of each order, 0 when there is none
  inbox,       \* events the read model has recorded
  head,        \* last event applied to each plan, and when
  checkpoint,  \* last outbox_sequence acknowledged under each worker_id
  run          \* what each process is doing

vars == <<clock, history, row, baseline, inbox, head, checkpoint, run>>

-----------------------------------------------------------------------------

Sequences == 1..MaxSequence
Events == Orders \X Sequences
WorkerIds == {WorkerId[p] : p \in Processes}
Statuses == {"ABSENT", "PENDING", "LEASED", "PUBLISHED", "DEAD_LETTER"}

(* A lease token is a fresh UUID and a process has one run at a time, so   *)
(* the process that leased a row stands for the token.                     *)
Row == [status: Statuses, attempts: Nat, due: Int, token: Processes \cup {Nobody},
        until: Int, place: Nat]
AbsentRow == [status |-> "ABSENT", attempts |-> 0, due |-> 0, token |-> Nobody,
              until |-> 0, place |-> 0]

Run == [phase: {"idle", "leased", "applied", "failed"}, order: Orders,
        sequence: Sequences, attempts: Nat, now: Int]
IdleRun == [phase |-> "idle", order |-> CHOOSE o \in Orders : TRUE, sequence |-> 1,
            attempts |-> 0, now |-> 0]
Idle(p) == run[p].phase = "idle"
Event(p) == <<run[p].order, run[p].sequence>>

Appended(o) == {n \in Sequences : row[<<o, n>>].status # "ABSENT"}
Tail(o) ==
  IF Appended(o) = {} THEN baseline[o]
  ELSE CHOOSE n \in Appended(o) : \A m \in Appended(o) : m <= n
Published(o) == {n \in Sequences : row[<<o, n>>].status = "PUBLISHED"}

(* Mutated form: predecessors only need to have been leased once. *)
PredecessorsDone_Attempted(o, n) ==
  \A m \in (baseline[o] + 1)..(n - 1) : row[<<o, m>>].attempts > 0
(* All predecessors down to the baseline are there and published. *)
PredecessorsDone(o, n) == (baseline[o] + 1)..(n - 1) \subseteq Published(o)

(* Mutated form: leases never run out. *)
Due_PendingOnly(now) ==
  {e \in Events : row[e].status = "PENDING" /\ row[e].due <= now
                  /\ e[2] > baseline[e[1]] /\ PredecessorsDone(e[1], e[2])}
Due(now) ==
  {e \in Events :
     /\ \/ row[e].status = "PENDING" /\ row[e].due <= now
        \/ row[e].status = "LEASED" /\ row[e].until <= now
     /\ e[2] > baseline[e[1]]
     /\ PredecessorsDone(e[1], e[2])}

Candidates(now) ==
  {e \in Due(now) : \A f \in Due(now) : row[e].place <= row[f].place}

(* Mutated form: the token is not compared. *)
HoldsLease_ByWorkerId(p) ==
  LET r == row[Event(p)] IN
  r.status = "LEASED" /\ r.token # Nobody /\ WorkerId[r.token] = WorkerId[p]
(* The CAS of an acknowledgement or a failure: still the leased row of     *)
(* this run.  The lease's end is not looked at.                            *)
HoldsLease(p) ==
  LET r == row[Event(p)] IN
  r.status = "LEASED" /\ WorkerId[r.token] = WorkerId[p] /\ r.token = p

Released(r, status, due) ==
  [r EXCEPT !.status = status, !.due = due, !.token = Nobody, !.until = 0]

(* A lease: one attempt more, a new token, and the time it ends. *)
Leased(r, p, now) ==
  [status |-> "LEASED", attempts |-> r.attempts + 1, due |-> r.due, token |-> p,
   until |-> now + LeaseTime, place |-> r.place]

(* Mutated form: a later event may jump over a missing one. *)
Expected_AnyLater(o, n) == n > head[o].sequence
(* The subscriber takes the event after the head; no head stands for 0.    *)
Expected(o, n) == n = head[o].sequence + 1

NotBackwards(o, now) == head[o].sequence > 0 => head[o].at <= now

Recorded(e) == e \in inbox

-----------------------------------------------------------------------------

Init ==
  /\ clock = 0
  /\ history \in [Orders -> Prior]
  /\ row = [e \in Events |-> AbsentRow]
  /\ baseline = [o \in Orders |-> 0]
  /\ inbox = {}
  /\ head = [o \in Orders |-> [sequence |-> 0, at |-> 0]]
  /\ checkpoint = [i \in WorkerIds |-> 0]
  /\ run = [p \in Processes |-> IdleRun]

(* append_v3_transition_outbox, at the end of the canonical transaction of *)
(* the order's next transition.  A refused append rolls the transition     *)
(* back.  Inserts of different orders need not commit in the order of      *)
(* their outbox_sequence.                                                  *)
Append(o) ==
  LET n == history[o] + 1 IN
  /\ n \in Sequences
  /\ n > baseline[o] /\ n = Tail(o) + 1
  /\ \E place \in 1..MaxPlace :
       /\ \A e \in Events : row[e].place # place
       /\ \A m \in Appended(o) : row[<<o, m>>].place < place
       /\ row' = [row EXCEPT ![<<o, n>>] =
                    [AbsentRow EXCEPT !.status = "PENDING", !.due = clock,
                                      !.place = place]]
  /\ history' = [history EXCEPT ![o] = n]
  /\ UNCHANGED <<clock, baseline, inbox, head, checkpoint, run>>

(* register_v3_projection_order_baseline: once per order, before its first *)
(* outbox row; a repetition changes nothing.                               *)
RegisterBaseline(o) ==
  /\ baseline[o] = 0
  /\ Appended(o) = {}
  /\ \E n \in Baselines : baseline' = [baseline EXCEPT ![o] = n]
  /\ UNCHANGED <<clock, history, row, inbox, head, checkpoint, run>>

(* lease_v3_projection_outbox: the first due event whose predecessors are  *)
(* all published.                                                          *)
Lease(p) ==
  /\ Idle(p)
  /\ \E now \in (clock - Skew)..clock, e \in Events :
       /\ e \in Candidates(now)
       /\ row' = [row EXCEPT ![e] = Leased(@, p, now)]
       /\ run' = [run EXCEPT ![p] =
                    [phase |-> "leased", order |-> e[1], sequence |-> e[2],
                     attempts |-> row[e].attempts + 1, now |-> now]]
  /\ UNCHANGED <<clock, history, baseline, inbox, head, checkpoint>>

(* apply_v3_execution_projection: a recorded event is confirmed without    *)
(* effect, the next one is recorded and moves the plan's head.  The commit *)
(* may have happened and still be reported to the worker as an error.      *)
Accepts(p) ==
  \/ Recorded(Event(p)) /\ run[p].sequence <= head[run[p].order].sequence
  \/ /\ ~Recorded(Event(p))
     /\ NotBackwards(run[p].order, run[p].now)
     /\ Expected(run[p].order, run[p].sequence)

Apply(p) ==
  /\ run[p].phase = "leased"
  /\ Accepts(p)
  /\ inbox' = inbox \cup {Event(p)}
  /\ head' = IF Recorded(Event(p)) THEN head
             ELSE [head EXCEPT ![run[p].order] =
                     [sequence |-> run[p].sequence, at |-> run[p].now]]
  /\ \E outcome \in {"applied", "failed"} :
       run' = [run EXCEPT ![p].phase = outcome]
  /\ UNCHANGED <<clock, history, row, baseline, checkpoint>>

(* The subscriber refuses the event, or its transaction fails. *)
ApplyFails(p) ==
  /\ run[p].phase = "leased"
  /\ run' = [run EXCEPT ![p].phase = "failed"]
  /\ UNCHANGED <<clock, history, row, baseline, inbox, head, checkpoint>>

(* _acknowledge_projection; when the CAS fails the run ends with an error. *)
Acknowledge(p) ==
  LET place == row[Event(p)].place  i == WorkerId[p] IN
  /\ run[p].phase = "applied"
  /\ IF HoldsLease(p)
     THEN /\ row' = [row EXCEPT ![Event(p)] = Released(@, "PUBLISHED", @.due)]
          /\ checkpoint' = [checkpoint EXCEPT ![i] = IF place > @ THEN place ELSE @]
     ELSE UNCHANGED <<row, checkpoint>>
  /\ run' = [run EXCEPT ![p] = IdleRun]
  /\ UNCHANGED <<clock, history, baseline, inbox, head>>

(* _record_projection_failure: retry later, or give up after MaxAttempts.  *)
RecordFailure(p) ==
  /\ run[p].phase = "failed"
  /\ row' = IF HoldsLease(p)
            THEN [row EXCEPT ![Event(p)] =
                    Released(@, IF run[p].attempts >= MaxAttempts
                                THEN "DEAD_LETTER" ELSE "PENDING",
                             run[p].now + RetryDelay)]
            ELSE row
  /\ run' = [run EXCEPT ![p] = IdleRun]
  /\ UNCHANGED <<clock, history, baseline, inbox, head, checkpoint>>

(* requeue_v3_projection_dead_letter. *)
Requeue(e) ==
  /\ row[e].status = "DEAD_LETTER"
  /\ row' = [row EXCEPT ![e] = [Released(@, "PENDING", clock) EXCEPT !.attempts = 0]]
  /\ UNCHANGED <<clock, history, baseline, inbox, head, checkpoint, run>>

(* A process stops between two transactions of its run, or a transaction   *)
(* of the outbox database fails and the run ends with that error.          *)
Stop(p) ==
  /\ ~Idle(p)
  /\ run' = [run EXCEPT ![p] = IdleRun]
  /\ UNCHANGED <<clock, history, row, baseline, inbox, head, checkpoint>>

Tick ==
  /\ clock < Horizon
  /\ clock' = clock + 1
  /\ UNCHANGED <<history, row, baseline, inbox, head, checkpoint, run>>

Work(p) == Apply(p) \/ ApplyFails(p) \/ Acknowledge(p) \/ RecordFailure(p)

Next ==
  \/ \E o \in Orders : Append(o) \/ RegisterBaseline(o)
  \/ \E p \in Processes : Lease(p) \/ Work(p) \/ Stop(p)
  \/ \E e \in Events : Requeue(e)
  \/ Tick

Spec == Init /\ [][Next]_vars

(* A process goes on with its run unless it stops, some process keeps      *)
(* polling, and time passes.                                               *)
FairSpec ==
  /\ Spec
  /\ WF_vars(\E p \in Processes : Lease(p))
  /\ \A p \in Processes : WF_vars(Work(p))
  /\ WF_vars(Tick)

-----------------------------------------------------------------------------
(* Properties *)

TypeOK ==
  /\ clock \in Nat
  /\ history \in [Orders -> Nat]
  /\ row \in [Events -> Row]
  /\ baseline \in [Orders -> Nat]
  /\ inbox \subseteq Events
  /\ head \in [Orders -> [sequence: Nat, at: Int]]
  /\ checkpoint \in [WorkerIds -> Nat]
  /\ run \in [Processes -> Run]

(* Behind the first unpublished event of an order nothing is touched: no   *)
(* lease, retry, expiry or requeue ever lets a later event overtake it.    *)
NothingOvertakes ==
  \A o \in Orders : \A n \in Appended(o) :
    ~((baseline[o] + 1)..(n - 1) \subseteq Published(o)) =>
      /\ row[<<o, n>>].status = "PENDING"
      /\ row[<<o, n>>].attempts = 0

(* An event a worker may lease is one the subscriber can accept: recorded  *)
(* already or the next one after the head (the baseline is a "cut-over     *)
(* point for an existing order").                                          *)
LeasedIsNext ==
  \A e \in Events :
    row[e].status = "LEASED" => Recorded(e) \/ Expected(e[1], e[2])

(* The read model's inbox is exactly the prefix of the order's history up  *)
(* to the head, and never runs ahead of the canonical orders.              *)
InboxIsHistory ==
  \A o \in Orders :
    /\ {n \in Sequences : <<o, n>> \in inbox} = 1..head[o].sequence
    /\ head[o].sequence <= history[o]

(* Only the run that holds the latest lease of a row settles it, and only  *)
(* as its own outcome says: a run that was overtaken while it stalled, was *)
(* restarted under the same worker_id, or answers late changes nothing.    *)
OnlyTheLeaseSettles ==
  [][\A e \in Events :
       row[e].status = "LEASED" /\ row'[e].status # "LEASED" =>
         LET p == row[e].token IN
         /\ Event(p) = e /\ run'[p] = IdleRun
         /\ run[p].phase = IF row'[e].status = "PUBLISHED" THEN "applied" ELSE "failed"
    ]_vars

(* Every appended event is published or given up, unless one before it was *)
(* given up or it waits for a time after the bound: a stopped worker or a  *)
(* lost acknowledgement never strands it.                                  *)
Blocked(o, n) ==
  \E m \in Appended(o) :
    /\ m <= n
    /\ \/ row[<<o, m>>].status = "DEAD_LETTER"
       \/ row[<<o, m>>].status = "PENDING" /\ row[<<o, m>>].due > Horizon
       \/ row[<<o, m>>].status = "LEASED" /\ row[<<o, m>>].until > Horizon
EveryEventSettles ==
  \A o \in Orders : \A n \in Sequences :
    row[<<o, n>>].status # "ABSENT" ~>
      row[<<o, n>>].status = "PUBLISHED" \/ Blocked(o, n)

(* The outbox implements in-order, exactly-once delivery.  Published is    *)
(* counted as the prefix without a gap.                                    *)
PublishedPrefix(o) ==
  Cardinality({n \in Sequences : 1..n \subseteq Published(o)})

Delivery == INSTANCE InOrderDelivery WITH
  appended  <- [o \in Orders |-> Cardinality(Appended(o))],
  delivered <- [o \in Orders |-> head[o].sequence],
  confirmed <- [o \in Orders |-> PublishedPrefix(o)]

ImplementsInOrderDelivery == Delivery!Spec
=============================================================================
