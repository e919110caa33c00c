----------------------- MODULE ProjectionOutboxProofs -----------------------
(***************************************************************************)
(* Proofs about ProjectionOutbox, for any number of orders, events and     *)
(* worker processes, any lease time and any lag of a worker's clock.       *)
(***************************************************************************)
EXTENDS ProjectionOutbox, FiniteSetTheorems, TLAPS

USE OutboxAssumption DEF OutboxAssumption

(* Rows are what has been appended, and a run has one of them in hand. *)
AppendedIsOld == \A o \in Orders : \A n \in Appended(o) : n <= history[o]
RunHasRow == \A p \in Processes : ~Idle(p) => row[Event(p)].status # "ABSENT"
OutboxInv == TypeOK /\ AppendedIsOld /\ RunHasRow /\ NothingOvertakes /\ InboxIsHistory

LEMMA IdleRunType == IdleRun \in Run
<1>1. (CHOOSE o \in Orders : TRUE) \in Orders
  OBVIOUS
<1>2. 1 \in Sequences
  BY DEF Sequences
<1> QED BY <1>1, <1>2 DEF IdleRun, Run

(* What the release of a row and a lease write. *)
LEMMA ReleasedType ==
  ASSUME NEW r \in Row, NEW status \in Statuses, NEW due \in Int
  PROVE  /\ Released(r, status, due) \in Row
         /\ Released(r, status, due).status = status
         /\ Released(r, status, due).attempts = r.attempts
<1>1. Released(r, status, due).status = status
  BY DEF Released, Row
<1>2. Released(r, status, due).attempts = r.attempts
  BY DEF Released, Row
<1>3. /\ \A x \in Row : [x EXCEPT !.status = status] \in Row /\ [x EXCEPT !.due = due] \in Row
      /\ \A x \in Row : [x EXCEPT !.token = Nobody] \in Row /\ [x EXCEPT !.until = 0] \in Row
  BY DEF Row
<1>4. Released(r, status, due) =
        [[[[r EXCEPT !.status = status] EXCEPT !.due = due] EXCEPT !.token = Nobody]
           EXCEPT !.until = 0]
  BY DEF Released
<1> QED BY <1>1, <1>2, <1>3, <1>4

LEMMA AbsentRowType == AbsentRow \in Row
  BY DEF AbsentRow, Row, Statuses

LEMMA EventOfRun ==
  ASSUME TypeOK, NEW p \in Processes
  PROVE  /\ Event(p) \in Events /\ row[Event(p)] \in Row
         /\ run[p].order \in Orders /\ run[p].sequence \in Sequences
         /\ run[p].now \in Int /\ run[p].attempts \in Nat
<1>1. /\ run[p].order \in Orders /\ run[p].sequence \in Sequences
      /\ run[p].now \in Int /\ run[p].attempts \in Nat
  BY DEF TypeOK, Run
<1> QED BY <1>1 DEF TypeOK, Event, Events

LEMMA InitOutbox == Init => OutboxInv
<1> SUFFICES ASSUME Init PROVE OutboxInv
  OBVIOUS
<1>1. TypeOK
  <2>1. history \in [Orders -> Nat] /\ clock \in Nat /\ inbox \subseteq Events
    BY DEF Init
  <2>2. row \in [Events -> Row] /\ run \in [Processes -> Run]
    BY IdleRunType, AbsentRowType DEF Init
  <2>3. baseline \in [Orders -> Nat] /\ checkpoint \in [WorkerIds -> Nat]
    BY DEF Init
  <2>4. head \in [Orders -> [sequence: Nat, at: Int]]
    BY DEF Init
  <2> QED BY <2>1, <2>2, <2>3, <2>4 DEF TypeOK
<1>2. AppendedIsOld /\ NothingOvertakes
  BY DEF Init, AppendedIsOld, NothingOvertakes, Appended, AbsentRow, Events
<1>3. RunHasRow
  BY DEF Init, RunHasRow, Idle, IdleRun
<1>4. InboxIsHistory
  <2> SUFFICES ASSUME NEW o \in Orders
               PROVE  {n \in Sequences : <<o, n>> \in inbox} = 1..head[o].sequence
                      /\ head[o].sequence <= history[o]
    BY DEF InboxIsHistory
  <2>1. head[o].sequence = 0 /\ history[o] \in Nat /\ inbox = {}
    BY DEF Init
  <2> QED BY <2>1
<1> QED BY <1>1, <1>2, <1>3, <1>4 DEF OutboxInv

-----------------------------------------------------------------------------
(* Rows *)

LEMMA PairOfEvent ==
  ASSUME NEW e \in Events
  PROVE  e[1] \in Orders /\ e[2] \in Sequences /\ e = <<e[1], e[2]>>
  BY DEF Events

(* What was leased or settled once had its predecessors published. *)
LEMMA TouchedIsReady ==
  ASSUME NothingOvertakes, NEW e \in Events, row[e].status \notin {"ABSENT", "PENDING"}
  PROVE  PredecessorsDone(e[1], e[2])
  BY PairOfEvent DEF NothingOvertakes, Appended, PredecessorsDone

(* A write to a row whose predecessors are published takes nothing back. *)
LEMMA WriteKeeps ==
  ASSUME OutboxInv, NEW e \in Events, NEW r \in Row, row' = [row EXCEPT ![e] = r],
         row[e].status \notin {"ABSENT", "PUBLISHED"}, r.status # "ABSENT",
         PredecessorsDone(e[1], e[2]), UNCHANGED <<history, baseline>>
  PROVE  /\ row' \in [Events -> Row] /\ AppendedIsOld' /\ NothingOvertakes'
         /\ \A f \in Events : row[f].status # "ABSENT" => row'[f].status # "ABSENT"
<1>1. row' \in [Events -> Row] /\ row'[e] = r /\ \A f \in Events \ {e} : row'[f] = row[f]
  BY DEF OutboxInv, TypeOK
<1>2. \A f \in Events : row[f].status # "ABSENT" <=> row'[f].status # "ABSENT"
  BY <1>1
<1>3. \A o \in Orders : Appended(o)' = Appended(o)
  BY <1>2 DEF Appended, Events
<1>4. \A o \in Orders : Published(o) \subseteq Published(o)'
  BY <1>1 DEF Published, Events
<1>5. AppendedIsOld'
  BY <1>3 DEF OutboxInv, AppendedIsOld
<1>6. NothingOvertakes'
  <2> SUFFICES ASSUME NEW o \in Orders, NEW n \in Appended(o)',
                      ~((baseline[o] + 1)..(n - 1) \subseteq Published(o)')
               PROVE  row'[<<o, n>>].status = "PENDING" /\ row'[<<o, n>>].attempts = 0
    BY DEF NothingOvertakes
  <2>1. n \in Appended(o) /\ <<o, n>> \in Events
    BY <1>3 DEF Appended, Events
  <2>2. ~((baseline[o] + 1)..(n - 1) \subseteq Published(o))
    BY <1>4
  <2>3. <<o, n>> # e
    BY <2>2 DEF PredecessorsDone
  <2> QED BY <1>1, <2>1, <2>2, <2>3 DEF OutboxInv, NothingOvertakes
<1> QED BY <1>1, <1>2, <1>5, <1>6

(* Releasing the row a run holds, or leaving a row it lost. *)
LEMMA SettleKeeps ==
  ASSUME OutboxInv, NEW p \in Processes, NEW status \in Statuses \ {"ABSENT"}, NEW due \in Int,
         row' = IF HoldsLease(p)
                THEN [row EXCEPT ![Event(p)] = Released(row[Event(p)], status, due)] ELSE row,
         UNCHANGED <<history, baseline>>
  PROVE  /\ row' \in [Events -> Row] /\ AppendedIsOld' /\ NothingOvertakes'
         /\ \A f \in Events : row[f].status # "ABSENT" => row'[f].status # "ABSENT"
<1>1. CASE HoldsLease(p)
  <2>1. Event(p) \in Events /\ row[Event(p)] \in Row
    BY EventOfRun DEF OutboxInv
  <2>2. row[Event(p)].status = "LEASED"
    BY <1>1 DEF HoldsLease
  <2>3. PredecessorsDone(Event(p)[1], Event(p)[2])
    BY <2>1, <2>2, TouchedIsReady DEF OutboxInv
  <2>4. Released(row[Event(p)], status, due) \in Row
        /\ Released(row[Event(p)], status, due).status = status
    BY <2>1, ReleasedType
  <2> QED BY <1>1, <2>1, <2>2, <2>3, <2>4, WriteKeeps
<1>2. CASE ~HoldsLease(p)
  BY <1>2 DEF OutboxInv, TypeOK, AppendedIsOld, NothingOvertakes, Appended, Published
<1> QED BY <1>1, <1>2

LEMMA RowsSame ==
  ASSUME OutboxInv, UNCHANGED <<row, history, baseline>>
  PROVE  /\ row' \in [Events -> Row] /\ AppendedIsOld' /\ NothingOvertakes'
         /\ \A f \in Events : row[f].status # "ABSENT" => row'[f].status # "ABSENT"
  BY DEF OutboxInv, TypeOK, AppendedIsOld, NothingOvertakes, Appended, Published

(* A run ends, or goes on with the row it has. *)
LEMMA RunKept ==
  ASSUME OutboxInv, NEW p \in Processes,
         \/ run' = [run EXCEPT ![p] = IdleRun]
         \/ \E phase \in {"applied", "failed"} : ~Idle(p) /\ run' = [run EXCEPT ![p].phase = phase],
         \A f \in Events : row[f].status # "ABSENT" => row'[f].status # "ABSENT"
  PROVE  run' \in [Processes -> Run] /\ RunHasRow'
<1>1. CASE run' = [run EXCEPT ![p] = IdleRun]
  <2>1. run' \in [Processes -> Run]
    BY <1>1, IdleRunType DEF OutboxInv, TypeOK
  <2>2. \A q \in Processes : ~Idle(q)' => ~Idle(q) /\ Event(q)' = Event(q)
    BY <1>1 DEF OutboxInv, TypeOK, Idle, IdleRun, Event
  <2>3. \A q \in Processes : Event(q) \in Events
    BY EventOfRun DEF OutboxInv
  <2> QED BY <2>1, <2>2, <2>3 DEF OutboxInv, RunHasRow
<1>2. CASE \E phase \in {"applied", "failed"} : ~Idle(p) /\ run' = [run EXCEPT ![p].phase = phase]
  <2>4. PICK phase \in {"applied", "failed"} : ~Idle(p) /\ run' = [run EXCEPT ![p].phase = phase]
    BY <1>2
  <2>5. run \in [Processes -> Run]
    BY DEF OutboxInv, TypeOK
  <2>1. run' \in [Processes -> Run]
    <3>1. [run[p] EXCEPT !.phase = phase] \in Run
      BY <2>5 DEF Run
    <3> QED BY <2>4, <2>5, <3>1
  <2>2. ASSUME NEW q \in Processes, ~Idle(q)'
        PROVE  ~Idle(q) /\ Event(q)' = Event(q)
    <3>1. run'[q].order = run[q].order /\ run'[q].sequence = run[q].sequence
      BY <2>4, <2>5 DEF Run
    <3>2. q # p => run'[q] = run[q]
      BY <2>4, <2>5
    <3>3. ~Idle(q)
      BY <2>2, <2>4, <3>2 DEF Idle
    <3> QED BY <3>1, <3>3 DEF Event
  <2>3. \A q \in Processes : Event(q) \in Events
    BY EventOfRun DEF OutboxInv
  <2> QED BY <2>1, <2>2, <2>3 DEF OutboxInv, RunHasRow
<1> QED BY <1>1, <1>2

LEMMA RunSame ==
  ASSUME OutboxInv, UNCHANGED run,
         \A f \in Events : row[f].status # "ABSENT" => row'[f].status # "ABSENT"
  PROVE  run' \in [Processes -> Run] /\ RunHasRow'
<1>1. \A q \in Processes : Event(q)' = Event(q) /\ Event(q) \in Events /\ (Idle(q)' <=> Idle(q))
  BY EventOfRun DEF OutboxInv, Event, Idle
<1> QED BY <1>1 DEF OutboxInv, TypeOK, RunHasRow

LEMMA InboxSame ==
  ASSUME OutboxInv, UNCHANGED <<inbox, head>>, \A o \in Orders : history[o] <= history'[o],
         history' \in [Orders -> Nat]
  PROVE  InboxIsHistory' /\ inbox' \subseteq Events /\ head' \in [Orders -> [sequence: Nat, at: Int]]
<1>1. \A o \in Orders : head[o].sequence \in Nat /\ history[o] \in Nat /\ history'[o] \in Nat
  BY DEF OutboxInv, TypeOK
<1> QED BY <1>1 DEF OutboxInv, TypeOK, InboxIsHistory

-----------------------------------------------------------------------------
(* One lemma for each action *)

LEMMA AppendStep == ASSUME OutboxInv, NEW o \in Orders, Append(o) PROVE OutboxInv'
<1> USE DEF OutboxInv
<1> DEFINE n == history[o] + 1  e == <<o, n>>
<1>0. /\ n \in Sequences /\ history' = [history EXCEPT ![o] = history[o] + 1]
      /\ UNCHANGED <<clock, baseline, inbox, head, checkpoint, run>>
  BY DEF Append
<1>1. PICK place \in 1..MaxPlace :
        row' = [row EXCEPT ![e] = [AbsentRow EXCEPT !.status = "PENDING", !.due = clock, !.place = place]]
  BY DEF Append
<1> DEFINE r == [AbsentRow EXCEPT !.status = "PENDING", !.due = clock, !.place = place]
<1>2. /\ \A x \in Row : [x EXCEPT !.status = "PENDING"] \in Row
      /\ \A x \in Row : [x EXCEPT !.due = clock] \in Row /\ [x EXCEPT !.place = place] \in Row
  BY DEF Row, Statuses, TypeOK
<1>3. r \in Row /\ r.status = "PENDING" /\ r.attempts = 0
  <2>1. r = [[[AbsentRow EXCEPT !.status = "PENDING"] EXCEPT !.due = clock] EXCEPT !.place = place]
    OBVIOUS
  <2>2. r.status = "PENDING" /\ r.attempts = 0
    BY DEF AbsentRow
  <2> HIDE DEF r
  <2> QED BY <1>2, <2>1, <2>2, AbsentRowType
<1>4. e \in Events /\ history[o] \in Nat
  BY <1>0 DEF Events, TypeOK
<1>5. row[e].status = "ABSENT"
  BY <1>0, <1>4 DEF AppendedIsOld, Appended
<1> HIDE DEF r
<1>6. row' \in [Events -> Row] /\ row'[e] = r /\ \A f \in Events \ {e} : row'[f] = row[f]
  BY <1>1, <1>3, <1>4 DEF TypeOK, r
<1>7. \A f \in Events : row[f].status # "ABSENT" => row'[f].status # "ABSENT"
  BY <1>3, <1>6
<1>8. history' \in [Orders -> Nat] /\ \A x \in Orders : history[x] <= history'[x]
  BY <1>0, <1>4 DEF TypeOK
<1>9. AppendedIsOld'
  <2> SUFFICES ASSUME NEW x \in Orders, NEW m \in Sequences, row'[<<x, m>>].status # "ABSENT"
               PROVE  m <= history'[x]
    BY DEF AppendedIsOld, Appended
  <2>1. CASE <<x, m>> = e
    BY <1>0, <1>4, <2>1 DEF TypeOK
  <2>2. CASE <<x, m>> # e
    <3>1. row[<<x, m>>].status # "ABSENT"
      BY <1>6, <2>2 DEF Events
    <3>2. m <= history[x] /\ history[x] \in Nat /\ history'[x] \in Nat /\ m \in Nat
      BY <1>8, <3>1 DEF AppendedIsOld, Appended, Sequences, TypeOK
    <3> QED BY <1>8, <3>2
  <2> QED BY <2>1, <2>2
<1>10. NothingOvertakes'
  <2> SUFFICES ASSUME NEW x \in Orders, NEW m \in Sequences, row'[<<x, m>>].status # "ABSENT",
                      ~((baseline[x] + 1)..(m - 1) \subseteq Published(x)')
               PROVE  row'[<<x, m>>].status = "PENDING" /\ row'[<<x, m>>].attempts = 0
    BY <1>0 DEF NothingOvertakes, Appended
  <2>1. CASE <<x, m>> = e
    BY <1>3, <1>6, <2>1
  <2>2. CASE <<x, m>> # e
    <3>1. row'[<<x, m>>] = row[<<x, m>>]
      BY <1>6, <2>2 DEF Events
    <3>2. Published(x) \subseteq Published(x)'
      BY <1>5, <1>6 DEF Published, Events
    <3> QED BY <3>1, <3>2 DEF NothingOvertakes, Appended
  <2> QED BY <2>1, <2>2
<1>11. run' \in [Processes -> Run] /\ RunHasRow'
  BY <1>0, <1>7, RunSame
<1>12. InboxIsHistory' /\ inbox' \subseteq Events /\ head' \in [Orders -> [sequence: Nat, at: Int]]
  BY <1>0, <1>8, InboxSame
<1>13. TypeOK'
  BY <1>0, <1>6, <1>8, <1>11, <1>12 DEF TypeOK
<1> QED BY <1>9, <1>10, <1>11, <1>12, <1>13

LEMMA BaselineStep == ASSUME OutboxInv, NEW o \in Orders, RegisterBaseline(o) PROVE OutboxInv'
<1> USE DEF OutboxInv
<1>0. Appended(o) = {} /\ UNCHANGED <<clock, history, row, inbox, head, checkpoint, run>>
  BY DEF RegisterBaseline
<1>1. PICK n \in Baselines : baseline' = [baseline EXCEPT ![o] = n]
  BY DEF RegisterBaseline
<1>2. baseline' \in [Orders -> Nat] /\ \A x \in Orders \ {o} : baseline'[x] = baseline[x]
  BY <1>1 DEF TypeOK
<1>3. TypeOK'
  BY <1>0, <1>2 DEF TypeOK
<1>4. AppendedIsOld' /\ RunHasRow' /\ InboxIsHistory'
  BY <1>0 DEF AppendedIsOld, Appended, RunHasRow, Idle, Event, InboxIsHistory
<1>5. NothingOvertakes'
  BY <1>0, <1>2 DEF NothingOvertakes, Appended, Published
<1> QED BY <1>3, <1>4, <1>5

LEMMA LeaseStep == ASSUME OutboxInv, NEW p \in Processes, Lease(p) PROVE OutboxInv'
<1> USE DEF OutboxInv
<1>0. UNCHANGED <<clock, history, baseline, inbox, head, checkpoint>>
  BY DEF Lease
<1>1. PICK now \in (clock - Skew)..clock, e \in Events :
        /\ e \in Candidates(now)
        /\ row' = [row EXCEPT ![e] = Leased(@, p, now)]
        /\ run' = [run EXCEPT ![p] =
                     [phase |-> "leased", order |-> e[1], sequence |-> e[2],
                      attempts |-> row[e].attempts + 1, now |-> now]]
  BY DEF Lease
<1> DEFINE r == Leased(row[e], p, now)
<1>2. row[e] \in Row /\ now \in Int /\ row[e].attempts + 1 \in Nat
  BY DEF TypeOK, Row
<1>3. r \in Row /\ r.status = "LEASED"
  BY <1>2 DEF Row, Statuses, Leased
<1>4. /\ row[e].status \in {"PENDING", "LEASED"} /\ PredecessorsDone(e[1], e[2])
  BY <1>1 DEF Candidates, Due
<1>5. row' = [row EXCEPT ![e] = r]
  BY <1>1
<1> HIDE DEF r
<1>6. /\ row' \in [Events -> Row] /\ AppendedIsOld' /\ NothingOvertakes'
      /\ \A f \in Events : row[f].status # "ABSENT" => row'[f].status # "ABSENT"
  BY <1>0, <1>3, <1>4, <1>5, WriteKeeps
<1>7. [phase |-> "leased", order |-> e[1], sequence |-> e[2],
       attempts |-> row[e].attempts + 1, now |-> now] \in Run
  BY <1>2, PairOfEvent DEF Run
<1>8. /\ run' \in [Processes -> Run]
      /\ run'[p].order = e[1] /\ run'[p].sequence = e[2]
      /\ \A q \in Processes \ {p} : run'[q] = run[q]
  BY <1>1, <1>7 DEF TypeOK
<1>9. RunHasRow'
  <2> SUFFICES ASSUME NEW q \in Processes, ~Idle(q)'
               PROVE  row'[<<run'[q].order, run'[q].sequence>>].status # "ABSENT"
    BY DEF RunHasRow, Event
  <2>1. CASE q = p
    BY <1>4, <1>6, <1>8, <2>1, PairOfEvent
  <2>2. CASE q # p
    <3>1. run'[q] = run[q] /\ ~Idle(q)
      BY <1>8, <2>2 DEF Idle
    <3>2. Event(q) \in Events /\ row[Event(q)].status # "ABSENT"
      BY <3>1, EventOfRun DEF RunHasRow
    <3> QED BY <1>6, <3>1, <3>2 DEF Event
  <2> QED BY <2>1, <2>2
<1>10. InboxIsHistory' /\ inbox' \subseteq Events /\ head' \in [Orders -> [sequence: Nat, at: Int]]
  BY <1>0 DEF TypeOK, InboxIsHistory
<1> QED BY <1>0, <1>6, <1>8, <1>9, <1>10 DEF TypeOK

(* The next event after the head is recorded, which is one of the order.   *)
LEMMA ApplyStep == ASSUME OutboxInv, NEW p \in Processes, Apply(p) PROVE OutboxInv'
<1> USE DEF OutboxInv
<1> DEFINE o == run[p].order  n == run[p].sequence
<1>0. /\ run[p].phase = "leased" /\ Accepts(p) /\ inbox' = inbox \cup {Event(p)}
      /\ head' = IF Recorded(Event(p)) THEN head
                 ELSE [head EXCEPT ![o] = [sequence |-> n, at |-> run[p].now]]
      /\ UNCHANGED <<clock, history, row, baseline, checkpoint>>
  BY DEF Apply
<1>1. /\ row' \in [Events -> Row] /\ AppendedIsOld' /\ NothingOvertakes'
      /\ \A f \in Events : row[f].status # "ABSENT" => row'[f].status # "ABSENT"
  BY <1>0, RowsSame
<1>2. run' \in [Processes -> Run] /\ RunHasRow'
  <2>1. ~Idle(p) /\ \E phase \in {"applied", "failed"} : run' = [run EXCEPT ![p].phase = phase]
    BY DEF Apply, Idle
  <2> QED BY <1>1, <2>1, RunKept
<1>3. /\ o \in Orders /\ n \in Sequences /\ run[p].now \in Int /\ Event(p) \in Events
      /\ Event(p) = <<o, n>>
  BY EventOfRun DEF Event
<1>4. inbox' \subseteq Events /\ head' \in [Orders -> [sequence: Nat, at: Int]]
  <2>1. [sequence |-> n, at |-> run[p].now] \in [sequence: Nat, at: Int]
    BY <1>3 DEF Sequences
  <2> QED BY <1>0, <1>3, <2>1 DEF TypeOK
<1>5. InboxIsHistory'
  <2>1. CASE Recorded(Event(p))
    <3>1. inbox' = inbox /\ head' = head /\ history' = history
      BY <1>0, <2>1 DEF Recorded
    <3> QED BY <3>1 DEF InboxIsHistory
  <2>2. CASE ~Recorded(Event(p))
    <3>1. n = head[o].sequence + 1
      BY <1>0, <2>2 DEF Accepts, Expected
    <3>2. n <= history[o]
      BY <1>0, <1>3 DEF RunHasRow, Idle, AppendedIsOld, Appended
    <3>3. /\ head'[o].sequence = n /\ \A x \in Orders \ {o} : head'[x] = head[x]
      BY <1>0, <1>3, <2>2 DEF TypeOK
    <3> SUFFICES ASSUME NEW x \in Orders
                 PROVE  /\ {m \in Sequences : <<x, m>> \in inbox'} = 1..head'[x].sequence
                        /\ head'[x].sequence <= history'[x]
      BY DEF InboxIsHistory
    <3>4. {m \in Sequences : <<x, m>> \in inbox} = 1..head[x].sequence
          /\ head[x].sequence <= history[x] /\ head[x].sequence \in Nat
      BY DEF InboxIsHistory, TypeOK
    <3>5. CASE x = o
      <4>1. {m \in Sequences : <<x, m>> \in inbox'}
              = {m \in Sequences : <<x, m>> \in inbox} \cup {n}
        BY <1>0, <1>3, <3>5
      <4>2. 1..n = 1..head[x].sequence \cup {n}
        BY <3>1, <3>4, <3>5
      <4> QED BY <1>0, <3>2, <3>3, <3>4, <3>5, <4>1, <4>2
    <3>6. CASE x # o
      <4>1. {m \in Sequences : <<x, m>> \in inbox'} = {m \in Sequences : <<x, m>> \in inbox}
        BY <1>0, <1>3, <3>6
      <4> QED BY <1>0, <3>3, <3>4, <3>6, <4>1
    <3> QED BY <3>5, <3>6
  <2> QED BY <2>1, <2>2
<1> QED BY <1>0, <1>1, <1>2, <1>4, <1>5 DEF TypeOK

LEMMA FailStep == ASSUME OutboxInv, NEW p \in Processes, ApplyFails(p) \/ Stop(p) PROVE OutboxInv'
<1> USE DEF OutboxInv
<1>0. UNCHANGED <<clock, history, row, baseline, inbox, head, checkpoint>>
  BY DEF ApplyFails, Stop
<1>1. /\ row' \in [Events -> Row] /\ AppendedIsOld' /\ NothingOvertakes'
      /\ \A f \in Events : row[f].status # "ABSENT" => row'[f].status # "ABSENT"
  BY <1>0, RowsSame
<1>2. run' \in [Processes -> Run] /\ RunHasRow'
  <2>1. \/ run' = [run EXCEPT ![p] = IdleRun]
        \/ \E phase \in {"applied", "failed"} : ~Idle(p) /\ run' = [run EXCEPT ![p].phase = phase]
    BY DEF ApplyFails, Stop, Idle
  <2> QED BY <1>1, <2>1, RunKept
<1> QED BY <1>0, <1>1, <1>2 DEF TypeOK, InboxIsHistory

LEMMA AcknowledgeStep == ASSUME OutboxInv, NEW p \in Processes, Acknowledge(p) PROVE OutboxInv'
<1> USE DEF OutboxInv
<1> DEFINE place == row[Event(p)].place  i == WorkerId[p]
<1>0. /\ run' = [run EXCEPT ![p] = IdleRun]
      /\ UNCHANGED <<clock, history, baseline, inbox, head>>
  BY DEF Acknowledge
<1>1. row[Event(p)] \in Row /\ i \in WorkerIds
  BY EventOfRun DEF WorkerIds
<1>2. /\ row' \in [Events -> Row] /\ AppendedIsOld' /\ NothingOvertakes'
      /\ \A f \in Events : row[f].status # "ABSENT" => row'[f].status # "ABSENT"
  <2>1. row[Event(p)].due \in Int /\ "PUBLISHED" \in Statuses \ {"ABSENT"}
    BY <1>1 DEF Row, Statuses
  <2>2. row' = IF HoldsLease(p)
               THEN [row EXCEPT ![Event(p)] = Released(row[Event(p)], "PUBLISHED", row[Event(p)].due)]
               ELSE row
    BY DEF Acknowledge
  <2> QED BY <1>0, <2>1, <2>2, SettleKeeps
<1>3. checkpoint' \in [WorkerIds -> Nat]
  <2>1. place \in Nat
    BY <1>1 DEF Row
  <2>2. \/ UNCHANGED checkpoint
        \/ checkpoint' = [checkpoint EXCEPT ![i] = place]
        \/ checkpoint' = [checkpoint EXCEPT ![i] = checkpoint[i]]
    BY DEF Acknowledge
  <2> QED BY <1>1, <2>1, <2>2 DEF TypeOK
<1>4. run' \in [Processes -> Run] /\ RunHasRow'
  BY <1>0, <1>2, RunKept
<1> QED BY <1>0, <1>2, <1>3, <1>4 DEF TypeOK, InboxIsHistory

LEMMA RecordFailureStep == ASSUME OutboxInv, NEW p \in Processes, RecordFailure(p) PROVE OutboxInv'
<1> USE DEF OutboxInv
<1>0. /\ run' = [run EXCEPT ![p] = IdleRun]
      /\ UNCHANGED <<clock, history, baseline, inbox, head, checkpoint>>
  BY DEF RecordFailure
<1> DEFINE status == IF run[p].attempts >= MaxAttempts THEN "DEAD_LETTER" ELSE "PENDING"
<1>1. status \in Statuses \ {"ABSENT"} /\ run[p].now + RetryDelay \in Int
  BY EventOfRun DEF Statuses
<1>2. row' = IF HoldsLease(p)
             THEN [row EXCEPT ![Event(p)] = Released(row[Event(p)], status, run[p].now + RetryDelay)]
             ELSE row
  BY DEF RecordFailure
<1> HIDE DEF status
<1>3. /\ row' \in [Events -> Row] /\ AppendedIsOld' /\ NothingOvertakes'
      /\ \A f \in Events : row[f].status # "ABSENT" => row'[f].status # "ABSENT"
  BY <1>0, <1>1, <1>2, SettleKeeps
<1>4. run' \in [Processes -> Run] /\ RunHasRow'
  BY <1>0, <1>3, RunKept
<1> QED BY <1>0, <1>3, <1>4 DEF TypeOK, InboxIsHistory

LEMMA RequeueStep == ASSUME OutboxInv, NEW e \in Events, Requeue(e) PROVE OutboxInv'
<1> USE DEF OutboxInv
<1> DEFINE q == Released(row[e], "PENDING", clock)  r == [q EXCEPT !.attempts = 0]
<1>0. /\ row[e].status = "DEAD_LETTER" /\ row' = [row EXCEPT ![e] = r]
      /\ UNCHANGED <<clock, history, baseline, inbox, head, checkpoint, run>>
  BY DEF Requeue
<1>1. row[e] \in Row /\ "PENDING" \in Statuses /\ clock \in Int
  BY DEF TypeOK, Statuses
<1>2. q \in Row /\ q.status = "PENDING"
  BY <1>1, ReleasedType
<1> HIDE DEF q
<1>3. r \in Row /\ r.status = "PENDING"
  BY <1>2 DEF Row
<1>4. PredecessorsDone(e[1], e[2])
  BY <1>0, TouchedIsReady
<1> HIDE DEF r
<1>5. /\ row' \in [Events -> Row] /\ AppendedIsOld' /\ NothingOvertakes'
      /\ \A f \in Events : row[f].status # "ABSENT" => row'[f].status # "ABSENT"
  BY <1>0, <1>3, <1>4, WriteKeeps
<1>6. run' \in [Processes -> Run] /\ RunHasRow'
  BY <1>0, <1>5, RunSame
<1> QED BY <1>0, <1>5, <1>6 DEF TypeOK, InboxIsHistory

LEMMA QuietStep == ASSUME OutboxInv, Tick \/ UNCHANGED vars PROVE OutboxInv'
<1>0. UNCHANGED <<history, row, baseline, inbox, head, checkpoint, run>> /\ clock' \in Nat
  BY DEF Tick, vars, OutboxInv, TypeOK
<1>1. TypeOK'
  BY <1>0 DEF OutboxInv, TypeOK
<1> QED BY <1>0, <1>1
        DEF OutboxInv, AppendedIsOld, RunHasRow, NothingOvertakes, InboxIsHistory, Appended, Published,
            Idle, Event
LEMMA StepOutbox == OutboxInv /\ [Next]_vars => OutboxInv'
<1> SUFFICES ASSUME OutboxInv, [Next]_vars PROVE OutboxInv'
  OBVIOUS
<1>1. ASSUME NEW o \in Orders, Append(o) PROVE OutboxInv'
  BY <1>1, AppendStep
<1>2. ASSUME NEW o \in Orders, RegisterBaseline(o) PROVE OutboxInv'
  BY <1>2, BaselineStep
<1>3. ASSUME NEW p \in Processes, Lease(p) PROVE OutboxInv'
  BY <1>3, LeaseStep
<1>4. ASSUME NEW p \in Processes, Work(p) PROVE OutboxInv'
  BY <1>4, ApplyStep, FailStep, AcknowledgeStep, RecordFailureStep DEF Work
<1>5. ASSUME NEW p \in Processes, Stop(p) PROVE OutboxInv'
  BY <1>5, FailStep
<1>6. ASSUME NEW e \in Events, Requeue(e) PROVE OutboxInv'
  BY <1>6, RequeueStep
<1>7. CASE Tick \/ UNCHANGED vars
  BY <1>7, QuietStep
<1> QED BY <1>1, <1>2, <1>3, <1>4, <1>5, <1>6, <1>7 DEF Next

LEMMA OutboxAlways == Spec => []OutboxInv
<1> QED BY InitOutbox, StepOutbox, PTL DEF Spec

(* Every state of every execution is a well-typed one, whatever the number *)
(* of workers, orders and bounds.                                          *)
THEOREM OutboxTypeCorrect == Spec => []TypeOK
<1>1. OutboxInv => TypeOK
  BY DEF OutboxInv
<1> QED BY <1>1, OutboxAlways, PTL

(* No lease, retry, expiry, dead letter or requeue lets an event of an     *)
(* order overtake one before it that is not published yet.                 *)
THEOREM InOrder == Spec => []NothingOvertakes
<1>1. OutboxInv => NothingOvertakes
  BY DEF OutboxInv
<1> QED BY <1>1, OutboxAlways, PTL

(* The events the read model has recorded of an order are the first ones   *)
(* of its canonical history, without a gap and none twice.                 *)
THEOREM InboxExact == Spec => []InboxIsHistory
<1>1. OutboxInv => InboxIsHistory
  BY DEF OutboxInv
<1> QED BY <1>1, OutboxAlways, PTL

(* What a write by process p to its own row says of a row it settles. *)
LEMMA SettledByHolder ==
  ASSUME OutboxInv, NEW p \in Processes, NEW e \in Events,
         Acknowledge(p) \/ RecordFailure(p),
         row[e].status = "LEASED", row'[e].status # "LEASED"
  PROVE  /\ row[e].token = p /\ Event(p) = e /\ run'[p] = IdleRun
         /\ run[p].phase = IF row'[e].status = "PUBLISHED" THEN "applied" ELSE "failed"
<1> USE DEF OutboxInv
<1>1. row \in [Events -> Row] /\ run \in [Processes -> Run] /\ Event(p) \in Events
  BY EventOfRun DEF TypeOK
<1>2. run'[p] = IdleRun
  BY <1>1 DEF Acknowledge, RecordFailure
<1>3. CASE Acknowledge(p)
  <2>1. HoldsLease(p) /\ Event(p) = e
    BY <1>1, <1>3 DEF Acknowledge
  <2>2. row'[e] = Released(row[e], "PUBLISHED", row[e].due)
    BY <1>1, <1>3, <2>1 DEF Acknowledge
  <2>3. row'[e].status = "PUBLISHED"
    BY <1>1, <2>2 DEF Released, Row
  <2> QED BY <1>2, <1>3, <2>1, <2>3 DEF Acknowledge, HoldsLease
<1>4. CASE RecordFailure(p)
  <2>1. HoldsLease(p) /\ Event(p) = e
    BY <1>1, <1>4 DEF RecordFailure
  <2> DEFINE status == IF run[p].attempts >= MaxAttempts THEN "DEAD_LETTER" ELSE "PENDING"
  <2>2. row'[e] = Released(row[e], status, run[p].now + RetryDelay)
    BY <1>1, <1>4, <2>1 DEF RecordFailure
  <2>3. row'[e].status = status
    BY <1>1, <2>2 DEF Released, Row
  <2> QED BY <1>2, <1>4, <2>1, <2>3 DEF RecordFailure, HoldsLease
<1> QED BY <1>3, <1>4

(* No other step takes the lease off a row. *)
LEMMA OthersKeepLeases ==
  ASSUME OutboxInv, NEW e \in Events, row[e].status = "LEASED",
         \/ \E o \in Orders : Append(o) \/ RegisterBaseline(o)
         \/ \E p \in Processes : Lease(p) \/ Apply(p) \/ ApplyFails(p) \/ Stop(p)
         \/ \E f \in Events : Requeue(f)
         \/ Tick \/ UNCHANGED vars
  PROVE  row'[e].status = "LEASED"
<1> USE DEF OutboxInv
<1>0. row \in [Events -> Row] /\ history \in [Orders -> Nat] /\ AppendedIsOld
  BY DEF TypeOK
<1>1. ASSUME NEW o \in Orders, Append(o) PROVE row'[e].status = "LEASED"
  <2> DEFINE n == history[o] + 1
  <2>1. PICK place \in 1..MaxPlace :
          row' = [row EXCEPT ![<<o, n>>] =
                    [AbsentRow EXCEPT !.status = "PENDING", !.due = clock, !.place = place]]
    BY <1>1 DEF Append
  <2>2. n \in Sequences
    BY <1>1 DEF Append
  <2>3. <<o, n>> # e
    <3> SUFFICES ASSUME <<o, n>> = e PROVE FALSE
      OBVIOUS
    <3>1. n \in Appended(o)
      BY <2>2 DEF Appended
    <3>2. n <= history[o]
      BY <1>0, <3>1 DEF AppendedIsOld
    <3> QED BY <1>0, <3>2
  <2> QED BY <1>0, <2>1, <2>3
<1>2. ASSUME NEW p \in Processes, Lease(p) PROVE row'[e].status = "LEASED"
  <2>1. PICK now \in (clock - Skew)..clock, f \in Events :
          row' = [row EXCEPT ![f] = Leased(@, p, now)]
    BY <1>2 DEF Lease
  <2> QED BY <1>0, <2>1 DEF Leased
<1>3. ASSUME NEW f \in Events, Requeue(f) PROVE row'[e].status = "LEASED"
  <2>1. f # e /\ \E r : row' = [row EXCEPT ![f] = r]
    BY <1>3 DEF Requeue
  <2> QED BY <1>0, <2>1
<1>4. ASSUME row' = row PROVE row'[e].status = "LEASED"
  BY <1>4
<1>5. ASSUME NEW o \in Orders, RegisterBaseline(o) PROVE row' = row
  BY <1>5 DEF RegisterBaseline
<1>6. ASSUME NEW p \in Processes, Apply(p) \/ ApplyFails(p) \/ Stop(p) PROVE row' = row
  BY <1>6 DEF Apply, ApplyFails, Stop
<1>7. ASSUME Tick \/ UNCHANGED vars PROVE row' = row
  BY <1>7 DEF Tick, vars
<1> QED BY <1>1, <1>2, <1>3, <1>4, <1>5, <1>6, <1>7

(* A run settles a row only while its own lease is the latest one, and as  *)
(* the outcome of its own application says: late answers, restarts under   *)
(* the same worker_id and expired leases change no row.                    *)
THEOREM OnlyLeaseSettles == Spec => OnlyTheLeaseSettles
<1> DEFINE Settled(e) ==
      row[e].status = "LEASED" /\ row'[e].status # "LEASED" =>
        LET p == row[e].token IN
        /\ Event(p) = e /\ run'[p] = IdleRun
        /\ run[p].phase = IF row'[e].status = "PUBLISHED" THEN "applied" ELSE "failed"
<1>1. OutboxInv /\ [Next]_vars => \A e \in Events : Settled(e)
  <2> SUFFICES ASSUME OutboxInv, [Next]_vars, NEW e \in Events,
                      row[e].status = "LEASED", row'[e].status # "LEASED"
               PROVE  Settled(e)
    OBVIOUS
  <2>1. \E p \in Processes : Acknowledge(p) \/ RecordFailure(p)
    BY OthersKeepLeases DEF Next, Work
  <2> QED BY <2>1, SettledByHolder
<1> QED BY <1>1, OutboxAlways, PTL DEF Spec, OnlyTheLeaseSettles

-----------------------------------------------------------------------------
(***************************************************************************)
(* The outbox and its subscriber implement InOrderDelivery, for any number *)
(* of orders, events and worker processes: counting the rows of an order,  *)
(* its head and the prefix of its published rows, every step is one of the *)
(* abstract steps of one order or none.                                    *)
(***************************************************************************)

(* What the counts rest on, beside OutboxInv: a run that applied its event *)
(* finds it in the inbox, whose events are rows, above the baseline.       *)
AppliedRecorded == \A p \in Processes : run[p].phase = "applied" => Event(p) \in inbox
InboxAppended == \A e \in inbox : row[e].status # "ABSENT"
AboveBaseline == \A o \in Orders : \A n \in Appended(o) : baseline[o] < n
CountInv == OutboxInv /\ AppliedRecorded /\ InboxAppended /\ AboveBaseline

Prefix(o) == {n \in Sequences : 1..n \subseteq Published(o)}
Counted == [o \in Orders |-> Cardinality(Appended(o))]
Delivered == [o \in Orders |-> head[o].sequence]
Confirmed == [o \in Orders |-> PublishedPrefix(o)]

SameRows == \A e \in Events : row'[e].status = "ABSENT" <=> row[e].status = "ABSENT"
SamePublished == \A e \in Events : row'[e].status = "PUBLISHED" <=> row[e].status = "PUBLISHED"

LEMMA AppendedKept == SameRows => \A o \in Orders : Appended(o)' = Appended(o)
  BY DEF SameRows, Appended, Events

LEMMA CountedKept ==
  ASSUME SameRows
  PROVE  Counted' = Counted
  BY AppendedKept DEF Counted

LEMMA ConfirmedKept ==
  ASSUME SamePublished
  PROVE  Confirmed' = Confirmed
<1>1. \A o \in Orders : Published(o)' = Published(o)
  BY DEF SamePublished, Published, Events
<1>2. \A o \in Orders : PublishedPrefix(o)' = PublishedPrefix(o)
  BY <1>1 DEF PublishedPrefix
<1> QED BY <1>2 DEF Confirmed

LEMMA Stutters ==
  ASSUME SameRows, SamePublished, UNCHANGED head
  PROVE  UNCHANGED <<Counted, Delivered, Confirmed>>
  BY CountedKept, ConfirmedKept DEF Delivered

LEMMA FiniteCounts ==
  /\ \A o \in Orders : IsFiniteSet(Appended(o)) /\ Cardinality(Appended(o)) \in Nat
  /\ \A n \in Nat : IsFiniteSet(1..n) /\ Cardinality(1..n) = n
<1>1. IsFiniteSet(Sequences)
  BY FS_Interval DEF Sequences
<1>2. \A o \in Orders : IsFiniteSet(Appended(o)) /\ Cardinality(Appended(o)) \in Nat
  BY <1>1, FS_Subset, FS_CardinalityType DEF Appended
<1>3. \A n \in Nat : IsFiniteSet(1..n) /\ Cardinality(1..n) = n
  BY FS_Interval
<1> QED BY <1>2, <1>3

(* A row that is written is still one, and an event that was applied stays *)
(* recorded.                                                               *)
LEMMA ExtrasKept ==
  ASSUME CountInv, SameRows, UNCHANGED <<inbox, baseline>>,
         \A p \in Processes : run'[p].phase = "applied" => run'[p] = run[p]
  PROVE  AppliedRecorded' /\ InboxAppended' /\ AboveBaseline'
<1>1. AppliedRecorded'
  BY DEF CountInv, AppliedRecorded, Event
<1>2. InboxAppended'
  BY DEF CountInv, OutboxInv, TypeOK, InboxAppended, SameRows
<1>3. AboveBaseline'
  BY AppendedKept DEF CountInv, AboveBaseline
<1> QED BY <1>1, <1>2, <1>3

-----------------------------------------------------------------------------
(* The canonical transaction appends. *)

LEMMA AppendMaps ==
  ASSUME CountInv, NEW o \in Orders, Append(o)
  PROVE  /\ AppliedRecorded' /\ InboxAppended' /\ AboveBaseline'
         /\ Delivery!Append(o)
<1> DEFINE n == history[o] + 1
<1>1. /\ n \in Sequences /\ <<o, n>> \in Events /\ baseline[o] < n
      /\ UNCHANGED <<baseline, inbox, head, run>>
  BY DEF Append, Events
<1>2. PICK place \in 1..MaxPlace :
        row' = [row EXCEPT ![<<o, n>>] =
                  [AbsentRow EXCEPT !.status = "PENDING", !.due = clock, !.place = place]]
  BY DEF Append
<1>3. /\ row'[<<o, n>>].status = "PENDING"
      /\ \A e \in Events : e # <<o, n>> => row'[e] = row[e]
  BY <1>1, <1>2 DEF CountInv, OutboxInv, TypeOK, AbsentRow
<1>4. row[<<o, n>>].status = "ABSENT"
  BY <1>1 DEF CountInv, OutboxInv, TypeOK, AppendedIsOld, Appended
<1>5. Appended(o)' = Appended(o) \cup {n} /\ n \notin Appended(o)
  BY <1>1, <1>3, <1>4 DEF Appended, Events
<1>6. \A x \in Orders \ {o} : Appended(x)' = Appended(x)
  BY <1>3 DEF Appended, Events
<1>7. AppliedRecorded'
  BY <1>1 DEF CountInv, AppliedRecorded, Event
<1>8. InboxAppended'
  BY <1>1, <1>3 DEF CountInv, OutboxInv, TypeOK, InboxAppended
<1>9. AboveBaseline'
  BY <1>1, <1>5, <1>6 DEF CountInv, AboveBaseline
<1>10. SamePublished
  BY <1>3, <1>4 DEF SamePublished
<1>11. Counted' = [Counted EXCEPT ![o] = @ + 1]
  <2>1. Cardinality(Appended(o)') = Cardinality(Appended(o)) + 1
    BY <1>5, FiniteCounts, FS_AddElement
  <2> QED BY <1>6, <2>1 DEF Counted
<1>12. UNCHANGED <<Delivered, Confirmed>>
  BY <1>1, <1>10, ConfirmedKept DEF Delivered
<1>13. Delivery!Append(o)
  BY <1>11, <1>12 DEF Delivery!Append, Counted, Delivered, Confirmed
<1> QED BY <1>7, <1>8, <1>9, <1>13

(* A baseline is registered before there are rows. *)
LEMMA BaselineMaps ==
  ASSUME CountInv, NEW o \in Orders, RegisterBaseline(o)
  PROVE  /\ AppliedRecorded' /\ InboxAppended' /\ AboveBaseline'
         /\ UNCHANGED <<Counted, Delivered, Confirmed>>
<1>1. Appended(o) = {} /\ UNCHANGED <<row, inbox, head, run>>
  BY DEF RegisterBaseline
<1>2. \A x \in Orders \ {o} : baseline'[x] = baseline[x]
  BY DEF RegisterBaseline, CountInv, OutboxInv, TypeOK
<1>3. SameRows /\ SamePublished
  BY <1>1 DEF SameRows, SamePublished
<1>4. AboveBaseline'
  BY <1>1, <1>2, <1>3, AppendedKept DEF CountInv, AboveBaseline
<1>5. AppliedRecorded' /\ InboxAppended'
  BY <1>1 DEF CountInv, AppliedRecorded, InboxAppended, Event
<1> QED BY <1>1, <1>3, <1>4, <1>5, Stutters

-----------------------------------------------------------------------------
(* Steps of the workers that move no count. *)

LEMMA LeaseMaps ==
  ASSUME CountInv, NEW p \in Processes, Lease(p)
  PROVE  /\ AppliedRecorded' /\ InboxAppended' /\ AboveBaseline'
         /\ UNCHANGED <<Counted, Delivered, Confirmed>>
<1>1. PICK now \in (clock - Skew)..clock, e \in Events :
        /\ e \in Candidates(now)
        /\ row' = [row EXCEPT ![e] = Leased(@, p, now)]
        /\ run' = [run EXCEPT ![p] =
                     [phase |-> "leased", order |-> e[1], sequence |-> e[2],
                      attempts |-> row[e].attempts + 1, now |-> now]]
  BY DEF Lease
<1>2. row \in [Events -> Row] /\ run \in [Processes -> Run]
  BY DEF CountInv, OutboxInv, TypeOK
<1>3. row[e].status \in {"PENDING", "LEASED"} /\ row'[e].status = "LEASED"
  BY <1>1, <1>2 DEF Candidates, Due, Leased
<1>4. SameRows /\ SamePublished
  BY <1>1, <1>2, <1>3 DEF SameRows, SamePublished
<1>5. \A q \in Processes : run'[q].phase = "applied" => run'[q] = run[q]
  BY <1>1, <1>2
<1> QED BY <1>4, <1>5, ExtrasKept, Stutters DEF Lease

LEMMA StopMaps ==
  ASSUME CountInv, NEW p \in Processes, ApplyFails(p) \/ Stop(p)
  PROVE  /\ AppliedRecorded' /\ InboxAppended' /\ AboveBaseline'
         /\ UNCHANGED <<Counted, Delivered, Confirmed>>
<1>1. UNCHANGED <<row, inbox, baseline, head>>
  BY DEF ApplyFails, Stop
<1>2. run \in [Processes -> Run]
  BY DEF CountInv, OutboxInv, TypeOK
<1>3. \A q \in Processes : run'[q].phase = "applied" => run'[q] = run[q]
  BY <1>2 DEF ApplyFails, Stop, IdleRun, Run
<1>4. SameRows /\ SamePublished
  BY <1>1 DEF SameRows, SamePublished
<1> QED BY <1>1, <1>3, <1>4, ExtrasKept, Stutters

LEMMA RecordFailureMaps ==
  ASSUME CountInv, NEW p \in Processes, RecordFailure(p)
  PROVE  /\ AppliedRecorded' /\ InboxAppended' /\ AboveBaseline'
         /\ UNCHANGED <<Counted, Delivered, Confirmed>>
<1>1. row \in [Events -> Row] /\ run \in [Processes -> Run]
  BY DEF CountInv, OutboxInv, TypeOK
<1>2. \A q \in Processes : run'[q].phase = "applied" => run'[q] = run[q]
  BY <1>1 DEF RecordFailure, IdleRun
<1>3. SameRows /\ SamePublished
  <2>1. CASE HoldsLease(p)
    <3> DEFINE status == IF run[p].attempts >= MaxAttempts THEN "DEAD_LETTER" ELSE "PENDING"
               due == run[p].now + RetryDelay
    <3>1. Event(p) \in Events /\ row[Event(p)] \in Row /\ due \in Int /\ status \in Statuses
      BY EventOfRun DEF CountInv, OutboxInv, Statuses
    <3>2. row' = [row EXCEPT ![Event(p)] = Released(row[Event(p)], status, due)]
      BY <2>1 DEF RecordFailure
    <3>3. Released(row[Event(p)], status, due).status = status
      BY <3>1, ReleasedType
    <3>4. row[Event(p)].status = "LEASED" /\ status \in {"DEAD_LETTER", "PENDING"}
      BY <2>1 DEF HoldsLease
    <3> HIDE DEF status, due
    <3> QED BY <1>1, <3>1, <3>2, <3>3, <3>4 DEF SameRows, SamePublished
  <2>2. CASE ~HoldsLease(p)
    BY <2>2 DEF RecordFailure, SameRows, SamePublished
  <2> QED BY <2>1, <2>2
<1> QED BY <1>2, <1>3, ExtrasKept, Stutters DEF RecordFailure

LEMMA RequeueMaps ==
  ASSUME CountInv, NEW e \in Events, Requeue(e)
  PROVE  /\ AppliedRecorded' /\ InboxAppended' /\ AboveBaseline'
         /\ UNCHANGED <<Counted, Delivered, Confirmed>>
<1> DEFINE q == Released(row[e], "PENDING", clock)
<1>1. row \in [Events -> Row] /\ row[e] \in Row /\ clock \in Int /\ "PENDING" \in Statuses
  BY DEF CountInv, OutboxInv, TypeOK, Statuses
<1>2. q \in Row /\ q.status = "PENDING"
  BY <1>1, ReleasedType
<1>3. row[e].status = "DEAD_LETTER" /\ row' = [row EXCEPT ![e] = [q EXCEPT !.attempts = 0]]
  BY DEF Requeue
<1> HIDE DEF q
<1>4. row'[e].status = "PENDING" /\ \A f \in Events \ {e} : row'[f] = row[f]
  BY <1>1, <1>2, <1>3 DEF Row
<1>5. SameRows /\ SamePublished
  BY <1>3, <1>4 DEF SameRows, SamePublished
<1> QED BY <1>5, ExtrasKept, Stutters DEF Requeue

-----------------------------------------------------------------------------
(* The subscriber delivers the event after the head.                       *)

LEMMA ApplyMaps ==
  ASSUME CountInv, NEW p \in Processes, Apply(p), NEW o, NEW n, <<o, n>> = Event(p)
  PROVE  /\ AppliedRecorded' /\ InboxAppended' /\ AboveBaseline'
         /\ Delivery!Deliver(o) \/ UNCHANGED <<Counted, Delivered, Confirmed>>
<1>0. OutboxInv /\ TypeOK
  BY DEF CountInv, OutboxInv
<1>1. /\ o = run[p].order /\ n = run[p].sequence /\ o \in Orders /\ n \in Sequences
      /\ Event(p) \in Events
  BY <1>0, EventOfRun DEF Event
<1>2. /\ UNCHANGED <<row, baseline>> /\ inbox' = inbox \cup {Event(p)}
      /\ row[Event(p)].status # "ABSENT"
  BY <1>0 DEF Apply, OutboxInv, RunHasRow, Idle
<1>3. SameRows /\ SamePublished
  BY <1>2 DEF SameRows, SamePublished
<1>4. \A q \in Processes :
        Event(q)' = Event(q) /\ (q # p => run'[q] = run[q])
  BY <1>0 DEF Apply, TypeOK, Run, Event
<1>5. AppliedRecorded'
  BY <1>2, <1>4 DEF CountInv, AppliedRecorded
<1>6. InboxAppended'
  BY <1>2 DEF CountInv, InboxAppended
<1>7. AboveBaseline'
  BY <1>2, <1>3, AppendedKept DEF CountInv, AboveBaseline
<1>8. CASE Recorded(Event(p))
  <2>1. UNCHANGED head
    BY <1>8 DEF Apply
  <2> QED BY <1>3, <1>5, <1>6, <1>7, <2>1, Stutters
<1>9. CASE ~Recorded(Event(p))
  <2>1. /\ head' = [head EXCEPT ![o] = [sequence |-> n, at |-> run[p].now]]
        /\ n = head[o].sequence + 1
    BY <1>1, <1>9 DEF Apply, Accepts, Expected
  <2>2. head[o].sequence \in Nat /\ head'[o].sequence = head[o].sequence + 1
        /\ \A x \in Orders \ {o} : head'[x] = head[x]
    BY <1>0, <1>1, <2>1 DEF TypeOK
  <2>3. Delivered' = [Delivered EXCEPT ![o] = @ + 1] /\ Delivered[o] = head[o].sequence
    BY <1>1, <2>2 DEF Delivered
  <2>4. 1..n \subseteq Appended(o)
    <3> SUFFICES ASSUME NEW m \in 1..n PROVE m \in Appended(o)
      OBVIOUS
    <3>1. m \in Sequences
      BY <1>1 DEF Sequences
    <3>2. CASE m = n
      BY <1>1, <1>2, <3>2 DEF Appended, Event
    <3>3. CASE m # n
      <4>1. m \in 1..head[o].sequence
        BY <2>1, <2>2, <3>3
      <4>2. <<o, m>> \in inbox
        BY <1>0, <1>1, <4>1 DEF OutboxInv, InboxIsHistory
      <4> QED BY <3>1, <4>2 DEF CountInv, InboxAppended, Appended
    <3> QED BY <3>2, <3>3
  <2>5. Cardinality(1..n) <= Cardinality(Appended(o)) /\ Cardinality(1..n) = n
    <3>1. n \in Nat
      BY <2>1, <2>2
    <3> QED BY <1>1, <2>4, <3>1, FiniteCounts, FS_Subset
  <2>6. Delivered[o] < Counted[o]
    BY <1>1, <2>1, <2>2, <2>5, FiniteCounts DEF Delivered, Counted
  <2>7. UNCHANGED <<Counted, Confirmed>>
    BY <1>3, CountedKept, ConfirmedKept
  <2>8. Delivery!Deliver(o)
    BY <2>3, <2>6, <2>7 DEF Delivery!Deliver, Counted, Delivered, Confirmed
  <2> QED BY <1>5, <1>6, <1>7, <2>8
<1> QED BY <1>8, <1>9

-----------------------------------------------------------------------------
(* A confirmed event extends the published prefix by one: what is before   *)
(* it is published, nothing behind it can be.                              *)

LEMMA AcknowledgeMaps ==
  ASSUME CountInv, NEW p \in Processes, Acknowledge(p), NEW o, NEW n, <<o, n>> = Event(p)
  PROVE  /\ AppliedRecorded' /\ InboxAppended' /\ AboveBaseline'
         /\ Delivery!Confirm(o) \/ UNCHANGED <<Counted, Delivered, Confirmed>>
<1>0. OutboxInv /\ TypeOK
  BY DEF CountInv, OutboxInv
<1>1. /\ o \in Orders /\ n \in Sequences /\ n \in Nat /\ 1 <= n /\ Event(p) \in Events
      /\ row[Event(p)] \in Row
  BY <1>0, EventOfRun DEF Event, Sequences
<1>2. /\ UNCHANGED <<inbox, baseline, head>>
      /\ \A q \in Processes : run'[q].phase = "applied" => run'[q] = run[q]
  BY <1>0 DEF Acknowledge, TypeOK, IdleRun
<1>3. CASE ~HoldsLease(p)
  <2>1. SameRows /\ SamePublished
    BY <1>3 DEF Acknowledge, SameRows, SamePublished
  <2> QED BY <1>2, <2>1, ExtrasKept, Stutters
<1>4. CASE HoldsLease(p)
  <2>1. /\ row' = [row EXCEPT ![Event(p)] = Released(row[Event(p)], "PUBLISHED", row[Event(p)].due)]
        /\ row[Event(p)].status = "LEASED"
    BY <1>4 DEF Acknowledge, HoldsLease
  <2>2. Released(row[Event(p)], "PUBLISHED", row[Event(p)].due).status = "PUBLISHED"
    BY <1>1 DEF Released, Row
  <2>3. /\ row'[<<o, n>>].status = "PUBLISHED" /\ row[<<o, n>>].status = "LEASED"
        /\ \A f \in Events : f # <<o, n>> => row'[f] = row[f]
    BY <1>0, <1>1, <2>1, <2>2 DEF TypeOK
  <2>4. SameRows
    BY <2>3 DEF SameRows
  <2>5. /\ Published(o)' = Published(o) \cup {n} /\ n \notin Published(o)
        /\ \A x \in Orders \ {o} : Published(x)' = Published(x)
    BY <1>1, <2>3 DEF Published, Events
  <2>6. head[o].sequence \in Nat /\ n <= head[o].sequence
    <3>1. <<o, n>> \in inbox
      BY DEF Acknowledge, CountInv, AppliedRecorded
    <3> QED BY <1>0, <1>1, <3>1 DEF OutboxInv, InboxIsHistory, TypeOK
  <2>7. baseline[o] = 0
    <3>1. 1 \in Sequences /\ 1 \in 1..head[o].sequence
      BY <1>1, <2>6 DEF Sequences
    <3>2. <<o, 1>> \in inbox
      BY <1>0, <1>1, <3>1 DEF OutboxInv, InboxIsHistory
    <3>3. 1 \in Appended(o)
      BY <3>1, <3>2 DEF CountInv, InboxAppended, Appended
    <3> QED BY <1>0, <1>1, <3>3 DEF CountInv, AboveBaseline, TypeOK
  <2>8. 1..(n - 1) \subseteq Published(o)
    <3>1. <<o, n>> \in Events /\ <<o, n>>[1] = o /\ <<o, n>>[2] = n
      BY <1>1 DEF Events
    <3>2. PredecessorsDone(o, n)
      BY <1>0, <2>3, <3>1, TouchedIsReady DEF OutboxInv
    <3> QED BY <2>7, <3>2 DEF PredecessorsDone
  <2>9. \A m \in Sequences : m > n => m \notin Published(o)
    <3> SUFFICES ASSUME NEW m \in Sequences, m > n, m \in Published(o) PROVE FALSE
      OBVIOUS
    <3>1. m \in Appended(o) /\ row[<<o, m>>].status = "PUBLISHED"
      BY DEF Published, Appended
    <3>2. n \in (baseline[o] + 1)..(m - 1)
      BY <1>1, <2>7 DEF Sequences
    <3>3. row[<<o, m>>].status = "PENDING"
      BY <1>0, <1>1, <2>5, <3>1, <3>2 DEF OutboxInv, NothingOvertakes
    <3> QED BY <3>1, <3>3
  <2>10. \A m \in Nat : 1 <= m /\ m <= n => m \in Sequences
    BY <1>1 DEF Sequences
  <2>11. Prefix(o) = 1..(n - 1)
    <3>1. \A m \in 1..(n - 1) : m \in Prefix(o)
      BY <1>1, <2>8, <2>10 DEF Prefix
    <3>2. \A m \in Prefix(o) : m \in 1..(n - 1)
      BY <1>1, <2>5 DEF Prefix, Sequences
    <3> QED BY <3>1, <3>2
  <2>12. Prefix(o)' = 1..n
    <3>1. ASSUME NEW m \in 1..n PROVE m \in Prefix(o)'
      <4>1. 1..m \subseteq 1..(n - 1) \cup {n}
        BY <1>1
      <4> QED BY <1>1, <2>5, <2>8, <2>10, <4>1 DEF Prefix
    <3>2. ASSUME NEW m \in Prefix(o)' PROVE m \in 1..n
      <4>1. m \in Sequences /\ m \in Nat /\ 1 <= m /\ m \in Published(o)'
        BY DEF Prefix, Sequences
      <4> QED BY <1>1, <2>5, <2>9, <4>1
    <3> QED BY <3>1, <3>2
  <2>13. Confirmed' = [Confirmed EXCEPT ![o] = @ + 1] /\ Confirmed[o] = n - 1
    <3>1. PublishedPrefix(o) = n - 1
      <4>1. n - 1 \in Nat
        BY <1>1
      <4> QED BY <2>11, <4>1, FiniteCounts DEF PublishedPrefix, Prefix
    <3>2. PublishedPrefix(o)' = n
      BY <1>1, <2>12, FiniteCounts DEF PublishedPrefix, Prefix
    <3>3. \A x \in Orders \ {o} : PublishedPrefix(x)' = PublishedPrefix(x)
      BY <2>5 DEF PublishedPrefix
    <3>4. Confirmed[o] = n - 1 /\ n - 1 + 1 = n
      BY <1>1, <3>1 DEF Confirmed
    <3>5. Confirmed' = [x \in Orders |-> IF x = o THEN n ELSE Confirmed[x]]
      BY <3>2, <3>3 DEF Confirmed
    <3>6. Confirmed \in [Orders -> {Confirmed[x] : x \in Orders}]
      BY DEF Confirmed
    <3> HIDE DEF Confirmed
    <3> QED BY <1>1, <3>4, <3>5, <3>6
  <2>14. UNCHANGED <<Counted, Delivered>>
    BY <1>2, <2>4, CountedKept DEF Delivered
  <2>15. Confirmed[o] < Delivered[o]
    BY <1>1, <2>6, <2>13 DEF Delivered
  <2>16. Delivery!Confirm(o)
    BY <2>13, <2>14, <2>15 DEF Delivery!Confirm, Counted, Delivered, Confirmed
  <2> QED BY <1>2, <2>4, <2>16, ExtrasKept
<1> QED BY <1>3, <1>4

-----------------------------------------------------------------------------
LEMMA CountInit == Init => CountInv /\ Delivery!Init
<1> SUFFICES ASSUME Init PROVE CountInv /\ Delivery!Init
  OBVIOUS
<1>1. OutboxInv
  BY InitOutbox
<1>2. \A o \in Orders : Appended(o) = {} /\ Published(o) = {}
  BY DEF Init, Appended, Published, Events, AbsentRow
<1>3. AppliedRecorded /\ InboxAppended /\ AboveBaseline
  BY <1>2 DEF Init, AppliedRecorded, InboxAppended, AboveBaseline, IdleRun
<1>4. Counted = [o \in Orders |-> 0]
  BY <1>2, FS_EmptySet DEF Counted
<1>5. Delivered = [o \in Orders |-> 0]
  BY DEF Init, Delivered
<1>6. Confirmed = [o \in Orders |-> 0]
  <2>1. \A o \in Orders : Prefix(o) = {}
    <3> SUFFICES ASSUME NEW o \in Orders, NEW n \in Prefix(o) PROVE FALSE
      OBVIOUS
    <3>1. 1 \in 1..n
      BY DEF Prefix, Sequences
    <3> QED BY <1>2, <3>1 DEF Prefix
  <2>2. \A o \in Orders : PublishedPrefix(o) = 0
    BY <2>1, FS_EmptySet DEF PublishedPrefix, Prefix
  <2> QED BY <2>2 DEF Confirmed
<1> QED BY <1>1, <1>3, <1>4, <1>5, <1>6 DEF CountInv, Delivery!Init, Counted, Delivered, Confirmed

LEMMA StepMaps ==
  CountInv /\ [Next]_vars =>
    CountInv' /\ (Delivery!Next \/ UNCHANGED <<Counted, Delivered, Confirmed>>)
<1> SUFFICES ASSUME CountInv, [Next]_vars
             PROVE  CountInv' /\ (Delivery!Next \/ UNCHANGED <<Counted, Delivered, Confirmed>>)
  OBVIOUS
<1> DEFINE Extras == AppliedRecorded /\ InboxAppended /\ AboveBaseline
           Maps == Delivery!Next \/ UNCHANGED <<Counted, Delivered, Confirmed>>
<1>1. OutboxInv'
  BY StepOutbox DEF CountInv
<1>2. ASSUME NEW o \in Orders, Append(o) PROVE Extras' /\ Maps
  BY <1>2, AppendMaps DEF Delivery!Next
<1>3. ASSUME NEW o \in Orders, RegisterBaseline(o) PROVE Extras' /\ Maps
  BY <1>3, BaselineMaps
<1>4. ASSUME NEW p \in Processes, Lease(p) PROVE Extras' /\ Maps
  BY <1>4, LeaseMaps
<1>5. ASSUME NEW p \in Processes, Work(p) PROVE Extras' /\ Maps
  <2>1. Event(p) = <<run[p].order, run[p].sequence>> /\ run[p].order \in Orders
    BY EventOfRun DEF Event, CountInv, OutboxInv
  <2>2. CASE Apply(p)
    BY <2>1, <2>2, ApplyMaps DEF Delivery!Next
  <2>3. CASE Acknowledge(p)
    BY <2>1, <2>3, AcknowledgeMaps DEF Delivery!Next
  <2>4. CASE ApplyFails(p) \/ RecordFailure(p)
    BY <2>4, StopMaps, RecordFailureMaps
  <2> QED BY <1>5, <2>2, <2>3, <2>4 DEF Work
<1>6. ASSUME NEW p \in Processes, Stop(p) PROVE Extras' /\ Maps
  BY <1>6, StopMaps
<1>7. ASSUME NEW e \in Events, Requeue(e) PROVE Extras' /\ Maps
  BY <1>7, RequeueMaps
<1>8. ASSUME Tick \/ UNCHANGED vars PROVE Extras' /\ Maps
  <2>1. UNCHANGED <<row, inbox, baseline, head, run>>
    BY <1>8 DEF Tick, vars
  <2>2. SameRows /\ SamePublished
    BY <2>1 DEF SameRows, SamePublished
  <2> QED BY <2>1, <2>2, ExtrasKept, Stutters
<1> HIDE DEF Extras, Maps
<1>9. Extras' /\ Maps
  BY <1>2, <1>3, <1>4, <1>5, <1>6, <1>7, <1>8 DEF Next
<1> QED BY <1>1, <1>9 DEF CountInv, Extras, Maps

(* However many workers stall, stop, lose their lease or answer late, what *)
(* an observer of the counts sees is in-order delivery: each event of an   *)
(* order is delivered once, after the one before it, and confirmed after   *)
(* it was delivered.                                                       *)
THEOREM OutboxImplements == Spec => ImplementsInOrderDelivery
<1>1. Init => CountInv /\ Delivery!Init
  BY CountInit
<1>2. CountInv /\ [Next]_vars => CountInv'
  BY StepMaps
<1>3. CountInv /\ [Next]_vars => [Delivery!Next]_<<Counted, Delivered, Confirmed>>
  BY StepMaps
<1>4. Spec => Delivery!Spec
  BY <1>1, <1>2, <1>3, PTL DEF Spec, Delivery!Spec, Counted, Delivered, Confirmed
<1> QED BY <1>4 DEF ImplementsInOrderDelivery

-----------------------------------------------------------------------------
(* What the subscriber accepts *)

PublishedRecorded == \A e \in Events : row[e].status = "PUBLISHED" => e \in inbox
DeliverInv == CountInv /\ PublishedRecorded

LEMMA PublishedByHolder ==
  ASSUME OutboxInv, [Next]_vars, NEW e \in Events,
         row'[e].status = "PUBLISHED", row[e].status # "PUBLISHED"
  PROVE  \E p \in Processes : run[p].phase = "applied" /\ Event(p) = e
<1>1. row \in [Events -> Row] /\ TypeOK
  BY DEF OutboxInv, TypeOK
<1>2. ASSUME NEW o \in Orders, Append(o) PROVE FALSE
  <2>1. PICK x, place : row' = [row EXCEPT ![x] = [AbsentRow EXCEPT !.status = "PENDING",
                                                      !.due = clock, !.place = place]]
    BY <1>2 DEF Append
  <2>2. row'[e].status = "PENDING" \/ row'[e] = row[e]
    BY <1>1, <2>1 DEF AbsentRow
  <2> QED BY <2>2
<1>3. ASSUME NEW p \in Processes, Lease(p) PROVE FALSE
  <2>1. PICK x, now : row' = [row EXCEPT ![x] = Leased(@, p, now)]
    BY <1>3 DEF Lease
  <2>2. row'[e].status = "LEASED" \/ row'[e] = row[e]
    BY <1>1, <2>1 DEF Leased
  <2> QED BY <2>2
<1>4. ASSUME NEW p \in Processes, Acknowledge(p)
      PROVE  run[p].phase = "applied" /\ Event(p) = e
  <2>1. \A x \in Events : x # Event(p) => row'[x] = row[x]
    BY <1>1, <1>4 DEF Acknowledge
  <2> QED BY <1>4, <2>1 DEF Acknowledge
<1>5. ASSUME NEW p \in Processes, RecordFailure(p) PROVE FALSE
  <2> DEFINE status == IF run[p].attempts >= MaxAttempts THEN "DEAD_LETTER" ELSE "PENDING"
  <2>1. Event(p) \in Events /\ row[Event(p)] \in Row /\ run[p].now + RetryDelay \in Int
    BY <1>1, EventOfRun
  <2>2. status \in Statuses
    BY DEF Statuses
  <2>3. Released(row[Event(p)], status, run[p].now + RetryDelay).status = status
    BY <2>1, <2>2, ReleasedType
  <2>4. \/ row'[e] = row[e]
        \/ row'[e] = Released(row[Event(p)], status, run[p].now + RetryDelay)
    BY <1>1, <1>5 DEF RecordFailure
  <2> QED BY <2>3, <2>4
<1>6. ASSUME NEW x \in Events, Requeue(x) PROVE FALSE
  <2>1. row[x] \in Row /\ clock \in Int /\ "PENDING" \in Statuses
    BY <1>1 DEF TypeOK, Statuses
  <2>2. Released(row[x], "PENDING", clock) \in Row
        /\ Released(row[x], "PENDING", clock).status = "PENDING"
    BY <2>1, ReleasedType
  <2>3. \/ row'[e] = row[e]
        \/ row'[e] = [Released(row[x], "PENDING", clock) EXCEPT !.attempts = 0]
    BY <1>1, <1>6 DEF Requeue
  <2> QED BY <2>2, <2>3 DEF Row
<1>7. ASSUME UNCHANGED row PROVE FALSE
  BY <1>7
<1>8. ASSUME NEW p \in Processes, Apply(p) \/ ApplyFails(p) \/ Stop(p) PROVE FALSE
  BY <1>7, <1>8 DEF Apply, ApplyFails, Stop
<1>9. ASSUME NEW o \in Orders, RegisterBaseline(o) PROVE FALSE
  BY <1>7, <1>9 DEF RegisterBaseline
<1>10. ASSUME Tick \/ UNCHANGED vars PROVE FALSE
  BY <1>7, <1>10 DEF Tick, vars
<1> QED BY <1>2, <1>3, <1>4, <1>5, <1>6, <1>8, <1>9, <1>10 DEF Next, Work

LEMMA InboxGrows == [Next]_vars => inbox \subseteq inbox'
<1> QED BY DEF Next, Append, RegisterBaseline, Lease, Work, Apply, ApplyFails, Acknowledge,
               RecordFailure, Stop, Requeue, Tick, vars

LEMMA DeliverNext == DeliverInv /\ [Next]_vars => DeliverInv'
<1> SUFFICES ASSUME DeliverInv, [Next]_vars PROVE DeliverInv'
  OBVIOUS
<1>1. CountInv'
  BY StepMaps DEF DeliverInv
<1>2. OutboxInv /\ AppliedRecorded /\ PublishedRecorded
  BY DEF DeliverInv, CountInv
<1>3. ASSUME NEW e \in Events, row'[e].status = "PUBLISHED" PROVE e \in inbox'
  <2>1. e \in inbox
    BY <1>2, <1>3, PublishedByHolder DEF AppliedRecorded, PublishedRecorded
  <2> QED BY <2>1, InboxGrows
<1> QED BY <1>1, <1>3 DEF DeliverInv, PublishedRecorded

(* The subscriber can accept a leased event exactly when its order has no  *)
(* registered baseline.                                                    *)
BaselinesStrand ==
  \A e \in Events :
    row[e].status = "LEASED" =>
      (Recorded(e) \/ Expected(e[1], e[2]) <=> baseline[e[1]] = 0)

LEMMA WhatIsAccepted == DeliverInv => BaselinesStrand
<1> SUFFICES ASSUME DeliverInv, NEW o \in Orders, NEW n \in Sequences,
                    row[<<o, n>>].status = "LEASED"
             PROVE  Recorded(<<o, n>>) \/ Expected(o, n) <=> baseline[o] = 0
  BY DEF BaselinesStrand, Events
<1>1. /\ baseline[o] \in Nat /\ head[o].sequence \in Nat /\ n \in Nat /\ n >= 1
      /\ n <= MaxSequence
  BY DEF DeliverInv, CountInv, OutboxInv, TypeOK, Sequences
<1>2. n \in Appended(o)
  BY DEF Appended
<1>3. {m \in Sequences : <<o, m>> \in inbox} = 1..head[o].sequence
  BY DEF DeliverInv, CountInv, OutboxInv, InboxIsHistory
<1>4. CASE baseline[o] = 0
  <2>1. 1..(n - 1) \subseteq Published(o)
    <3>1. (baseline[o] + 1)..(n - 1) \subseteq Published(o)
      BY <1>2 DEF DeliverInv, CountInv, OutboxInv, NothingOvertakes
    <3> QED BY <1>4, <3>1
  <2>2. \A m \in 1..(n - 1) : m \in 1..head[o].sequence
    BY <1>3, <2>1 DEF Published, DeliverInv, PublishedRecorded, Events
  <2>3. n - 1 <= head[o].sequence
    <3>1. CASE n = 1
      BY <1>1, <3>1
    <3>2. CASE n # 1
      <4>1. n - 1 \in 1..(n - 1)
        BY <1>1, <3>2
      <4>2. n - 1 \in 1..head[o].sequence
        BY <2>2, <4>1
      <4> QED BY <1>1, <4>2
    <3> QED BY <3>1, <3>2
  <2>4. n <= head[o].sequence \/ n = head[o].sequence + 1
    BY <1>1, <2>3
  <2>5. n <= head[o].sequence => <<o, n>> \in inbox
    BY <1>1, <1>3
  <2> QED BY <1>4, <2>4, <2>5 DEF Recorded, Expected
<1>5. CASE baseline[o] # 0
  <2>1. \A m \in Sequences : <<o, m>> \in inbox => baseline[o] < m
    <3>1. \A m \in Sequences : <<o, m>> \in inbox => m \in Appended(o)
      BY DEF DeliverInv, CountInv, InboxAppended, Appended
    <3> QED BY <3>1 DEF DeliverInv, CountInv, AboveBaseline
  <2>2. head[o].sequence = 0
    <3> SUFFICES ASSUME head[o].sequence >= 1 PROVE FALSE
      BY <1>1
    <3>1. 1 \in 1..head[o].sequence
      BY <1>1
    <3>2. 1 \in Sequences /\ <<o, 1>> \in inbox
      BY <1>3, <3>1
    <3>3. baseline[o] < 1
      BY <2>1, <3>2
    <3> QED BY <1>1, <1>5, <3>3
  <2>3. <<o, n>> \notin inbox
    <3>1. 1..head[o].sequence = {}
      BY <2>2
    <3> QED BY <1>3, <3>1
  <2>4. n # head[o].sequence + 1
    <3>1. baseline[o] < n
      BY <1>2 DEF DeliverInv, CountInv, AboveBaseline
    <3> QED BY <1>1, <1>5, <2>2, <3>1
  <2> QED BY <1>5, <2>3, <2>4 DEF Recorded, Expected
<1> QED BY <1>4, <1>5

(* A worker leases an event the subscriber refuses exactly when its order  *)
(* has a registered baseline: LeasedIsNext fails for this reason and for no *)
(* other, and no event of such an order is accepted while it is leased.    *)
THEOREM OnlyBaselinesStrand == Spec => []BaselinesStrand
<1>1. Init => DeliverInv
  <2>1. ASSUME Init PROVE PublishedRecorded
    BY <2>1 DEF Init, PublishedRecorded, AbsentRow
  <2> QED BY <2>1, CountInit DEF DeliverInv
<1> QED BY <1>1, DeliverNext, WhatIsAccepted, PTL DEF Spec
=============================================================================
