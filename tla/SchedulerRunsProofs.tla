------------------------- MODULE SchedulerRunsProofs -------------------------
(***************************************************************************)
(* Proofs about SchedulerRuns.                                             *)
(***************************************************************************)
EXTENDS SchedulerRuns, TLAPS

(* What a run needs of sequences. *)
LEMMA AppendFacts ==
  ASSUME NEW S, NEW s \in Seq(S), NEW e \in S, e \notin ToSet(s)
  PROVE  /\ Append(s, e) \in Seq(S) /\ Append(s, e) # <<>>
         /\ Last(Append(s, e)) = e
         /\ ToSet(Append(s, e)) = ToSet(s) \cup {e}
         /\ (\A i, j \in DOMAIN s : s[i] = s[j] => i = j) =>
              \A i, j \in DOMAIN Append(s, e) : Append(s, e)[i] = Append(s, e)[j] => i = j
<1>1. /\ Append(s, e) \in Seq(S) /\ Append(s, e) # <<>>
      /\ Len(Append(s, e)) = Len(s) + 1 /\ Len(s) \in Nat
      /\ DOMAIN Append(s, e) = 1..(Len(s) + 1) /\ DOMAIN s = 1..Len(s)
  OBVIOUS
<1>2. /\ \A i \in 1..Len(s) : Append(s, e)[i] = s[i]
      /\ Append(s, e)[Len(s) + 1] = e
  OBVIOUS
<1>3. \A i \in 1..Len(s) : s[i] # e
  BY <1>1 DEF ToSet
<1>4. Last(Append(s, e)) = e
  BY <1>1, <1>2 DEF Last
<1>5. ToSet(Append(s, e)) = ToSet(s) \cup {e}
  BY <1>1, <1>2 DEF ToSet
<1>6. (\A i, j \in DOMAIN s : s[i] = s[j] => i = j) =>
        \A i, j \in DOMAIN Append(s, e) : Append(s, e)[i] = Append(s, e)[j] => i = j
  BY <1>1, <1>2, <1>3
<1> QED BY <1>1, <1>4, <1>5, <1>6

LEMMA LastFacts ==
  ASSUME NEW S, NEW s \in Seq(S), NEW e \in ToSet(s)
  PROVE  Last(s) \in ToSet(s)
  BY DEF Last, ToSet

-----------------------------------------------------------------------------
(* Types *)

AuditRow ==
  [status : RowStatuses, at : 0..Horizon, owner : Procs \cup {NoRun}, life : Nat, left : 0..Lease]
JournalRow ==
  [observed : Outcomes, rejected : BOOLEAN, failed : BOOLEAN, broken : SUBSET Breaks]
ProcRow == [up : BOOLEAN, since : 0..Horizon, life : Nat, pid : Nat]
OrderOK ==
  /\ order \in Seq(Runs)
  /\ \A i, j \in DOMAIN order : order[i] = order[j] => i = j
  /\ \A u \in Runs : audit[u] # NoAudit <=> u \in ToSet(order)
WorkersOK ==
  /\ worker \in [Procs -> [stage : WorkerStages, run : Runs \cup {NoRun}]]
  /\ \A p \in Procs : worker[p].stage # "free" => worker[p].run \in Runs
JournalOK == journal \in [Runs -> JournalRow]
RestOK ==
  /\ now \in 0..Horizon
  /\ task \in [status : RowStatuses, at : 0..Horizon]
  /\ listed \in BOOLEAN
  /\ outcome \in [Runs -> Outcomes]
  /\ faults \in 0..MaxFaults
ProcsOK ==
  /\ proc \in [Procs -> ProcRow]
  /\ \A p \in Procs : proc[p].pid <= proc[p].life
AuditsOK == audit \in [Runs -> AuditRow]
TypeInv == WorkersOK /\ JournalOK /\ RestOK /\ ProcsOK /\ AuditsOK /\ OrderOK

LEMMA TypeInvIsTypeOK == TypeInv => TypeOK
  BY DEF TypeInv, WorkersOK, JournalOK, RestOK, ProcsOK, AuditsOK, OrderOK, TypeOK, AuditRow,
         JournalRow, ProcRow

LEMMA InitTypes == Init => TypeInv
<1> SUFFICES ASSUME Init PROVE TypeInv
  OBVIOUS
<1>1. WorkersOK /\ JournalOK /\ ProcsOK
  BY SchedulerAssumption
  DEF SchedulerAssumption, Init, WorkersOK, JournalOK, JournalRow, ProcsOK, ProcRow, Free, Outcomes,
      WorkerStages
<1>2. RestOK /\ AuditsOK /\ OrderOK
  BY SchedulerAssumption
  DEF SchedulerAssumption, Init, RestOK, AuditsOK, OrderOK, AuditRow, NoAudit, Outcomes, RowStatuses,
      ToSet
<1> QED BY <1>1, <1>2 DEF TypeInv

(* What a step does to an audit that is there, to the order when it adds   *)
(* one, and to the journal.                                                *)
LEMMA RowTypes ==
  ASSUME AuditsOK, OrderOK, UNCHANGED order, NEW u \in Runs, IsRunning(u),
         NEW row \in AuditRow, row.status # "none", audit' = [audit EXCEPT ![u] = row]
  PROVE  AuditsOK' /\ OrderOK'
<1>1. AuditsOK'
  BY DEF AuditsOK
<1>2. \A v \in Runs : audit'[v] # NoAudit <=> audit[v] # NoAudit
  BY DEF AuditsOK, IsRunning, NoAudit
<1> QED BY <1>1, <1>2 DEF OrderOK

LEMMA AddTypes ==
  ASSUME AuditsOK, OrderOK, NEW u \in Runs, audit[u] = NoAudit,
         NEW row \in AuditRow, row.status # "none",
         audit' = [audit EXCEPT ![u] = row], order' = Append(order, u)
  PROVE  AuditsOK' /\ OrderOK' /\ Last(order') = u
<1>1. AuditsOK'
  BY DEF AuditsOK
<1>2. \A v \in Runs : audit'[v] # NoAudit <=> audit[v] # NoAudit \/ v = u
  BY DEF AuditsOK, NoAudit
<1>3. u \notin ToSet(order) /\ order \in Seq(Runs)
  BY DEF OrderOK
<1>4. ToSet(order') = ToSet(order) \cup {u} /\ order' \in Seq(Runs) /\ Last(order') = u
  BY <1>3, AppendFacts
<1>5. \A i, j \in DOMAIN order' : order'[i] = order'[j] => i = j
  BY <1>3, AppendFacts DEF OrderOK
<1> QED BY <1>1, <1>2, <1>4, <1>5 DEF OrderOK

LEMMA NewTypes ==
  ASSUME ProcsOK, NEW p \in Procs, NEW stamp \in 0..Horizon
  PROVE  NewAudit(p, stamp) \in AuditRow /\ NewAudit(p, stamp).status = "running"
  BY SchedulerAssumption
  DEF SchedulerAssumption, NewAudit, AuditRow, RowStatuses, ProcsOK, ProcRow

LEMMA NoteTypes ==
  ASSUME JournalOK, NEW u \in Runs, outcome[u] \in Outcomes, Note(u)
  PROVE  /\ JournalOK' /\ \A v \in Runs \ {u} : journal'[v] = journal[v]
         /\ journal'[u].observed = outcome[u] /\ journal'[u].failed = journal[u].failed
<1> DEFINE entry == [journal[u] EXCEPT !.observed = outcome[u], !.broken = {}]
<1>1. /\ entry \in JournalRow
      /\ entry.observed = outcome[u] /\ entry.failed = journal[u].failed
  BY DEF JournalOK, JournalRow
<1>2. journal' = [journal EXCEPT ![u] = entry]
  BY DEF Note, JournalOK
<1> HIDE DEF entry
<1> QED BY <1>1, <1>2 DEF JournalOK

LEMMA BreakTypes ==
  ASSUME JournalOK, NEW u \in Runs, NEW breaks \in SUBSET Breaks, journal' = Breaking(u, breaks)
  PROVE  /\ JournalOK' /\ \A v \in Runs \ {u} : journal'[v] = journal[v]
         /\ journal'[u].observed = journal[u].observed /\ journal'[u].failed = journal[u].failed
<1> DEFINE entry == [journal[u] EXCEPT !.broken = @ \cup breaks]
<1>1. /\ entry \in JournalRow
      /\ entry.observed = journal[u].observed /\ entry.failed = journal[u].failed
  BY DEF JournalOK, JournalRow
<1>2. journal' = [journal EXCEPT ![u] = entry]
  BY DEF Breaking
<1> HIDE DEF entry
<1> QED BY <1>1, <1>2 DEF JournalOK

LEMMA MarkTypes ==
  ASSUME JournalOK, NEW u \in Runs
  PROVE  /\ Marked(u) \in [Runs -> JournalRow] /\ \A v \in Runs \ {u} : Marked(u)[v] = journal[v]
         /\ Marked(u)[u].observed = journal[u].observed
         /\ Marked(u)[u].failed => journal[u].failed \/ LeaseOver(u)
<1>1. CASE ~Expired(u)
  BY <1>1 DEF Marked, JournalOK
<1>2. CASE Expired(u)
  <2> DEFINE entry == [journal[u] EXCEPT !.rejected = TRUE, !.failed = TRUE]
  <2>1. entry \in JournalRow /\ entry.observed = journal[u].observed
    BY DEF JournalOK, JournalRow
  <2>2. Marked(u) = [journal EXCEPT ![u] = entry]
    BY <1>2 DEF Marked, JournalOK
  <2>3. LeaseOver(u)
    BY <1>2 DEF Expired
  <2> HIDE DEF entry
  <2> QED BY <2>1, <2>2, <2>3 DEF JournalOK
<1> QED BY <1>1, <1>2

LEMMA PublishJournal ==
  ASSUME JournalOK, NEW u \in Runs, Observed(u), Publish(u)
  PROVE  /\ JournalOK' /\ \A v \in Runs \ {u} : journal'[v] = journal[v]
         /\ journal'[u].observed = journal[u].observed
         /\ journal'[u].failed => journal[u].failed \/ LeaseOver(u)
<1>0. journal \in [Runs -> JournalRow]
  BY DEF JournalOK
<1>1. Final(u) \in Outcomes \ {"none"}
  BY <1>0 DEF Final, Observed, JournalRow, Outcomes
<1>2. CASE journal' = Marked(u)
  BY <1>2, MarkTypes DEF JournalOK
<1>3. CASE journal' = [Marked(u) EXCEPT ![u].broken = @ \cup {Final(u)}]
  <2> DEFINE marked == Marked(u)
             entry == [marked[u] EXCEPT !.broken = @ \cup {Final(u)}]
  <2>1. /\ marked \in [Runs -> JournalRow] /\ \A v \in Runs \ {u} : marked[v] = journal[v]
        /\ marked[u].observed = journal[u].observed
        /\ marked[u].failed => journal[u].failed \/ LeaseOver(u)
    BY MarkTypes
  <2>2. journal' = [marked EXCEPT ![u] = entry]
    BY <1>3
  <2> HIDE DEF marked
  <2>3. /\ entry \in JournalRow
        /\ entry.observed = marked[u].observed /\ entry.failed = marked[u].failed
    BY <1>1, <2>1 DEF JournalRow, Breaks, Outcomes
  <2> HIDE DEF entry
  <2> QED BY <2>1, <2>2, <2>3 DEF JournalOK
<1>4. CASE journal' = Breaking(u, {"record"})
  BY <1>4, BreakTypes DEF Breaks
<1>5. CASE journal' = [journal EXCEPT ![u].rejected = TRUE]
  <2> DEFINE entry == [journal[u] EXCEPT !.rejected = TRUE]
  <2>1. /\ entry \in JournalRow
        /\ entry.observed = journal[u].observed /\ entry.failed = journal[u].failed
    BY DEF JournalOK, JournalRow
  <2>2. journal' = [journal EXCEPT ![u] = entry]
    BY <1>5
  <2> HIDE DEF entry
  <2> QED BY <2>1, <2>2 DEF JournalOK
<1> QED BY <1>2, <1>3, <1>4, <1>5 DEF Publish, Commit

-----------------------------------------------------------------------------
(* What a worker relies on, whatever the distance between claims           *)

Own(p) ==
  /\ IsRunning(RunOf(p)) /\ ~Observed(RunOf(p))
  /\ audit[RunOf(p)].owner = p /\ audit[RunOf(p)].life = proc[p].life
Holders == {"audited", "child", "ended", "retaining"}
Proper(p) ==
  /\ worker[p].stage = "claimed" => audit[RunOf(p)] = NoAudit
  /\ worker[p].stage = "refused" => audit[RunOf(p)] = NoAudit \/ Own(p)
  /\ worker[p].stage \in Holders => Own(p)
  /\ worker[p].stage \in {"ended", "retaining"} => outcome[RunOf(p)] # "none"
  /\ worker[p].stage \in {"finishing", "kept"} => Observed(RunOf(p))
Distinct == \A p, q \in Procs : RunOf(p) = RunOf(q) /\ RunOf(p) # NoRun => p = q
BusyIsUp == \A p \in Procs : worker[p].stage # "free" => proc[p].up
Unseen == \A u \in Runs : audit[u] = NoAudit => ~Observed(u)
RunInv == TypeInv /\ Distinct /\ BusyIsUp /\ Unseen /\ \A p \in Procs : Proper(p)

LEMMA InitRuns == Init => RunInv
<1> SUFFICES ASSUME Init PROVE RunInv
  OBVIOUS
<1>1. TypeInv
  BY InitTypes
<1>2. Distinct /\ BusyIsUp /\ \A p \in Procs : Proper(p)
  BY DEF Init, Distinct, BusyIsUp, Proper, Holders, Free, RunOf
<1>3. Unseen
  BY DEF Init, Unseen, Observed, NoAudit
<1> QED BY <1>1, <1>2, <1>3 DEF RunInv

(* An audit of which only the lease may change, and what holds on to it.   *)
RowKept(u) ==
  /\ audit'[u].status = audit[u].status /\ audit'[u].at = audit[u].at
  /\ audit'[u].owner = audit[u].owner /\ audit'[u].life = audit[u].life
  /\ audit'[u] = NoAudit <=> audit[u] = NoAudit
RowsKept == \A u \in Runs : RowKept(u)

LEMMA SameRows == UNCHANGED audit => RowsKept
  BY DEF RowsKept, RowKept

LEMMA ProperKept ==
  ASSUME RunInv, NEW p \in Procs, worker'[p] = worker[p], proc'[p].life = proc[p].life,
         worker[p].stage \in Holders \cup {"claimed", "refused"} =>
           RowKept(RunOf(p)) /\ journal'[RunOf(p)].observed = journal[RunOf(p)].observed,
         \A u \in Runs : /\ outcome[u] # "none" => outcome'[u] # "none"
                         /\ Observed(u) => Observed(u)'
  PROVE  Proper(p)'
<1>1. Proper(p) /\ RunOf(p)' = RunOf(p)
  BY DEF RunInv, RunOf
<1>2. worker[p].stage # "free" => RunOf(p) \in Runs
  BY DEF RunInv, TypeInv, WorkersOK, RunOf
<1>3. CASE worker[p].stage \in Holders \cup {"claimed", "refused"}
  <2>1. (audit[RunOf(p)] = NoAudit => audit'[RunOf(p)] = NoAudit) /\ (Own(p) => Own(p)')
    BY <1>1, <1>3 DEF RowKept, Own, IsRunning, Observed
  <2>2. RunOf(p) \in Runs
    BY <1>2, <1>3 DEF Holders
  <2> QED BY <1>1, <1>3, <2>1, <2>2 DEF Proper, Holders
<1>4. CASE worker[p].stage \in {"finishing", "kept"}
  BY <1>1, <1>2, <1>4 DEF Proper, Holders, Observed
<1>5. CASE worker[p].stage \notin Holders \cup {"claimed", "refused", "finishing", "kept"}
  BY <1>5 DEF Proper, Holders
<1> QED BY <1>3, <1>4, <1>5

(* A worker that goes on or ends leaves the others as they are. *)
LEMMA WorkerGoes ==
  ASSUME RunInv, NEW p \in Procs, NEW stage \in WorkerStages, worker[p].stage # "free",
         Goes(p, stage), UNCHANGED proc
  PROVE  /\ WorkersOK' /\ Distinct' /\ BusyIsUp'
         /\ RunOf(p) \in Runs /\ RunOf(p)' = RunOf(p) /\ worker'[p].stage = stage
         /\ \A q \in Procs \ {p} : worker'[q] = worker[q] /\ RunOf(q) # RunOf(p)
<1>1. /\ worker'[p].stage = stage /\ worker'[p].run = worker[p].run
      /\ \A q \in Procs \ {p} : worker'[q] = worker[q]
      /\ RunOf(p) \in Runs
  BY DEF RunInv, TypeInv, WorkersOK, Goes, RunOf
<1>2. WorkersOK'
  BY DEF RunInv, TypeInv, WorkersOK, Goes
<1>3. \A q \in Procs : RunOf(q)' = RunOf(q)
  BY <1>1 DEF RunOf
<1>4. Distinct' /\ BusyIsUp'
  BY <1>1, <1>3 DEF RunInv, Distinct, BusyIsUp
<1>5. RunOf(p) # NoRun
  BY <1>1, SchedulerAssumption DEF SchedulerAssumption
<1>6. \A q \in Procs \ {p} : RunOf(q) # RunOf(p)
  BY <1>5 DEF RunInv, Distinct
<1> QED BY <1>1, <1>2, <1>3, <1>4, <1>6

LEMMA WorkerEnds ==
  ASSUME RunInv, NEW p \in Procs, Ends(p), UNCHANGED proc
  PROVE  /\ WorkersOK' /\ Distinct' /\ BusyIsUp' /\ Proper(p)'
         /\ worker'[p] = Free /\ \A q \in Procs \ {p} : worker'[q] = worker[q]
<1>1. worker'[p] = Free /\ \A q \in Procs \ {p} : worker'[q] = worker[q]
  BY DEF RunInv, TypeInv, WorkersOK, Ends
<1>2. WorkersOK'
  BY DEF RunInv, TypeInv, WorkersOK, Ends, Free, WorkerStages
<1>3. Distinct' /\ BusyIsUp'
  BY <1>1 DEF RunInv, Distinct, BusyIsUp, RunOf, Free
<1>4. Proper(p)'
  BY <1>1 DEF Proper, Holders, Free
<1> QED BY <1>1, <1>2, <1>3, <1>4

LEMMA HolderFacts ==
  ASSUME RunInv, NEW p \in Procs, worker[p].stage \in Holders
  PROVE  Own(p) /\ RunOf(p) \in Runs /\ audit[RunOf(p)] # NoAudit
  BY DEF RunInv, TypeInv, Proper, WorkersOK, RunOf, Holders, Own, IsRunning, NoAudit

-----------------------------------------------------------------------------
(* One lemma for each action *)

LEMMA ClaimRuns ==
  ASSUME RunInv, NEW p \in Procs, NEW u \in Runs, Claim(p, u)
  PROVE  RunInv'
<1> USE DEF RunInv, TypeInv
<1>0. /\ worker[p].stage = "free" /\ proc[p].up /\ now \in 0..Horizon
      /\ task' = [status |-> "running", at |-> now]
      /\ UNCHANGED <<now, journal, listed, proc, outcome>>
  BY DEF Claim, ClaimedTask, At, Up, RestOK
<1>1. audit[u] = NoAudit /\ (\A q \in Procs : RunOf(q) # u) /\ ~Observed(u)
  BY DEF Claim, Unused, Unseen
<1>2. RestOK' /\ JournalOK' /\ ProcsOK'
  <2>1. task' \in [status : RowStatuses, at : 0..Horizon]
    BY <1>0 DEF RowStatuses
  <2>2. faults' \in 0..MaxFaults
    BY SchedulerAssumption DEF SchedulerAssumption, Claim, Fault, RestOK
  <2> QED BY <1>0, <2>1, <2>2 DEF RestOK, JournalOK, ProcsOK
<1>3. /\ AuditsOK' /\ OrderOK' /\ \A v \in Runs \ {u} : audit'[v] = audit[v]
      /\ IF OneTransaction THEN audit'[u] = NewAudit(p, now) ELSE audit'[u] = NoAudit
  <2>1. CASE OneTransaction
    <3>1. audit' = [audit EXCEPT ![u] = NewAudit(p, now)] /\ order' = Append(order, u)
      BY <2>1 DEF Claim
    <3>2. AuditsOK' /\ OrderOK'
      BY <1>0, <1>1, <3>1, NewTypes, AddTypes DEF NewAudit
    <3> QED BY <2>1, <3>1, <3>2 DEF AuditsOK
  <2>2. CASE ~OneTransaction
    BY <1>1, <2>2 DEF Claim, AuditsOK, OrderOK
  <2> QED BY <2>1, <2>2
<1>4. Unseen'
  BY <1>0, <1>1, <1>3 DEF Unseen, Observed
<1>5. ASSUME NEW q \in Procs, worker'[q] = worker[q] PROVE Proper(q)'
  <2>1. worker[q].stage # "free" => RunOf(q) \in Runs \ {u}
    BY <1>1 DEF WorkersOK, RunOf
  <2>2. worker[q].stage # "free" => RowKept(RunOf(q))
    BY <1>3, <2>1 DEF RowKept
  <2> QED BY <1>0, <1>5, <2>2, ProperKept DEF Observed, Holders
<1>6. CASE UNCHANGED worker
  <2>1. WorkersOK' /\ Distinct' /\ BusyIsUp'
    BY <1>0, <1>6 DEF WorkersOK, Distinct, BusyIsUp, RunOf
  <2> QED BY <1>2, <1>3, <1>4, <1>5, <1>6, <2>1
<1>7. CASE worker' = [worker EXCEPT ![p] =
                        [stage |-> IF OneTransaction THEN "audited" ELSE "claimed", run |-> u]]
  <2>0. /\ worker'[p] = [stage |-> IF OneTransaction THEN "audited" ELSE "claimed", run |-> u]
        /\ \A q \in Procs \ {p} : worker'[q] = worker[q]
    BY <1>7 DEF WorkersOK
  <2>1. WorkersOK'
    BY <1>7 DEF WorkersOK, WorkerStages
  <2>2. Distinct' /\ BusyIsUp'
    BY <1>0, <1>1, <2>0 DEF Distinct, BusyIsUp, RunOf
  <2>3. Proper(p)'
    <3>1. CASE OneTransaction
      BY <1>0, <1>1, <1>3, <2>0, <3>1
      DEF Proper, Holders, Own, IsRunning, Observed, NewAudit, RunOf
    <3>2. CASE ~OneTransaction
      BY <1>3, <2>0, <3>2 DEF Proper, Holders, RunOf
    <3> QED BY <3>1, <3>2
  <2> QED BY <1>2, <1>3, <1>4, <1>5, <2>0, <2>1, <2>2, <2>3
<1> QED BY <1>6, <1>7 DEF Claim

(* The claim has no audit yet.                                             *)
LEMMA StartAuditRuns ==
  ASSUME RunInv, NEW p \in Procs, StartAudit(p)
  PROVE  RunInv'
<1> USE DEF RunInv, TypeInv
<1> DEFINE u == RunOf(p)
<1>0. /\ worker[p].stage = "claimed" /\ UNCHANGED <<now, task, journal, listed, proc, outcome>>
      /\ task.at \in 0..Horizon
  BY DEF StartAudit, At, RestOK
<1>1. u \in Runs /\ audit[u] = NoAudit /\ ~Observed(u)
  BY <1>0 DEF WorkersOK, RunOf, Proper, Unseen
<1>2. RestOK' /\ JournalOK' /\ ProcsOK'
  BY <1>0, SchedulerAssumption
  DEF SchedulerAssumption, StartAudit, Fault, RestOK, JournalOK, ProcsOK
<1>3. PICK stage \in {"audited", "refused"} : Goes(p, stage)
  BY DEF StartAudit
<1>4. /\ WorkersOK' /\ Distinct' /\ BusyIsUp'
      /\ RunOf(p)' = u /\ worker'[p].stage = stage
      /\ \A q \in Procs \ {p} : worker'[q] = worker[q] /\ RunOf(q) # u
  <2>1. stage \in WorkerStages
    BY DEF WorkerStages
  <2> QED BY <1>0, <1>3, <2>1, WorkerGoes
<1>5. CASE UNCHANGED <<audit, order>> /\ Goes(p, "refused")
  <2>1. worker'[p].stage = "refused"
    BY <1>0, <1>5, WorkerGoes DEF WorkerStages
  <2>2. Proper(p)'
    BY <1>1, <1>4, <1>5, <2>1 DEF Proper, Holders
  <2>3. \A q \in Procs \ {p} : Proper(q)'
    BY <1>0, <1>4, <1>5, SameRows, ProperKept DEF RowsKept, RowKept, Observed
  <2>4. AuditsOK' /\ OrderOK' /\ Unseen'
    BY <1>0, <1>5 DEF AuditsOK, OrderOK, Unseen, Observed
  <2> QED BY <1>2, <1>4, <2>2, <2>3, <2>4
<1>6. CASE audit' = [audit EXCEPT ![u] = NewAudit(p, task.at)] /\ order' = Append(order, u)
  <2>1. AuditsOK' /\ OrderOK'
    BY <1>0, <1>1, <1>6, NewTypes, AddTypes DEF NewAudit
  <2>2. audit'[u] = NewAudit(p, task.at) /\ \A v \in Runs \ {u} : audit'[v] = audit[v]
    BY <1>1, <1>6 DEF AuditsOK
  <2>3. Own(p)'
    BY <1>0, <1>1, <1>4, <2>2 DEF Own, IsRunning, Observed, NewAudit
  <2>4. Proper(p)'
    BY <1>4, <2>3 DEF Proper, Holders
  <2>5. ASSUME NEW q \in Procs \ {p} PROVE Proper(q)'
    <3>1. worker[q].stage # "free" => RowKept(RunOf(q))
      BY <1>4, <2>2 DEF RowKept, WorkersOK, RunOf
    <3> QED BY <1>0, <1>4, <3>1, ProperKept DEF Observed, Holders
  <2>6. Unseen'
    BY <1>0, <1>1, <2>2 DEF Unseen, Observed
  <2> QED BY <1>2, <1>4, <2>1, <2>4, <2>5, <2>6
<1> QED BY <1>5, <1>6 DEF StartAudit

(* Where the tables of runs are kept and the journal grows, what is to be  *)
(* shown is that the process that acts is proper afterwards.               *)
LEMMA KeptRuns ==
  ASSUME RunInv, NEW p \in Procs,
         WorkersOK', Distinct', BusyIsUp', Proper(p)',
         \A q \in Procs \ {p} : worker'[q] = worker[q] /\ proc'[q] = proc[q],
         JournalOK', RestOK', ProcsOK', AuditsOK', OrderOK', RowsKept,
         \A q \in Procs \ {p} :
           worker[q].stage # "free" => journal'[RunOf(q)].observed = journal[RunOf(q)].observed,
         \A u \in Runs : /\ outcome[u] # "none" => outcome'[u] # "none"
                         /\ Observed(u) => Observed(u)'
                         /\ Observed(u)' => Observed(u) \/ audit[u] # NoAudit
  PROVE  RunInv'
<1> USE DEF RunInv, TypeInv
<1>1. ASSUME NEW q \in Procs \ {p} PROVE Proper(q)'
  <2>1. worker[q].stage # "free" => RowKept(RunOf(q))
    BY DEF RowsKept, WorkersOK, RunOf
  <2> QED BY <2>1, ProperKept DEF Holders
<1>2. Unseen'
  BY DEF Unseen, RowsKept, RowKept
<1> QED BY <1>1, <1>2

LEMMA RefuseRuns == ASSUME RunInv, NEW p \in Procs, Refuse(p) PROVE RunInv'
<1> USE DEF RunInv, TypeInv
<1>0. /\ task' = [task EXCEPT !.status = "failed"] /\ Ends(p)
      /\ UNCHANGED <<now, audit, order, journal, listed, proc, outcome, faults>>
  BY DEF Refuse
<1>1. JournalOK' /\ RestOK' /\ ProcsOK' /\ AuditsOK' /\ OrderOK' /\ RowsKept
  BY <1>0, SameRows DEF RestOK, JournalOK, ProcsOK, AuditsOK, OrderOK, RowStatuses, Outcomes
<1> QED BY <1>0, <1>1, WorkerEnds, KeptRuns DEF Observed

LEMMA RenewedRows ==
  ASSUME AuditsOK, OrderOK, UNCHANGED order, NEW u \in Runs, IsRunning(u), audit' = Renewed(u)
  PROVE  AuditsOK' /\ OrderOK' /\ RowsKept
<1> DEFINE row == [audit[u] EXCEPT !.left = Lease]
<1>1. row \in AuditRow /\ row.status = "running"
  BY SchedulerAssumption DEF SchedulerAssumption, AuditsOK, AuditRow, IsRunning
<1>2. audit' = [audit EXCEPT ![u] = row]
  BY DEF Renewed
<1>3. /\ row.at = audit[u].at /\ row.owner = audit[u].owner /\ row.life = audit[u].life
      /\ audit[u].status = "running"
  BY DEF AuditsOK, AuditRow, IsRunning
<1> HIDE DEF row
<1>4. AuditsOK' /\ OrderOK'
  BY <1>1, <1>2, RowTypes
<1>5. RowsKept
  BY <1>1, <1>2, <1>3 DEF RowsKept, RowKept, AuditsOK, NoAudit
<1> QED BY <1>4, <1>5

(* Steps of a run that is held, after which it still is.                   *)
LEMMA HolderGoesOn ==
  ASSUME RunInv, NEW p \in Procs, worker[p].stage \in Holders,
         NEW stage \in {"child", "ended", "retaining"}, Goes(p, stage),
         JournalOK', RestOK', AuditsOK', OrderOK', RowsKept, UNCHANGED proc,
         \A u \in Runs : /\ outcome[u] # "none" => outcome'[u] # "none"
                         /\ journal'[u].observed = journal[u].observed,
         stage # "child" => outcome'[RunOf(p)] # "none"
  PROVE  RunInv'
<1> USE DEF RunInv, TypeInv
<1>1. Own(p) /\ RunOf(p) \in Runs /\ worker[p].stage # "free" /\ stage \in WorkerStages
  BY HolderFacts DEF Holders, WorkerStages
<1>2. /\ WorkersOK' /\ Distinct' /\ BusyIsUp'
      /\ RunOf(p)' = RunOf(p) /\ worker'[p].stage = stage
      /\ \A q \in Procs \ {p} : worker'[q] = worker[q]
  BY <1>1, WorkerGoes
<1>3. Own(p)'
  BY <1>1, <1>2 DEF RowsKept, RowKept, Own, IsRunning, Observed
<1>4. Proper(p)'
  BY <1>2, <1>3 DEF Proper, Holders
<1>5. ProcsOK'
  BY DEF ProcsOK
<1>6. \A q \in Procs \ {p} :
        worker[q].stage # "free" => journal'[RunOf(q)].observed = journal[RunOf(q)].observed
  BY DEF WorkersOK, RunOf
<1> QED BY <1>2, <1>4, <1>5, <1>6, KeptRuns DEF Observed

LEMMA LaunchRuns == ASSUME RunInv, NEW p \in Procs, Launch(p) PROVE RunInv'
<1> DEFINE u == RunOf(p)
<1>0. worker[p].stage = "audited" /\ UNCHANGED <<now, order, journal, listed, proc, faults>>
  BY DEF Launch, At
<1>1. u \in Runs
  BY <1>0, HolderFacts DEF Holders
<1>2. AuditsOK /\ OrderOK /\ JournalOK /\ RestOK
  BY DEF RunInv, TypeInv
<1>3. CASE /\ Authorized(u) /\ audit' = Renewed(u) /\ Goes(p, "child")
           /\ task' = [task EXCEPT !.status = "running"] /\ UNCHANGED outcome
  <2>1. JournalOK' /\ RestOK'
    BY <1>0, <1>2, <1>3 DEF JournalOK, RestOK, RowStatuses
  <2>2. RowsKept /\ AuditsOK' /\ OrderOK'
    BY <1>0, <1>1, <1>2, <1>3, RenewedRows DEF Authorized
  <2> QED BY <1>0, <1>3, <2>1, <2>2, HolderGoesOn DEF Holders
<1>4. CASE /\ outcome' = [outcome EXCEPT ![u] = "failed"] /\ Goes(p, "ended")
           /\ UNCHANGED <<audit, task>>
  <2>1. /\ outcome' \in [Runs -> Outcomes] /\ outcome'[u] # "none"
        /\ \A v \in Runs : outcome[v] # "none" => outcome'[v] # "none"
    BY <1>1, <1>2, <1>4 DEF RestOK, Outcomes
  <2>2. JournalOK' /\ RestOK' /\ AuditsOK' /\ OrderOK' /\ RowsKept
    BY <1>0, <1>2, <1>4, <2>1, SameRows DEF JournalOK, RestOK, AuditsOK, OrderOK
  <2> QED BY <1>0, <1>4, <2>1, <2>2, HolderGoesOn DEF Holders
<1> QED BY <1>3, <1>4 DEF Launch

LEMMA ChildEndsRuns == ASSUME RunInv, NEW p \in Procs, ChildEnds(p) \/ LoseLease(p) PROVE RunInv'
<1> DEFINE u == RunOf(p)
<1>0. /\ worker[p].stage \in {"child", "ended"}
      /\ UNCHANGED <<now, task, audit, order, journal, listed, proc>>
      /\ Goes(p, "ended") /\ faults' \in 0..MaxFaults
  BY SchedulerAssumption
  DEF SchedulerAssumption, ChildEnds, LoseLease, At, Fault, tables, RunInv, TypeInv, RestOK
<1>1. u \in Runs
  BY <1>0, HolderFacts DEF Holders
<1>2. AuditsOK /\ OrderOK /\ JournalOK /\ RestOK
  BY DEF RunInv, TypeInv
<1> PICK result \in {"success", "failed"} : outcome' = [outcome EXCEPT ![u] = result]
  BY DEF ChildEnds, LoseLease
<1>3. /\ outcome' \in [Runs -> Outcomes] /\ outcome'[u] # "none"
      /\ \A v \in Runs : outcome[v] # "none" => outcome'[v] # "none"
  BY <1>1, <1>2 DEF RestOK, Outcomes
<1>4. JournalOK' /\ RestOK' /\ AuditsOK' /\ OrderOK' /\ RowsKept
  BY <1>0, <1>2, <1>3, SameRows DEF JournalOK, RestOK, AuditsOK, OrderOK
<1> QED BY <1>0, <1>3, <1>4, HolderGoesOn DEF Holders

LEMMA RenewRuns == ASSUME RunInv, NEW p \in Procs, Renew(p) PROVE RunInv'
<1> USE DEF RunInv, TypeInv
<1> DEFINE u == RunOf(p)
<1>0. /\ worker[p].stage \in Holders /\ IsRunning(u) /\ audit' = Renewed(u)
      /\ UNCHANGED <<now, task, order, journal, listed, proc, worker, outcome, faults>>
  BY DEF Renew, Authorized, Holders
<1>1. u \in Runs
  BY <1>0, HolderFacts
<1>2. AuditsOK' /\ OrderOK' /\ RowsKept
  BY <1>0, <1>1, RenewedRows
<1>3. WorkersOK' /\ Distinct' /\ BusyIsUp' /\ JournalOK' /\ RestOK' /\ ProcsOK'
  BY <1>0 DEF WorkersOK, Distinct, BusyIsUp, RunOf, JournalOK, RestOK, ProcsOK
<1>4. Proper(p)'
  <2>1. RowKept(u)
    BY <1>1, <1>2 DEF RowsKept
  <2> QED BY <1>0, <2>1, ProperKept DEF Observed
<1> QED BY <1>0, <1>2, <1>3, <1>4, KeptRuns DEF Observed

(* The outcome is in the journal and the run is no longer relied on.       *)
LEMMA NoteRuns ==
  ASSUME RunInv, NEW p \in Procs, worker[p].stage \in {"ended", "retaining"}, Note(RunOf(p)),
         UNCHANGED <<now, task, audit, order, listed, proc, outcome>>, faults' \in 0..MaxFaults,
         Goes(p, "finishing") \/ Goes(p, "kept") \/ Ends(p)
  PROVE  RunInv'
<1> USE DEF RunInv, TypeInv
<1> DEFINE u == RunOf(p)
<1>1. /\ u \in Runs /\ audit[u] # NoAudit /\ outcome[u] \in Outcomes \ {"none"}
      /\ worker[p].stage # "free"
  BY HolderFacts DEF Holders, Proper, RestOK
<1>2. /\ JournalOK' /\ \A v \in Runs \ {u} : journal'[v] = journal[v]
      /\ journal'[u].observed # "none"
  BY <1>1, NoteTypes
<1>3. /\ WorkersOK' /\ Distinct' /\ BusyIsUp' /\ Proper(p)'
      /\ \A q \in Procs \ {p} : worker'[q] = worker[q]
  <2>1. ASSUME NEW stage \in {"finishing", "kept"}, Goes(p, stage)
        PROVE  /\ WorkersOK' /\ Distinct' /\ BusyIsUp' /\ Proper(p)'
               /\ \A q \in Procs \ {p} : worker'[q] = worker[q]
    <3>1. /\ WorkersOK' /\ Distinct' /\ BusyIsUp'
          /\ RunOf(p)' = u /\ worker'[p].stage = stage
          /\ \A q \in Procs \ {p} : worker'[q] = worker[q]
      BY <1>1, <2>1, WorkerGoes DEF WorkerStages
    <3>2. Observed(u)'
      BY <1>2, <3>1 DEF Observed
    <3>3. Proper(p)'
      BY <3>1, <3>2 DEF Proper, Holders, Observed
    <3> QED BY <3>1, <3>3
  <2>2. CASE Ends(p)
    BY <2>2, WorkerEnds
  <2> QED BY <2>1, <2>2
<1>4. ASSUME NEW q \in Procs \ {p}, worker[q].stage # "free"
      PROVE  journal'[RunOf(q)].observed = journal[RunOf(q)].observed
  <2>1. RunOf(q) \in Runs /\ RunOf(q) # u
    BY <1>1, <1>4, SchedulerAssumption DEF SchedulerAssumption, WorkersOK, RunOf, Distinct
  <2> QED BY <1>2, <2>1
<1>5. RestOK' /\ ProcsOK' /\ AuditsOK' /\ OrderOK' /\ RowsKept
  BY SameRows DEF RestOK, ProcsOK, AuditsOK, OrderOK
<1>6. \A v \in Runs : /\ Observed(v) => Observed(v)'
                      /\ Observed(v)' => Observed(v) \/ audit[v] # NoAudit
  BY <1>1, <1>2 DEF Observed
<1> QED BY <1>2, <1>3, <1>4, <1>5, <1>6, KeptRuns

LEMMA FailRuns ==
  ASSUME RunInv, NEW p \in Procs, worker[p].stage \in {"ended", "retaining"}, FailToNote(p),
         UNCHANGED <<now, task, audit, order, listed, proc, outcome>>
  PROVE  RunInv'
<1> USE DEF RunInv, TypeInv
<1> DEFINE u == RunOf(p)
<1>1. faults' \in 0..MaxFaults
  BY SchedulerAssumption DEF SchedulerAssumption, FailToNote, Fault, RestOK
<1>2. CASE Note(u) /\ Goes(p, "kept")
  BY <1>1, <1>2, NoteRuns
<1>3. ASSUME NEW breaks \in {{}, {"directory"}, {"record"}},
             journal' = Breaking(u, breaks), Goes(p, "retaining")
      PROVE  RunInv'
  <2>1. u \in Runs /\ outcome[u] # "none" /\ worker[p].stage \in Holders
    BY HolderFacts DEF Holders, Proper
  <2>2. breaks \in SUBSET Breaks
    BY DEF Breaks
  <2>3. /\ JournalOK' /\ \A v \in Runs \ {u} : journal'[v] = journal[v]
        /\ journal'[u].observed = journal[u].observed
    BY <1>3, <2>1, <2>2, BreakTypes
  <2>4. RestOK' /\ AuditsOK' /\ OrderOK' /\ RowsKept
    BY <1>1, SameRows DEF RestOK, AuditsOK, OrderOK
  <2>5. \A v \in Runs : journal'[v].observed = journal[v].observed
    BY <2>3
  <2> QED BY <1>3, <2>1, <2>3, <2>4, <2>5, HolderGoesOn
<1> QED BY <1>2, <1>3 DEF FailToNote

LEMMA ObserveRuns == ASSUME RunInv, NEW p \in Procs, Observe(p) \/ ObserveAgain(p) PROVE RunInv'
<1>0. UNCHANGED <<now, task, audit, order, listed, proc, outcome>>
  BY DEF Observe, ObserveAgain, tables
<1>1. CASE worker[p].stage \in {"ended", "retaining"} /\ FailToNote(p)
  BY <1>0, <1>1, FailRuns
<1>2. CASE /\ worker[p].stage \in {"ended", "retaining"} /\ Note(RunOf(p)) /\ UNCHANGED faults
           /\ Goes(p, "finishing") \/ Ends(p)
  <2>1. faults' \in 0..MaxFaults
    BY <1>2 DEF RunInv, TypeInv, RestOK
  <2> QED BY <1>0, <1>2, <2>1, NoteRuns
<1>3. CASE Ends(p) /\ UNCHANGED <<journal, faults>>
  <2>1. JournalOK' /\ RestOK' /\ ProcsOK' /\ AuditsOK' /\ OrderOK' /\ RowsKept
    BY <1>0, <1>3, SameRows
    DEF RunInv, TypeInv, JournalOK, RestOK, ProcsOK, AuditsOK, OrderOK
  <2> QED BY <1>0, <1>3, <2>1, WorkerEnds, KeptRuns DEF Observed
<1> QED BY <1>1, <1>2, <1>3 DEF Observe, ObserveAgain, At

(* What is published is in the journal, so nobody relies on it.            *)
LEMMA PublishRuns ==
  ASSUME RunInv, NEW u \in Runs, Observed(u), Current(u), Publish(u),
         UNCHANGED <<now, order, listed, proc, outcome>>,
         UNCHANGED worker \/ \E p \in Procs : Ends(p)
  PROVE  RunInv'
<1> USE DEF RunInv, TypeInv
<1>0. IsRunning(u)
  BY DEF Current
<1>1. /\ JournalOK' /\ \A v \in Runs \ {u} : journal'[v] = journal[v]
      /\ journal'[u].observed = journal[u].observed
  BY PublishJournal
<1>2. Final(u) \in Outcomes \ {"none"}
  BY DEF Final, Observed, JournalOK, JournalRow, Outcomes
<1>3. RestOK' /\ ProcsOK'
  <2>1. faults' \in 0..MaxFaults
    BY SchedulerAssumption DEF SchedulerAssumption, Publish, Commit, Fault, RestOK
  <2>2. task' \in [status : RowStatuses, at : 0..Horizon]
    BY <1>2 DEF Publish, Commit, RestOK, RowStatuses
  <2> QED BY <2>1, <2>2 DEF RestOK, ProcsOK
<1>4. AuditsOK' /\ OrderOK' /\ \A v \in Runs \ {u} : audit'[v] = audit[v]
  <2>1. CASE UNCHANGED audit
    BY <2>1 DEF AuditsOK, OrderOK
  <2>2. CASE audit' = [audit EXCEPT ![u].status = Final(u)]
    <3> DEFINE row == [audit[u] EXCEPT !.status = Final(u)]
    <3>1. row \in AuditRow /\ row.status # "none"
      BY <1>2 DEF AuditsOK, AuditRow, RowStatuses
    <3>2. audit' = [audit EXCEPT ![u] = row]
      BY <2>2
    <3> HIDE DEF row
    <3>3. AuditsOK' /\ OrderOK'
      BY <1>0, <3>1, <3>2, RowTypes
    <3> QED BY <3>2, <3>3 DEF AuditsOK
  <2> QED BY <2>1, <2>2 DEF Publish, Commit
<1>5. ASSUME NEW q \in Procs, worker'[q] = worker[q] PROVE Proper(q)'
  <2>1. CASE worker[q].stage \in Holders \cup {"claimed", "refused"}
    <3>1. RunOf(q) \in Runs /\ RunOf(q) # u
      BY <1>0, <2>1 DEF Proper, Own, IsRunning, NoAudit, WorkersOK, RunOf, Holders
    <3>2. RowKept(RunOf(q)) /\ journal'[RunOf(q)].observed = journal[RunOf(q)].observed
      BY <1>1, <1>4, <3>1 DEF RowKept
    <3> QED BY <1>1, <1>5, <3>2, ProperKept DEF Observed
  <2>2. CASE worker[q].stage \notin Holders \cup {"claimed", "refused"}
    BY <1>1, <1>5, <2>2, ProperKept DEF Observed
  <2> QED BY <2>1, <2>2
<1>6. Unseen'
  <2>1. audit[u] # NoAudit
    BY <1>0 DEF IsRunning, NoAudit
  <2>2. audit'[u] # NoAudit
    BY <1>4, <2>1 DEF OrderOK
  <2> QED BY <1>1, <1>4, <2>2 DEF Unseen, Observed
<1>7. CASE UNCHANGED worker
  <2>1. WorkersOK' /\ Distinct' /\ BusyIsUp'
    BY <1>7 DEF WorkersOK, Distinct, BusyIsUp, RunOf
  <2> QED BY <1>1, <1>3, <1>4, <1>5, <1>6, <1>7, <2>1
<1>8. CASE \E p \in Procs : Ends(p)
  <2> PICK p \in Procs : Ends(p)
    BY <1>8
  <2>1. /\ WorkersOK' /\ Distinct' /\ BusyIsUp' /\ Proper(p)'
        /\ \A q \in Procs \ {p} : worker'[q] = worker[q]
    BY WorkerEnds
  <2> QED BY <1>1, <1>3, <1>4, <1>5, <1>6, <2>1
<1> QED BY <1>7, <1>8

LEMMA FinishRuns == ASSUME RunInv, NEW p \in Procs, Finish(p) PROVE RunInv'
<1> USE DEF RunInv, TypeInv
<1>0. /\ worker[p].stage = "finishing" /\ Ends(p)
      /\ UNCHANGED <<now, order, listed, proc, outcome>>
  BY DEF Finish, At
<1>1. RunOf(p) \in Runs /\ Observed(RunOf(p))
  BY <1>0 DEF WorkersOK, Proper, RunOf
<1>2. CASE Current(RunOf(p)) /\ Publish(RunOf(p))
  BY <1>0, <1>1, <1>2, PublishRuns
<1>3. CASE UNCHANGED <<task, audit, journal, faults>>
  <2>1. JournalOK' /\ RestOK' /\ ProcsOK' /\ AuditsOK' /\ OrderOK' /\ RowsKept
    BY <1>0, <1>3, SameRows DEF JournalOK, RestOK, ProcsOK, AuditsOK, OrderOK
  <2> QED BY <1>0, <1>3, <2>1, WorkerEnds, KeptRuns DEF Observed
<1> QED BY <1>2, <1>3 DEF Finish

LEMMA RetryRuns == ASSUME RunInv, NEW p \in Procs, Retry(p) PROVE RunInv'
<1>1. PICK u \in ToRetry(p) : Current(u) /\ Publish(u)
  BY DEF Retry
<1>2. u \in Runs /\ Observed(u) /\ UNCHANGED <<now, order, listed, proc, worker, outcome>>
  BY DEF ToRetry, Running, Retry
<1> QED BY <1>1, <1>2, PublishRuns

(* A run that a living process owns is not abandoned.                      *)
LEMMA OwnedIsNotAbandoned ==
  ASSUME RunInv, NEW q \in Procs, worker[q].stage # "free", Own(q)
  PROVE  RunOf(q) \in Running /\ ~Abandoned(RunOf(q))
<1>1. RunOf(q) \in Runs /\ proc[q].up /\ proc[q].pid <= proc[q].life
  BY DEF RunInv, TypeInv, WorkersOK, RunOf, BusyIsUp, ProcsOK
<1>2. proc[q].pid \in Nat /\ proc[q].life \in Nat
  BY DEF RunInv, TypeInv, ProcsOK, ProcRow
<1>3. ~OwnerGone(RunOf(q))
  BY <1>1, <1>2 DEF Own, OwnerGone
<1> QED BY <1>1, <1>3 DEF Own, Running, Abandoned

LEMMA RecoverRuns == ASSUME RunInv, NEW p \in Procs, Recover(p) PROVE RunInv'
<1> USE DEF RunInv, TypeInv
<1>0. /\ \A u \in Running : Abandoned(u)
      /\ task' = [task EXCEPT !.status = "failed"]
      /\ audit' = [u \in Runs |->
                     IF IsRunning(u) THEN [audit[u] EXCEPT !.status = "failed"] ELSE audit[u]]
      /\ UNCHANGED <<now, order, journal, listed, proc, worker, outcome, faults>>
  BY DEF Recover
<1>1. \A q \in Procs : worker[q].stage # "free" => ~Own(q)
  BY <1>0, OwnedIsNotAbandoned
<1>2. WorkersOK' /\ JournalOK' /\ Distinct' /\ BusyIsUp' /\ RestOK' /\ ProcsOK'
  <2>1. WorkersOK' /\ JournalOK' /\ Distinct' /\ BusyIsUp' /\ ProcsOK'
    BY <1>0 DEF WorkersOK, JournalOK, Distinct, BusyIsUp, RunOf, ProcsOK
  <2>2. RestOK'
    BY <1>0 DEF RestOK, RowStatuses, Outcomes
  <2> QED BY <2>1, <2>2
<1>3. \A u \in Runs : audit'[u] \in AuditRow /\ (audit'[u] = NoAudit <=> audit[u] = NoAudit)
  BY <1>0 DEF AuditsOK, AuditRow, IsRunning, NoAudit, RowStatuses, Outcomes
<1>4. AuditsOK' /\ OrderOK'
  BY <1>0, <1>3 DEF AuditsOK, OrderOK
<1>5. Unseen'
  BY <1>0, <1>3 DEF Unseen, Observed
<1>6. ASSUME NEW q \in Procs PROVE Proper(q)'
  <2>1. Proper(q) /\ RunOf(q)' = RunOf(q) /\ worker'[q] = worker[q]
    BY <1>0 DEF RunOf
  <2>2. worker[q].stage \notin Holders
    BY <1>1, <2>1 DEF Proper, Holders
  <2>3. worker[q].stage \in {"claimed", "refused"} => audit[RunOf(q)] = NoAudit /\ RunOf(q) \in Runs
    BY <1>1, <2>1 DEF Proper, WorkersOK, RunOf
  <2>4. worker[q].stage \in {"claimed", "refused"} => audit'[RunOf(q)] = NoAudit
    BY <1>3, <2>3
  <2> QED BY <1>0, <2>1, <2>2, <2>4 DEF Proper, Holders, Observed
<1> QED BY <1>2, <1>4, <1>5, <1>6

LEMMA ProcessRuns == ASSUME RunInv, NEW p \in Procs, Crash(p) \/ Restart(p) PROVE RunInv'
<1> USE DEF RunInv, TypeInv
<1>0. /\ UNCHANGED <<now, task, audit, order, journal, listed, outcome>>
      /\ faults' \in 0..MaxFaults
  BY SchedulerAssumption DEF SchedulerAssumption, Crash, Restart, Fault, tables, RestOK
<1>1. /\ worker'[p].stage = "free" /\ worker'[p].run \in {worker[p].run, NoRun}
      /\ \A q \in Procs \ {p} : worker'[q] = worker[q] /\ proc'[q] = proc[q]
      /\ WorkersOK' /\ ProcsOK'
  <2>0. proc \in [Procs -> ProcRow] /\ now \in 0..Horizon
    BY DEF ProcsOK, RestOK
  <2>1. CASE Crash(p)
    <3> DEFINE row == [proc[p] EXCEPT !.up = FALSE, !.since = now]
    <3>1. /\ worker' = [worker EXCEPT ![p] = Free] /\ proc' = [proc EXCEPT ![p] = row]
      BY <2>0, <2>1 DEF Crash
    <3>2. row \in ProcRow /\ row.pid = proc[p].pid /\ row.life = proc[p].life
      BY <2>0 DEF ProcRow
    <3> HIDE DEF row
    <3>3. ProcsOK' /\ \A q \in Procs \ {p} : proc'[q] = proc[q]
      BY <3>1, <3>2 DEF ProcsOK
    <3>4. WorkersOK' /\ worker'[p] = Free /\ \A q \in Procs \ {p} : worker'[q] = worker[q]
      BY <3>1 DEF WorkersOK, Free, WorkerStages
    <3> QED BY <3>3, <3>4 DEF Free
  <2>2. CASE Restart(p)
    <3> DEFINE life == proc[p].life + 1
               anew == [up |-> TRUE, since |-> now, life |-> life, pid |-> life]
               again == [proc[p] EXCEPT !.up = TRUE, !.since = now, !.life = life]
    <3>1. proc' = [proc EXCEPT ![p] = anew] \/ proc' = [proc EXCEPT ![p] = again]
      BY <2>2 DEF Restart
    <3>2. /\ anew \in ProcRow /\ anew.pid <= anew.life
          /\ again \in ProcRow /\ again.pid <= again.life
      <4>1. proc[p] \in ProcRow /\ proc[p].pid <= proc[p].life /\ proc[p].life \in Nat
        BY <2>0 DEF ProcsOK, ProcRow
      <4>2. life \in Nat /\ proc[p].pid <= life
        BY <4>1 DEF ProcRow
      <4>3. anew \in ProcRow /\ anew.pid <= anew.life
        BY <2>0, <4>2 DEF ProcRow
      <4> HIDE DEF life
      <4>4. again \in ProcRow /\ again.pid = proc[p].pid /\ again.life = life
        BY <2>0, <4>1, <4>2 DEF ProcRow
      <4> QED BY <4>2, <4>3, <4>4
    <3> HIDE DEF life, anew, again
    <3>3. PICK row \in {anew, again} : proc' = [proc EXCEPT ![p] = row]
      BY <3>1
    <3>4. ProcsOK' /\ \A q \in Procs \ {p} : proc'[q] = proc[q]
      BY <3>2, <3>3 DEF ProcsOK
    <3>5. UNCHANGED worker /\ worker[p].stage = "free"
      BY <2>2 DEF Restart, Up, BusyIsUp
    <3> QED BY <3>4, <3>5 DEF WorkersOK
  <2> QED BY <2>1, <2>2
<1>2. Distinct' /\ BusyIsUp'
  BY <1>1 DEF Distinct, BusyIsUp, RunOf
<1>3. Proper(p)'
  BY <1>1 DEF Proper, Holders
<1>4. JournalOK' /\ RestOK' /\ AuditsOK' /\ OrderOK' /\ RowsKept
  BY <1>0, SameRows DEF JournalOK, RestOK, AuditsOK, OrderOK
<1> QED BY <1>0, <1>1, <1>2, <1>3, <1>4, KeptRuns DEF Observed

LEMMA TickRows ==
  ASSUME RunInv, Tick
  PROVE  AuditsOK' /\ OrderOK' /\ RowsKept
<1> USE DEF RunInv, TypeInv
<1>0. /\ audit' = [u \in Runs |->
                     IF Authorized(u) THEN [audit[u] EXCEPT !.left = audit[u].left - 1] ELSE audit[u]]
      /\ UNCHANGED order
  BY DEF Tick
<1>1. ASSUME NEW u \in Runs PROVE audit'[u] \in AuditRow /\ RowKept(u)
  <2>0. audit[u] \in AuditRow
    BY DEF AuditsOK
  <2>1. CASE Authorized(u)
    <3>1. audit'[u] = [audit[u] EXCEPT !.left = audit[u].left - 1]
      BY <1>0, <2>1
    <3>2. audit[u].left \in 1..Lease /\ audit[u].status = "running"
      BY <2>0, <2>1, SchedulerAssumption
      DEF SchedulerAssumption, Authorized, LeaseOver, IsRunning, AuditRow
    <3>3. audit[u].left - 1 \in 0..Lease
      BY <3>2, SchedulerAssumption DEF SchedulerAssumption
    <3> QED BY <2>0, <3>1, <3>2, <3>3 DEF AuditRow, NoAudit, RowKept
  <2>2. CASE ~Authorized(u)
    BY <1>0, <2>0, <2>2 DEF RowKept
  <2> QED BY <2>1, <2>2
<1> QED BY <1>0, <1>1 DEF AuditsOK, OrderOK, RowsKept, RowKept

(* Nobody acts.                                                            *)
LEMMA IdleRuns ==
  ASSUME RunInv, UNCHANGED <<journal, proc, worker, outcome>>,
         RestOK', AuditsOK', OrderOK', RowsKept
  PROVE  RunInv'
<1> USE DEF RunInv, TypeInv
<1>1. WorkersOK' /\ Distinct' /\ BusyIsUp' /\ JournalOK' /\ ProcsOK'
  BY DEF WorkersOK, Distinct, BusyIsUp, RunOf, JournalOK, ProcsOK
<1>2. ASSUME NEW q \in Procs PROVE Proper(q)'
  <2>1. worker[q].stage # "free" => RowKept(RunOf(q))
    BY DEF RowsKept, WorkersOK, RunOf
  <2> QED BY <2>1, ProperKept DEF Observed, Holders
<1>3. Unseen'
  BY DEF Unseen, Observed, RowsKept, RowKept
<1> QED BY <1>1, <1>2, <1>3

LEMMA TickRuns == ASSUME RunInv, Tick \/ Unlist \/ Relist PROVE RunInv'
<1>0. UNCHANGED <<journal, proc, worker, outcome>>
  BY DEF Tick, Unlist, Relist
<1>1. RestOK'
  <2>0. RestOK /\ Horizon \in Nat /\ MaxFaults \in Nat
    BY SchedulerAssumption DEF SchedulerAssumption, RunInv, TypeInv
  <2>1. CASE Tick
    BY <2>0, <2>1 DEF Tick, RestOK
  <2>2. CASE Unlist
    <3>1. faults' \in 0..MaxFaults
      BY <2>0, <2>2 DEF Unlist, Fault, RestOK
    <3>2. UNCHANGED <<now, task, outcome>> /\ listed' \in BOOLEAN
      BY <2>2 DEF Unlist, tables
    <3> QED BY <2>0, <3>1, <3>2 DEF RestOK
  <2>3. CASE Relist
    BY <2>0, <2>3 DEF Relist, tables, RestOK
  <2> QED BY <2>1, <2>2, <2>3
<1>2. CASE Tick
  BY <1>0, <1>1, <1>2, TickRows, IdleRuns
<1>3. CASE Unlist \/ Relist
  <2>1. UNCHANGED <<audit, order>>
    BY <1>3 DEF Unlist, Relist, tables
  <2>2. AuditsOK' /\ OrderOK' /\ RowsKept
    BY <2>1, SameRows DEF RunInv, TypeInv, AuditsOK, OrderOK
  <2> QED BY <1>0, <1>1, <2>2, IdleRuns
<1> QED BY <1>2, <1>3

LEMMA StepRuns == RunInv /\ [Next]_vars => RunInv'
<1> SUFFICES ASSUME RunInv, [Next]_vars PROVE RunInv'
  OBVIOUS
<1>1. CASE UNCHANGED vars
  <2>1. /\ UNCHANGED <<journal, proc, worker, outcome>>
        /\ RestOK' /\ AuditsOK' /\ OrderOK' /\ RowsKept
    BY <1>1, SameRows DEF vars, RunInv, TypeInv, RestOK, AuditsOK, OrderOK
  <2> QED BY <2>1, IdleRuns
<1>2. CASE Tick \/ Unlist \/ Relist
  BY <1>2, TickRuns
<1>3. ASSUME NEW p \in Procs, NEW u \in Runs, Claim(p, u) PROVE RunInv'
  BY <1>3, ClaimRuns
<1>4. ASSUME NEW p \in Procs, Work(p) PROVE RunInv'
  BY <1>4, StartAuditRuns, RefuseRuns, LaunchRuns, ChildEndsRuns, ObserveRuns, FinishRuns DEF Work
<1>5. ASSUME NEW p \in Procs, Renew(p) \/ LoseLease(p) \/ Poll(p) PROVE RunInv'
  BY <1>5, RenewRuns, ChildEndsRuns, RetryRuns, RecoverRuns DEF Poll
<1>6. ASSUME NEW p \in Procs, Crash(p) \/ Restart(p) PROVE RunInv'
  BY <1>6, ProcessRuns
<1> QED BY <1>1, <1>2, <1>3, <1>4, <1>5, <1>6 DEF Next

(* Every table holds what its columns may, a lease never grows past its    *)
(* length, and the audit ids order exactly the runs that have an audit.    *)
THEOREM SchedulerTypeCorrect == Spec => []TypeOK
<1>1. RunInv => TypeOK
  BY TypeInvIsTypeOK DEF RunInv
<1> QED BY <1>1, InitRuns, StepRuns, PTL DEF Spec

-----------------------------------------------------------------------------
(* Who is engaged in the task, where a claim cannot be taken for one of    *)
(* the audits before it: it has its audit at once, or comes later than a   *)
(* second after the claim before.                                          *)

Spaced == OneTransaction \/ Apart > 1
Engaged(p) == worker[p].stage \notin {"free", "finishing", "kept"}
Waiting(p) ==
  /\ task.status = "running" /\ audit[RunOf(p)] = NoAudit
  /\ \A u \in Runs : audit[u] # NoAudit => audit[u].at + 1 < task.at
Engagement == \A p \in Procs : Engaged(p) => Waiting(p) \/ Current(RunOf(p))
Single == \A p, q \in Procs : Engaged(p) /\ Engaged(q) => p = q
Stamped == \A u \in Runs : audit[u] # NoAudit => audit[u].at <= task.at
GuardInv == Spaced /\ Single /\ Engagement /\ Stamped

LEMMA InitGuards == Init /\ Spaced => GuardInv
  BY DEF Init, GuardInv, Single, Engagement, Engaged, Stamped, Free

LEMMA EngagedStages ==
  ASSUME RunInv, NEW p \in Procs
  PROVE  /\ Engaged(p) <=> worker[p].stage \in Holders \cup {"claimed", "refused"}
         /\ Engaged(p) => RunOf(p) \in Runs
  BY DEF RunInv, TypeInv, WorkersOK, WorkerStages, Engaged, Holders, RunOf

(* Two runs are not both the newest, and a claim without an audit is newer *)
(* than every audit, so who is engaged waits for, or owns, the newest.     *)
LEMMA NobodyElse ==
  ASSUME RunInv, GuardInv, NEW u \in Runs, Current(u), NEW q \in Procs, Engaged(q)
  PROVE  RunOf(q) = u /\ ~Observed(u)
<1>1. ~Waiting(q)
  <2>1. audit[u] # NoAudit /\ audit[u].at = task.at /\ task.at \in Nat
    BY SchedulerAssumption
    DEF SchedulerAssumption, Current, IsRunning, NoAudit, RunInv, TypeInv, RestOK
  <2> QED BY <2>1 DEF Waiting
<1>2. RunOf(q) = u
  BY <1>1 DEF GuardInv, Engagement, Current
<1>3. audit[u] # NoAudit
  BY DEF Current, IsRunning, NoAudit
<1>4. Own(q)
  BY <1>2, <1>3, EngagedStages DEF RunInv, Proper
<1> QED BY <1>2, <1>4 DEF Own

(* Steps after which nobody is engaged, and steps after which only some    *)
(* are that were before, in the same tables.                               *)
LEMMA GuardFree ==
  ASSUME RunInv, RunInv', GuardInv, \A q \in Procs : ~Engaged(q)', task'.at = task.at,
         \A u \in Runs : audit'[u] # NoAudit => audit[u] # NoAudit /\ audit'[u].at = audit[u].at
  PROVE  GuardInv'
  BY DEF GuardInv, Spaced, Single, Engagement, Stamped

LEMMA GuardKept ==
  ASSUME RunInv, RunInv', GuardInv, RowsKept, UNCHANGED <<task, order>>,
         \A q \in Procs : Engaged(q)' => Engaged(q) /\ worker'[q].run = worker[q].run
  PROVE  GuardInv'
<1>1. Spaced' /\ Single'
  BY DEF GuardInv, Spaced, Single
<1>2. Stamped'
  BY DEF GuardInv, Stamped, RowsKept, RowKept
<1>3. ASSUME NEW q \in Procs, Engaged(q)' PROVE (Waiting(q) \/ Current(RunOf(q)))'
  <2>1. Engaged(q) /\ RunOf(q)' = RunOf(q) /\ RunOf(q) \in Runs
    BY <1>3, EngagedStages DEF RunOf
  <2>2. CASE Waiting(q)
    <3>1. audit'[RunOf(q)] = NoAudit
      BY <2>1, <2>2 DEF Waiting, RowsKept, RowKept
    <3>2. \A u \in Runs : audit'[u] # NoAudit => audit'[u].at + 1 < task'.at
      BY <2>2 DEF Waiting, RowsKept, RowKept
    <3> QED BY <2>1, <2>2, <3>1, <3>2 DEF Waiting
  <2>3. CASE Current(RunOf(q))
    <3>1. /\ audit'[RunOf(q)].status = audit[RunOf(q)].status
          /\ audit'[RunOf(q)].at = audit[RunOf(q)].at
      BY <2>1 DEF RowsKept, RowKept
    <3> QED BY <2>1, <2>3, <3>1 DEF Current, IsRunning
  <2> QED BY <2>1, <2>2, <2>3 DEF GuardInv, Engagement
<1> QED BY <1>1, <1>2, <1>3 DEF GuardInv, Engagement

(* The task is not running, so nobody is engaged.                          *)
LEMMA ClaimGuards ==
  ASSUME RunInv, RunInv', GuardInv, NEW p \in Procs, NEW u \in Runs, Claim(p, u)
  PROVE  GuardInv'
<1> USE DEF RunInv, TypeInv, GuardInv
<1>0. /\ Claimable /\ u \in Unused /\ task' = [status |-> "running", at |-> now]
  BY DEF Claim, ClaimedTask
<1>1. now \in Nat /\ Apart \in Nat /\ task.at \in Nat
  BY SchedulerAssumption DEF SchedulerAssumption, RestOK
<1>2. \A q \in Procs : ~Engaged(q)
  BY <1>0 DEF Claimable, Engagement, Waiting, Current
<1>3. \A v \in Runs : audit[v] # NoAudit => audit[v].at \in Nat /\ audit[v].at + Apart <= now
  <2> SUFFICES ASSUME NEW v \in Runs, audit[v] # NoAudit
               PROVE  audit[v].at \in Nat /\ audit[v].at + Apart <= now
    OBVIOUS
  <2>1. order # <<>>
    BY DEF OrderOK, ToSet
  <2>2. task.at + Apart <= now /\ audit[v].at <= task.at /\ audit[v].at \in Nat
    BY <1>0, <1>1, <2>1, SchedulerAssumption
    DEF SchedulerAssumption, Claimable, Stamped, AuditsOK, AuditRow
  <2> QED BY <1>1, <2>2
<1>4. audit[u] = NoAudit
  BY <1>0 DEF Unused
<1>5. /\ \A v \in Runs \ {u} : audit'[v] = audit[v]
      /\ IF OneTransaction THEN audit'[u] = NewAudit(p, now) /\ Last(order') = u
                           ELSE audit'[u] = NoAudit
  <2>1. CASE OneTransaction
    <3>1. audit' = [audit EXCEPT ![u] = NewAudit(p, now)] /\ order' = Append(order, u)
      BY <2>1 DEF Claim
    <3>2. NewAudit(p, now) \in AuditRow /\ NewAudit(p, now).status # "none"
      BY NewTypes DEF RestOK
    <3>3. Last(order') = u
      BY <1>4, <3>1, <3>2, AddTypes
    <3> QED BY <2>1, <3>1, <3>3 DEF AuditsOK
  <2>2. CASE ~OneTransaction
    BY <1>4, <2>2 DEF Claim
  <2> QED BY <2>1, <2>2
<1>6. Stamped'
  <2> SUFFICES ASSUME NEW v \in Runs, audit'[v] # NoAudit PROVE audit'[v].at <= now
    BY <1>0 DEF Stamped
  <2>1. CASE v = u
    BY <1>1, <1>5, <2>1 DEF NewAudit
  <2>2. CASE v # u
    BY <1>1, <1>3, <1>5, <2>2
  <2> QED BY <2>1, <2>2
<1>7. /\ \A q \in Procs \ {p} : worker'[q] = worker[q]
      /\ \/ worker'[p] = worker[p]
         \/ worker'[p] = [stage |-> IF OneTransaction THEN "audited" ELSE "claimed", run |-> u]
  BY DEF Claim, WorkersOK
<1>8. \A q \in Procs \ {p} : ~Engaged(q)'
  BY <1>2, <1>7 DEF Engaged
<1>9. Single' /\ Spaced'
  BY <1>8 DEF Single, Spaced
<1>10. ASSUME Engaged(p)' PROVE (Waiting(p) \/ Current(RunOf(p)))'
  <2>1. worker'[p] = [stage |-> IF OneTransaction THEN "audited" ELSE "claimed", run |-> u]
    BY <1>2, <1>7, <1>10 DEF Engaged
  <2>2. RunOf(p)' = u
    BY <2>1 DEF RunOf
  <2>3. CASE OneTransaction
    BY <1>0, <1>5, <2>2, <2>3 DEF Current, IsRunning, NewAudit
  <2>4. CASE ~OneTransaction
    <3>1. Apart > 1
      BY <2>4 DEF Spaced
    <3>2. \A v \in Runs : audit'[v] # NoAudit => audit'[v].at + 1 < now
      BY <1>1, <1>3, <1>5, <2>4, <3>1
    <3> QED BY <1>0, <1>5, <2>2, <2>4, <3>2 DEF Waiting
  <2> QED BY <2>3, <2>4
<1> QED BY <1>6, <1>8, <1>9, <1>10 DEF Engagement

LEMMA StartAuditGuards ==
  ASSUME RunInv, RunInv', GuardInv, NEW p \in Procs, StartAudit(p)
  PROVE  GuardInv'
<1> USE DEF RunInv, TypeInv
<1> DEFINE u == RunOf(p)
<1>0. worker[p].stage = "claimed" /\ UNCHANGED task /\ task.at \in 0..Horizon
  BY DEF StartAudit, At, RestOK
<1>1. u \in Runs /\ audit[u] = NoAudit /\ Engaged(p)
  BY <1>0 DEF WorkersOK, RunOf, Proper, Engaged
<1>2. worker'[p].run = u /\ \A q \in Procs \ {p} : worker'[q] = worker[q]
  BY DEF StartAudit, Goes, WorkersOK, RunOf
<1>3. CASE UNCHANGED <<audit, order>>
  BY <1>0, <1>1, <1>2, <1>3, SameRows, GuardKept DEF Engaged, RunOf
<1>4. CASE audit' = [audit EXCEPT ![u] = NewAudit(p, task.at)] /\ order' = Append(order, u)
  <2>1. task.status = "running"
    BY <1>1, <1>4 DEF GuardInv, Engagement, Waiting, Current
  <2>2. audit'[u] = NewAudit(p, task.at) /\ \A v \in Runs \ {u} : audit'[v] = audit[v]
    BY <1>1, <1>4 DEF AuditsOK
  <2>3. Last(order') = u
    <3>1. NewAudit(p, task.at) \in AuditRow /\ NewAudit(p, task.at).status # "none"
      BY <1>0, NewTypes
    <3> QED BY <1>1, <1>4, <3>1, AddTypes
  <2>4. Current(RunOf(p))'
    BY <1>0, <1>2, <2>1, <2>2, <2>3 DEF Current, IsRunning, NewAudit, RunOf
  <2>5. \A q \in Procs \ {p} : ~Engaged(q)'
    BY <1>1, <1>2 DEF GuardInv, Single, Engaged
  <2>6. Stamped'
    BY <1>0, <2>2, SchedulerAssumption
    DEF SchedulerAssumption, GuardInv, Stamped, NewAudit
  <2> QED BY <2>4, <2>5, <2>6 DEF GuardInv, Spaced, Single, Engagement
<1> QED BY <1>3, <1>4 DEF StartAudit

(* The one who was engaged leaves.                                         *)
LEMMA RefuseGuards ==
  ASSUME RunInv, RunInv', GuardInv, NEW p \in Procs, Refuse(p)
  PROVE  GuardInv'
<1> USE DEF RunInv, TypeInv
<1>1. /\ Engaged(p) /\ UNCHANGED audit /\ task'.at = task.at
      /\ worker'[p] = Free /\ \A q \in Procs \ {p} : worker'[q] = worker[q]
  BY DEF Refuse, At, Engaged, Ends, WorkersOK, RestOK
<1>2. \A q \in Procs : ~Engaged(q)'
  BY <1>1 DEF GuardInv, Single, Engaged, Free
<1> QED BY <1>1, <1>2, GuardFree

LEMMA HolderGuards ==
  ASSUME RunInv, RunInv', GuardInv, NEW p \in Procs,
         Launch(p) \/ Renew(p) \/ ChildEnds(p) \/ LoseLease(p) \/ Observe(p) \/ ObserveAgain(p)
  PROVE  GuardInv'
<1> USE DEF RunInv, TypeInv
<1>1. worker[p].stage \in Holders \cup {"kept"} /\ UNCHANGED order
  BY DEF Launch, Renew, ChildEnds, LoseLease, Observe, ObserveAgain, At, Holders, tables
<1>2. UNCHANGED worker \/ Ends(p) \/ \E stage \in WorkerStages : Goes(p, stage)
  BY DEF Launch, Renew, ChildEnds, LoseLease, Observe, ObserveAgain, FailToNote, WorkerStages
<1>3. /\ \A q \in Procs \ {p} : worker'[q] = worker[q]
      /\ worker'[p] = Free \/ worker'[p].run = worker[p].run
  BY <1>2 DEF Goes, Ends, WorkersOK
<1>4. UNCHANGED task /\ RowsKept
  <2>1. CASE UNCHANGED <<task, audit>>
    BY <2>1, SameRows
  <2>2. CASE Launch(p) /\ audit' = Renewed(RunOf(p)) /\ task' = [task EXCEPT !.status = "running"]
    <3>1. worker[p].stage \in Holders /\ Engaged(p)
      BY <2>2 DEF Launch, At, Holders, Engaged
    <3>2. RunOf(p) \in Runs /\ IsRunning(RunOf(p)) /\ ~Waiting(p)
      BY <3>1, HolderFacts DEF Own, Waiting
    <3>3. task.status = "running"
      BY <3>1, <3>2 DEF GuardInv, Engagement, Current
    <3>4. RowsKept
      BY <1>1, <2>2, <3>2, RenewedRows
    <3> QED BY <2>2, <3>3, <3>4 DEF RestOK
  <2>3. CASE UNCHANGED task /\ Renew(p)
    <3>1. worker[p].stage \in Holders
      BY <2>3 DEF Renew, Holders
    <3>2. RunOf(p) \in Runs /\ IsRunning(RunOf(p))
      BY <3>1, HolderFacts DEF Own
    <3>3. audit' = Renewed(RunOf(p))
      BY <2>3 DEF Renew
    <3>4. RowsKept
      BY <1>1, <3>2, <3>3, RenewedRows
    <3> QED BY <2>3, <3>4
  <2> QED BY <2>1, <2>2, <2>3
          DEF Launch, Renew, ChildEnds, LoseLease, Observe, ObserveAgain, tables
<1>5. ASSUME NEW q \in Procs, Engaged(q)' PROVE Engaged(q) /\ worker'[q].run = worker[q].run
  <2>1. CASE q # p
    BY <1>3, <1>5, <2>1 DEF Engaged
  <2>2. CASE q = p /\ worker[p].stage \in Holders
    BY <1>3, <1>5, <2>2 DEF Engaged, Free, Holders
  <2>3. CASE q = p /\ worker[p].stage = "kept"
    <3>1. ObserveAgain(p) /\ Ends(p)
      BY <2>3 DEF Launch, Renew, ChildEnds, LoseLease, Observe, ObserveAgain, At
    <3>2. worker'[p] = Free
      BY <3>1 DEF Ends, WorkersOK
    <3> QED BY <1>5, <2>3, <3>2 DEF Engaged, Free
  <2> QED BY <1>1, <2>1, <2>2, <2>3
<1> QED BY <1>1, <1>4, <1>5, GuardKept

LEMMA PublishGuards ==
  ASSUME RunInv, RunInv', GuardInv, NEW u \in Runs, Observed(u), Current(u), Publish(u),
         \A q \in Procs : Engaged(q)' => Engaged(q)
  PROVE  GuardInv'
<1> USE DEF RunInv, TypeInv
<1>1. \A q \in Procs : ~Engaged(q)'
  BY NobodyElse
<1>2. task'.at = task.at
  BY DEF Publish, Commit, RestOK
<1>3. audit[u] # NoAudit
  BY DEF Current, IsRunning, NoAudit
<1>4. \A v \in Runs : audit'[v].at = audit[v].at /\ (v # u => audit'[v] = audit[v])
  BY DEF Publish, Commit, AuditsOK, AuditRow
<1> QED BY <1>1, <1>2, <1>3, <1>4, GuardFree

LEMMA FinishGuards ==
  ASSUME RunInv, RunInv', GuardInv, NEW p \in Procs, Finish(p)
  PROVE  GuardInv'
<1> USE DEF RunInv, TypeInv
<1>1. /\ worker[p].stage = "finishing" /\ UNCHANGED order
      /\ worker'[p] = Free /\ \A q \in Procs \ {p} : worker'[q] = worker[q]
  BY DEF Finish, At, Ends, WorkersOK
<1>2. \A q \in Procs : Engaged(q)' => Engaged(q) /\ worker'[q].run = worker[q].run
  BY <1>1 DEF Engaged, Free
<1>3. CASE Current(RunOf(p)) /\ Publish(RunOf(p))
  <2>1. RunOf(p) \in Runs /\ Observed(RunOf(p))
    BY <1>1 DEF WorkersOK, Proper, RunOf
  <2> QED BY <1>2, <1>3, <2>1, PublishGuards
<1>4. CASE UNCHANGED <<task, audit>>
  BY <1>1, <1>2, <1>4, SameRows, GuardKept
<1> QED BY <1>3, <1>4 DEF Finish

LEMMA RetryGuards ==
  ASSUME RunInv, RunInv', GuardInv, NEW p \in Procs, Retry(p)
  PROVE  GuardInv'
<1>1. PICK u \in ToRetry(p) : Current(u) /\ Publish(u)
  BY DEF Retry
<1>2. u \in Runs /\ Observed(u) /\ UNCHANGED worker
  BY DEF ToRetry, Running, Retry
<1>3. \A q \in Procs : Engaged(q)' => Engaged(q)
  BY <1>2 DEF Engaged
<1> QED BY <1>1, <1>2, <1>3, PublishGuards

(* A claim without an audit is not accounted for.                          *)
LEMMA RecoverGuards ==
  ASSUME RunInv, RunInv', GuardInv, NEW p \in Procs, Recover(p)
  PROVE  GuardInv'
<1> USE DEF RunInv, TypeInv
<1>0. /\ Running # {} /\ Accounted /\ \A u \in Running : Abandoned(u)
      /\ task' = [task EXCEPT !.status = "failed"]
      /\ audit' = [u \in Runs |->
                     IF IsRunning(u) THEN [audit[u] EXCEPT !.status = "failed"] ELSE audit[u]]
      /\ UNCHANGED worker
  BY DEF Recover
<1>1. \A q \in Procs : ~Engaged(q)
  <2> SUFFICES ASSUME NEW q \in Procs, Engaged(q) PROVE FALSE
    OBVIOUS
  <2>1. ~Own(q)
    BY <1>0, OwnedIsNotAbandoned DEF Engaged
  <2>2. audit[RunOf(q)] = NoAudit
    BY <2>1, EngagedStages DEF Proper
  <2>3. Waiting(q)
    BY <2>2 DEF GuardInv, Engagement, Current, IsRunning, NoAudit
  <2>4. \A u \in Running : ~(task.at <= audit[u].at + 1)
    <3> SUFFICES ASSUME NEW u \in Running PROVE ~(task.at <= audit[u].at + 1)
      OBVIOUS
    <3>1. audit[u] # NoAudit /\ u \in Runs
      BY DEF Running, IsRunning, NoAudit
    <3>2. audit[u].at + 1 < task.at
      BY <2>3, <3>1 DEF Waiting
    <3>3. audit[u].at \in Nat /\ task.at \in Nat
      BY <3>1, SchedulerAssumption DEF SchedulerAssumption, RestOK, AuditsOK, AuditRow
    <3> QED BY <3>2, <3>3
  <2>5. PICK v \in Runs : IsRunning(v)
    BY <1>0 DEF Running
  <2>6. v \in ToSet(order) /\ order \in Seq(Runs)
    BY <2>5 DEF OrderOK, IsRunning, NoAudit
  <2>7. Last(order) \in ToSet(order)
    BY <2>6, LastFacts
  <2>8. Last(order) \in Runs /\ audit[Last(order)] # NoAudit
    BY <2>6, <2>7 DEF OrderOK, ToSet
  <2>9. audit[Last(order)].at + 1 < task.at /\ audit[Last(order)].at \in Nat
    BY <2>3, <2>8, SchedulerAssumption DEF SchedulerAssumption, Waiting, AuditsOK, AuditRow
  <2>10. audit[Last(order)].at # task.at
    BY <2>9
  <2> QED BY <1>0, <2>4, <2>10 DEF Accounted
<1>2. \A q \in Procs : ~Engaged(q)'
  BY <1>0, <1>1 DEF Engaged
<1>3. task'.at = task.at
  BY <1>0 DEF RestOK
<1>4. \A u \in Runs : audit'[u] # NoAudit => audit[u] # NoAudit /\ audit'[u].at = audit[u].at
  BY <1>0 DEF AuditsOK, AuditRow, IsRunning, NoAudit
<1> QED BY <1>2, <1>3, <1>4, GuardFree

LEMMA ProcessGuards ==
  ASSUME RunInv, RunInv', GuardInv, NEW p \in Procs, Crash(p) \/ Restart(p)
  PROVE  GuardInv'
<1>1. /\ UNCHANGED <<task, audit, order>>
      /\ UNCHANGED worker \/ worker' = [worker EXCEPT ![p] = Free]
  BY DEF Crash, Restart, tables
<1>2. \A q \in Procs : Engaged(q)' => Engaged(q) /\ worker'[q].run = worker[q].run
  BY <1>1 DEF RunInv, TypeInv, WorkersOK, Engaged, Free
<1> QED BY <1>1, <1>2, SameRows, GuardKept

LEMMA IdleGuards ==
  ASSUME RunInv, RunInv', GuardInv, Tick \/ Unlist \/ Relist \/ UNCHANGED vars
  PROVE  GuardInv'
<1>1. UNCHANGED <<task, order, worker>>
  BY DEF Tick, Unlist, Relist, tables, vars
<1>2. RowsKept
  BY TickRows, SameRows DEF Unlist, Relist, tables, vars
<1> QED BY <1>1, <1>2, GuardKept DEF Engaged

LEMMA StepGuards == RunInv /\ RunInv' /\ GuardInv /\ [Next]_vars => GuardInv'
<1> SUFFICES ASSUME RunInv, RunInv', GuardInv, [Next]_vars PROVE GuardInv'
  OBVIOUS
<1>1. CASE Tick \/ Unlist \/ Relist \/ UNCHANGED vars
  BY <1>1, IdleGuards
<1>2. ASSUME NEW p \in Procs, NEW u \in Runs, Claim(p, u) PROVE GuardInv'
  BY <1>2, ClaimGuards
<1>3. ASSUME NEW p \in Procs, Work(p) PROVE GuardInv'
  BY <1>3, StartAuditGuards, RefuseGuards, HolderGuards, FinishGuards DEF Work
<1>4. ASSUME NEW p \in Procs, Renew(p) \/ LoseLease(p) \/ Poll(p) PROVE GuardInv'
  BY <1>4, HolderGuards, RetryGuards, RecoverGuards DEF Poll
<1>5. ASSUME NEW p \in Procs, Crash(p) \/ Restart(p) PROVE GuardInv'
  BY <1>5, ProcessGuards
<1> QED BY <1>1, <1>2, <1>3, <1>4, <1>5 DEF Next

(* A living child keeps its task claimed: while it runs, its audit is the  *)
(* current one, whatever is lost, retried or recovered, by how many        *)
(* processes and for every length of the lease.  That is so of a task      *)
(* whose claim and audit are one transaction however soon it is started    *)
(* again, and of any other task as long as it is claimed a second apart;   *)
(* without either a recovery can take a claim that waits for its audit.    *)
THEOREM ChildGuarded == OneTransaction \/ Apart > 1 => (Spec => []ClaimGuardsChild)
<1>1. RunInv /\ GuardInv => ClaimGuardsChild
  <2> SUFFICES ASSUME RunInv, GuardInv, NEW p \in Procs, worker[p].stage = "child"
               PROVE  Current(RunOf(p))
    BY DEF ClaimGuardsChild
  <2>1. audit[RunOf(p)] # NoAudit /\ Engaged(p)
    BY HolderFacts DEF Holders, Engaged
  <2> QED BY <2>1 DEF GuardInv, Engagement, Waiting
<1>2. Spaced <=> OneTransaction \/ Apart > 1
  BY DEF Spaced
<1> QED BY <1>1, <1>2, InitRuns, InitGuards, StepRuns, StepGuards, PTL DEF Spec

-----------------------------------------------------------------------------
(* What the audits say *)

(* The journal says what became of a run, and its mark that an end is to   *)
(* be a failure is made only when the lease is over.                       *)
JournalTrue ==
  \A u \in Runs :
    /\ Observed(u) => journal[u].observed = outcome[u]
    /\ journal[u].failed => Observed(u) /\ LeaseOver(u)
TruthInv == JournalTrue /\ AuditsAreTrue

(* What one step may do to one run. *)
SameRun(u) ==
  /\ outcome'[u] = outcome[u] /\ journal'[u] = journal[u]
  /\ audit'[u].status = audit[u].status
  /\ LeaseOver(u) => LeaseOver(u)'
  /\ ~IsRunning(u) => (LeaseOver(u)' <=> LeaseOver(u))
ChildKnown(u) ==
  /\ IsRunning(u) /\ ~Observed(u)
  /\ audit'[u].status = "running" /\ journal'[u] = journal[u]
IsNoted(u) ==
  /\ IsRunning(u) /\ ~Observed(u)
  /\ outcome'[u] = outcome[u] /\ audit'[u] = audit[u]
  /\ journal'[u].observed = outcome[u] /\ journal'[u].failed = journal[u].failed
IsBroken(u) ==
  /\ IsRunning(u) /\ ~Observed(u)
  /\ outcome'[u] = outcome[u] /\ audit'[u] = audit[u]
  /\ journal'[u].observed = journal[u].observed /\ journal'[u].failed = journal[u].failed
Published(u) ==
  /\ IsRunning(u) /\ Observed(u) /\ outcome'[u] = outcome[u]
  /\ audit'[u].left = audit[u].left
  /\ audit'[u].status = Final(u) \/ audit'[u].status = "running"
  /\ journal'[u].observed = journal[u].observed
  /\ journal'[u].failed => journal[u].failed \/ LeaseOver(u)
Recovered(u) ==
  /\ IsRunning(u) /\ LeaseOver(u) /\ audit'[u].left = audit[u].left
  /\ audit'[u].status = "failed" /\ outcome'[u] = outcome[u] /\ journal'[u] = journal[u]
IsAdded(u) ==
  /\ ~Observed(u) /\ audit'[u].status = "running"
  /\ outcome'[u] = outcome[u] /\ journal'[u] = journal[u]
RunChange(u) ==
  \/ SameRun(u) \/ ChildKnown(u) \/ IsNoted(u) \/ IsBroken(u)
  \/ Published(u) \/ Recovered(u) \/ IsAdded(u)

LEMMA UntouchedRuns ==
  ASSUME UNCHANGED <<audit, journal, outcome>>
  PROVE  \A u \in Runs : RunChange(u)
  BY DEF RunChange, SameRun, LeaseOver

LEMMA AddedRuns ==
  ASSUME RunInv, NEW u \in Runs, audit[u] = NoAudit, NEW p \in Procs, NEW stamp,
         audit' = [audit EXCEPT ![u] = NewAudit(p, stamp)], UNCHANGED <<journal, outcome>>
  PROVE  \A v \in Runs : RunChange(v)
<1> TAKE v \in Runs
<1>1. audit'[v] = IF v = u THEN NewAudit(p, stamp) ELSE audit[v]
  BY DEF RunInv, TypeInv, AuditsOK
<1>2. CASE v = u
  <2>1. audit'[v].status = "running"
    BY <1>1, <1>2 DEF NewAudit
  <2>2. ~Observed(v)
    BY <1>2 DEF RunInv, Unseen
  <2> QED BY <2>1, <2>2 DEF RunChange, IsAdded
<1>3. CASE v # u
  BY <1>1, <1>3 DEF RunChange, SameRun, LeaseOver
<1> QED BY <1>2, <1>3

LEMMA ClaimChanges ==
  ASSUME RunInv, NEW p \in Procs, NEW u \in Runs, Claim(p, u)
  PROVE  \A v \in Runs : RunChange(v)
<1>1. audit[u] = NoAudit /\ UNCHANGED <<journal, outcome>>
  BY DEF Claim, Unused
<1>2. CASE audit' = [audit EXCEPT ![u] = NewAudit(p, now)]
  BY <1>1, <1>2, AddedRuns
<1>3. CASE UNCHANGED audit
  BY <1>1, <1>3, UntouchedRuns
<1> QED BY <1>2, <1>3 DEF Claim

LEMMA StartAuditChanges ==
  ASSUME RunInv, NEW p \in Procs, StartAudit(p)
  PROVE  \A v \in Runs : RunChange(v)
<1>1. worker[p].stage = "claimed" /\ UNCHANGED <<journal, outcome>>
  BY DEF StartAudit, At
<1>2. audit[RunOf(p)] = NoAudit /\ RunOf(p) \in Runs
  BY <1>1 DEF RunInv, TypeInv, Proper, WorkersOK, RunOf
<1>3. CASE audit' = [audit EXCEPT ![RunOf(p)] = NewAudit(p, task.at)]
  BY <1>1, <1>2, <1>3, AddedRuns
<1>4. CASE UNCHANGED audit
  BY <1>1, <1>4, UntouchedRuns
<1> QED BY <1>3, <1>4 DEF StartAudit

LEMMA RenewedChanges ==
  ASSUME RunInv, NEW u \in Runs, Authorized(u), audit' = Renewed(u),
         UNCHANGED <<journal, outcome>>
  PROVE  \A v \in Runs : RunChange(v)
<1> TAKE v \in Runs
<1>1. /\ audit'[v].status = audit[v].status /\ (v # u => audit'[v] = audit[v])
      /\ audit[v] \in AuditRow
  BY DEF Renewed, RunInv, TypeInv, AuditsOK, AuditRow
<1> QED BY <1>1 DEF RunChange, SameRun, LeaseOver, Authorized, IsRunning

LEMMA KnownChanges ==
  ASSUME RunInv, NEW p \in Procs, worker[p].stage \in {"audited", "child", "ended"},
         NEW result, outcome' = [outcome EXCEPT ![RunOf(p)] = result],
         UNCHANGED <<audit, journal>>
  PROVE  \A v \in Runs : RunChange(v)
<1> TAKE v \in Runs
<1>1. Own(p) /\ RunOf(p) \in Runs
  BY HolderFacts DEF Holders
<1>2. CASE v = RunOf(p)
  <2>1. IsRunning(v) /\ ~Observed(v)
    BY <1>1, <1>2 DEF Own
  <2>2. audit'[v].status = "running" /\ journal'[v] = journal[v]
    BY <2>1 DEF IsRunning
  <2> QED BY <2>1, <2>2 DEF RunChange, ChildKnown
<1>3. CASE v # RunOf(p)
  <2>1. outcome'[v] = outcome[v]
    BY <1>3 DEF RunInv, TypeInv, RestOK
  <2> QED BY <2>1 DEF RunChange, SameRun, LeaseOver
<1> QED BY <1>2, <1>3

LEMMA LaunchChanges ==
  ASSUME RunInv, NEW p \in Procs, Launch(p)
  PROVE  \A v \in Runs : RunChange(v)
<1>1. worker[p].stage = "audited" /\ UNCHANGED journal
  BY DEF Launch, At
<1>2. RunOf(p) \in Runs
  BY <1>1, HolderFacts DEF Holders
<1>3. CASE Authorized(RunOf(p)) /\ audit' = Renewed(RunOf(p)) /\ UNCHANGED outcome
  BY <1>1, <1>2, <1>3, RenewedChanges
<1>4. CASE outcome' = [outcome EXCEPT ![RunOf(p)] = "failed"] /\ UNCHANGED audit
  BY <1>1, <1>4, KnownChanges
<1> QED BY <1>3, <1>4 DEF Launch

LEMMA RenewChanges ==
  ASSUME RunInv, NEW p \in Procs, Renew(p)
  PROVE  \A v \in Runs : RunChange(v)
<1>1. worker[p].stage \in {"child", "ended"}
  BY DEF Renew
<1>2. RunOf(p) \in Runs
  BY <1>1, HolderFacts DEF Holders
<1> QED BY <1>2, RenewedChanges DEF Renew

LEMMA ChildEndsChanges ==
  ASSUME RunInv, NEW p \in Procs, ChildEnds(p) \/ LoseLease(p)
  PROVE  \A v \in Runs : RunChange(v)
<1>1. /\ worker[p].stage \in {"audited", "child", "ended"} /\ UNCHANGED <<audit, journal>>
      /\ \E result : outcome' = [outcome EXCEPT ![RunOf(p)] = result]
  BY DEF ChildEnds, LoseLease, At, tables
<1> QED BY <1>1, KnownChanges

LEMMA ObserveChanges ==
  ASSUME RunInv, NEW p \in Procs, Observe(p) \/ ObserveAgain(p)
  PROVE  \A v \in Runs : RunChange(v)
<1> DEFINE u == RunOf(p)
<1>1. UNCHANGED <<audit, outcome>>
  BY DEF Observe, ObserveAgain, tables
<1>2. CASE UNCHANGED journal
  BY <1>1, <1>2, UntouchedRuns
<1>3. ASSUME worker[p].stage \in {"ended", "retaining"}
      PROVE  /\ IsRunning(u) /\ ~Observed(u) /\ u \in Runs
             /\ outcome[u] \in Outcomes /\ JournalOK
  BY <1>3, HolderFacts DEF Own, Holders, RunInv, TypeInv, RestOK
<1>4. CASE worker[p].stage \in {"ended", "retaining"} /\ Note(u)
  <2>1. /\ \A v \in Runs \ {u} : journal'[v] = journal[v]
        /\ journal'[u].observed = outcome[u] /\ journal'[u].failed = journal[u].failed
    BY <1>3, <1>4, NoteTypes
  <2> TAKE v \in Runs
  <2>2. CASE v = u
    BY <1>1, <1>3, <1>4, <2>1, <2>2 DEF RunChange, IsNoted
  <2>3. CASE v # u
    BY <1>1, <2>1, <2>3 DEF RunChange, SameRun, LeaseOver
  <2> QED BY <2>2, <2>3
<1>5. ASSUME NEW breaks \in {{}, {"directory"}, {"record"}},
             worker[p].stage \in {"ended", "retaining"}, journal' = Breaking(u, breaks)
      PROVE  \A v \in Runs : RunChange(v)
  <2>1. breaks \in SUBSET Breaks
    BY DEF Breaks
  <2>2. /\ \A v \in Runs \ {u} : journal'[v] = journal[v]
        /\ journal'[u].observed = journal[u].observed /\ journal'[u].failed = journal[u].failed
    BY <1>3, <1>5, <2>1, BreakTypes
  <2> TAKE v \in Runs
  <2>3. CASE v = u
    BY <1>1, <1>3, <1>5, <2>2, <2>3 DEF RunChange, IsBroken
  <2>4. CASE v # u
    BY <1>1, <2>2, <2>4 DEF RunChange, SameRun, LeaseOver
  <2> QED BY <2>3, <2>4
<1>6. CASE worker[p].stage \in {"ended", "retaining"} /\ FailToNote(p)
  BY <1>4, <1>5, <1>6 DEF FailToNote
<1> QED BY <1>2, <1>4, <1>6 DEF Observe, ObserveAgain, At

LEMMA PublishChanges ==
  ASSUME RunInv, NEW u \in Runs, Observed(u), Current(u), Publish(u), UNCHANGED outcome
  PROVE  \A v \in Runs : RunChange(v)
<1> TAKE v \in Runs
<1>1. /\ JournalOK /\ audit \in [Runs -> AuditRow]
  BY DEF RunInv, TypeInv, AuditsOK
<1>2. IsRunning(u) /\ audit[u].status = "running"
  BY DEF Current, IsRunning
<1>3. \/ audit' = [audit EXCEPT ![u].status = Final(u)] \/ UNCHANGED audit
  BY DEF Publish, Commit
<1>4. /\ \A w \in Runs \ {u} : journal'[w] = journal[w]
      /\ journal'[u].observed = journal[u].observed
      /\ journal'[u].failed => journal[u].failed \/ LeaseOver(u)
  BY <1>1, PublishJournal
<1>5. CASE v = u
  <2>1. /\ audit'[v].left = audit[v].left
        /\ audit'[v].status = Final(v) \/ audit'[v].status = "running"
    <3>1. CASE UNCHANGED audit
      BY <1>2, <1>5, <3>1
    <3>2. CASE audit' = [audit EXCEPT ![u].status = Final(u)]
      BY <1>1, <1>5, <3>2 DEF AuditRow
    <3> QED BY <1>3, <3>1, <3>2
  <2> QED BY <1>2, <1>4, <1>5, <2>1 DEF RunChange, Published
<1>6. CASE v # u
  <2>1. audit'[v] = audit[v]
    BY <1>1, <1>3, <1>6
  <2> QED BY <1>4, <1>6, <2>1 DEF RunChange, SameRun, LeaseOver
<1> QED BY <1>5, <1>6

LEMMA RecoverChanges ==
  ASSUME RunInv, NEW p \in Procs, Recover(p)
  PROVE  \A v \in Runs : RunChange(v)
<1> TAKE v \in Runs
<1>1. /\ audit'[v] = IF IsRunning(v) THEN [audit[v] EXCEPT !.status = "failed"] ELSE audit[v]
      /\ outcome' = outcome /\ journal' = journal /\ audit[v] \in AuditRow
  BY DEF Recover, RunInv, TypeInv, AuditsOK
<1>2. CASE IsRunning(v)
  <2>1. LeaseOver(v)
    BY <1>2 DEF Recover, Running, Abandoned
  <2> QED BY <1>1, <1>2, <2>1 DEF RunChange, Recovered, AuditRow
<1>3. CASE ~IsRunning(v)
  BY <1>1, <1>3 DEF RunChange, SameRun, LeaseOver
<1> QED BY <1>2, <1>3

LEMMA TickChanges ==
  ASSUME RunInv, Tick
  PROVE  \A v \in Runs : RunChange(v)
<1> TAKE v \in Runs
<1>1. /\ audit'[v] = IF Authorized(v) THEN [audit[v] EXCEPT !.left = @ - 1] ELSE audit[v]
      /\ outcome' = outcome /\ journal' = journal /\ audit[v] \in AuditRow
  BY DEF Tick, RunInv, TypeInv, AuditsOK
<1>2. audit'[v].status = audit[v].status /\ (~Authorized(v) => audit'[v] = audit[v])
  BY <1>1 DEF AuditRow
<1> QED BY <1>1, <1>2 DEF RunChange, SameRun, LeaseOver, Authorized, IsRunning

LEMMA RunChanges ==
  ASSUME RunInv, [Next]_vars
  PROVE  \A v \in Runs : RunChange(v)
<1> DEFINE Goal == \A v \in Runs : RunChange(v)
<1>1. ASSUME UNCHANGED <<audit, journal, outcome>> PROVE Goal
  BY <1>1, UntouchedRuns
<1>2. ASSUME NEW p \in Procs, Finish(p) PROVE Goal
  <2> DEFINE u == RunOf(p)
  <2>1. UNCHANGED outcome /\ worker[p].stage = "finishing"
    BY <1>2 DEF Finish, At
  <2>2. u \in Runs /\ Observed(u)
    BY <2>1 DEF RunInv, TypeInv, WorkersOK, Proper, RunOf
  <2>3. CASE Current(u) /\ Publish(u)
    BY <2>1, <2>2, <2>3, PublishChanges
  <2>4. CASE UNCHANGED <<audit, journal>>
    BY <2>1, <2>4, <1>1
  <2> QED BY <1>2, <2>3, <2>4 DEF Finish
<1>3. ASSUME NEW p \in Procs, Retry(p) PROVE Goal
  <2>1. PICK u \in ToRetry(p) : Current(u) /\ Publish(u)
    BY <1>3 DEF Retry
  <2>2. u \in Runs /\ Observed(u)
    BY <2>1 DEF ToRetry, Running
  <2>3. UNCHANGED outcome
    BY <1>3 DEF Retry
  <2> QED BY <2>1, <2>2, <2>3, PublishChanges
<1> HIDE DEF Goal
<1>4. ASSUME NEW p \in Procs, Refuse(p) \/ Crash(p) \/ Restart(p) PROVE Goal
  BY <1>1, <1>4 DEF Refuse, Crash, Restart, tables
<1>5. ASSUME UNCHANGED vars PROVE Goal
  BY <1>1, <1>5 DEF vars
<1>6. ASSUME NEW p \in Procs, NEW u \in Runs, Claim(p, u) PROVE Goal
  BY <1>6, ClaimChanges DEF Goal
<1>7. ASSUME NEW p \in Procs, Work(p) PROVE Goal
  BY <1>2, <1>4, <1>7, StartAuditChanges, LaunchChanges, ChildEndsChanges, ObserveChanges
  DEF Work, Goal
<1>8. ASSUME NEW p \in Procs, Renew(p) \/ LoseLease(p) \/ Poll(p) PROVE Goal
  BY <1>3, <1>8, RenewChanges, ChildEndsChanges, RecoverChanges DEF Poll, Goal
<1>9. ASSUME Tick PROVE Goal
  BY <1>9, TickChanges DEF Goal
<1>11. ASSUME Unlist \/ Relist PROVE Goal
  BY <1>1, <1>11 DEF Unlist, Relist, tables
<1>10. Goal
  BY <1>4, <1>5, <1>6, <1>7, <1>8, <1>9, <1>11 DEF Next
<1> QED BY <1>10 DEF Goal

LEMMA TruthNext == RunInv /\ TruthInv /\ [Next]_vars => TruthInv'
<1> SUFFICES ASSUME RunInv, TruthInv, [Next]_vars, NEW u \in Runs
             PROVE  /\ (Observed(u) => journal[u].observed = outcome[u])'
                    /\ (journal[u].failed => Observed(u) /\ LeaseOver(u))'
                    /\ (audit[u].status = "success" => outcome[u] = "success" /\ ~LeaseOver(u))'
                    /\ (audit[u].status = "failed" /\ outcome[u] = "success" => LeaseOver(u))'
  BY DEF TruthInv, JournalTrue, AuditsAreTrue
<1>1. RunChange(u)
  BY RunChanges
<1>2. /\ Observed(u) => journal[u].observed = outcome[u]
      /\ journal[u].failed => Observed(u) /\ LeaseOver(u)
      /\ audit[u].status = "success" => outcome[u] = "success" /\ ~LeaseOver(u)
      /\ audit[u].status = "failed" /\ outcome[u] = "success" => LeaseOver(u)
  BY DEF TruthInv, JournalTrue, AuditsAreTrue
<1>3. CASE SameRun(u)
  BY <1>2, <1>3 DEF SameRun, Observed, LeaseOver, IsRunning
<1>4. CASE ChildKnown(u)
  BY <1>2, <1>4 DEF ChildKnown, Observed, LeaseOver, IsRunning
<1>5. CASE IsNoted(u)
  BY <1>2, <1>5 DEF IsNoted, Observed, LeaseOver, IsRunning
<1>6. CASE Published(u)
  BY <1>2, <1>6 DEF Published, Observed, LeaseOver, IsRunning, Final, Expired
<1>7. CASE Recovered(u)
  BY <1>2, <1>7 DEF Recovered, Observed, LeaseOver, IsRunning
<1>8. CASE IsAdded(u)
  BY <1>2, <1>8 DEF IsAdded, Observed, LeaseOver, IsRunning
<1>9. CASE IsBroken(u)
  BY <1>2, <1>9 DEF IsBroken, Observed, LeaseOver, IsRunning
<1> QED BY <1>1, <1>3, <1>4, <1>5, <1>6, <1>7, <1>8, <1>9 DEF RunChange

(* What the audit says of a run is what became of its child, whatever      *)
(* transaction was repeated, refused, rolled back or recovered: a success  *)
(* was seen by its worker and published while the lease held, and a run    *)
(* that succeeded counts as failed only when its lease was over            *)
(* (_task_history_finish, _cleanup_stale_running_tasks).                   *)
THEOREM AuditsTellTheTruth == Spec => []AuditsAreTrue
<1>1. Init => TruthInv
  BY DEF Init, TruthInv, JournalTrue, AuditsAreTrue, Observed, LeaseOver, NoAudit
<1>2. TruthInv => AuditsAreTrue
  BY DEF TruthInv
<1> QED BY <1>1, <1>2, TruthNext, InitRuns, StepRuns, PTL DEF Spec
=============================================================================
