--------------------------- MODULE SchedulerRuns ---------------------------
(***************************************************************************)
(* The runs of one scheduled task: server/api/scheduler_runtime.py with    *)
(* common/scheduler_tasks.py (the claim), scheduler_task_lease.py (the     *)
(* owner lease) and scheduler_terminal_journal.py.  The standalone         *)
(* scheduler and the API, which starts tasks by hand, are processes of one *)
(* host and share the task row, the audit table and the journal.           *)
(*                                                                         *)
(* A run claims the task row, gets an audit row with a lease, starts a     *)
(* child process that it alone watches, writes what became of the child to *)
(* the journal, and only then ends audit and task row in one transaction.  *)
(* Every step can fail or lose its reply, and a process can die anywhere;  *)
(* its children die with it (systemd's control group, the Job Object).     *)
(*                                                                         *)
(* Left out: which tasks are due, lanes, the other host, daily stages with *)
(* their own fences, graceful stops, and the repair of a task row whose    *)
(* audit ended without it, which no step here leaves behind; "failed"      *)
(* stands for every outcome but success.  A lease is the number of ticks   *)
(* it still holds.                                                         *)
(***************************************************************************)
EXTENDS Naturals, Sequences, FiniteSets, SequencesExt

CONSTANTS
  Procs, Pollers,  \* processes, and those that run the scheduler's loop
  Runs, NoRun,     \* run_uid of audit rows
  OneTransaction,  \* claim_first: claim and audit are one transaction
  Lease,           \* LEASE_SECONDS
  Apart,           \* bound: claims are at least so far apart (may be 0)
  Horizon,         \* bound: stamps; the last one stands for all later ones
  MaxFaults        \* bound: crashes, failures and lost replies

ASSUME SchedulerAssumption ==
  /\ Pollers \subseteq Procs /\ NoRun \notin Runs /\ IsFiniteSet(Runs)
  /\ OneTransaction \in BOOLEAN
  /\ Lease \in Nat \ {0} /\ {Apart, Horizon, MaxFaults} \subseteq Nat

VARIABLES
  now,      \* the database's clock, in seconds
  task,     \* last_run_status and last_run_at of the task row
  audit,    \* the audit row of each run
  order,    \* the runs in the order of their audit ids
  journal,  \* the terminal journal of each run
  listed,   \* no run of another task blocks the inventory of the journal
  proc,     \* the processes
  worker,   \* the worker each process has for the task, and its registry
  outcome,  \* what became of each run's child (history)
  faults    \* faults so far (for the bound)

vars == <<now, task, audit, order, journal, listed, proc, worker, outcome, faults>>
tables == <<task, audit, order>>

-----------------------------------------------------------------------------

Outcomes == {"none", "success", "failed"}
RowStatuses == Outcomes \cup {"running"}
WorkerStages ==
  {"free", "claimed", "refused", "audited", "child", "ended", "finishing", "retaining", "kept"}
(* What a failed write leaves: a directory without OBSERVED, an incomplete *)
(* record (OBSERVED, REJECTED, FAILED_FINALIZATION), or an incomplete      *)
(* PREPARED of that end.  Files are created O_EXCL and never replaced.     *)
Breaks == {"directory", "record", "success", "failed"}

NoAudit == [status |-> "none", at |-> 0, owner |-> NoRun, life |-> 0, left |-> 0]
Free == [stage |-> "free", run |-> NoRun]

Fault == faults < MaxFaults /\ faults' = faults + 1
Up(p) == proc[p].up
At(p, stage) == Up(p) /\ worker[p].stage = stage
RunOf(p) == worker[p].run
Goes(p, stage) == worker' = [worker EXCEPT ![p].stage = stage]
Ends(p) == worker' = [worker EXCEPT ![p] = Free]
IsRunning(u) == audit[u].status = "running"
Running == {u \in Runs : IsRunning(u)}
Unused == {u \in Runs : audit[u] = NoAudit /\ \A p \in Procs : RunOf(p) # u}
(* No process has the PID in the instance id of the audit.  A PID may be   *)
(* used again: owner.pid is the first life that had the present one.       *)
OwnerGone(u) ==
  LET owner == proc[audit[u].owner] IN ~owner.up \/ audit[u].life < owner.pid
LeaseOver(u) == audit[u].left = 0

Init ==
  /\ now = 0
  /\ task = [status |-> "none", at |-> 0]
  /\ audit = [u \in Runs |-> NoAudit] /\ order = <<>>
  /\ journal = [u \in Runs |->
                  [observed |-> "none", rejected |-> FALSE, failed |-> FALSE, broken |-> {}]]
  /\ listed = TRUE
  /\ proc = [p \in Procs |-> [up |-> TRUE, since |-> 0, life |-> 0, pid |-> 0]]
  /\ worker = [p \in Procs |-> Free]
  /\ outcome = [u \in Runs |-> "none"] /\ faults = 0

-----------------------------------------------------------------------------
(* Claim and audit *)

ClaimedTask == [status |-> "running", at |-> now]
NewAudit(p, stamp) ==
  [status |-> "running", at |-> stamp, owner |-> p, life |-> proc[p].life, left |-> Lease]
(* What is claimed is not running; its stamps are those seen when it was   *)
(* found due or started by hand.  What is due again is due after minutes;  *)
(* starts by hand may follow each other in a second.                       *)
Claimable == task.status # "running" /\ now < Horizon /\ (order # <<>> => task.at + Apart <= now)

(* The in-process registry lets one worker in; the claim is lost to it if  *)
(* the reply of the database is.                                           *)
Claim(p, u) ==
  /\ At(p, "free") /\ Claimable /\ u \in Unused /\ u = CHOOSE v \in Unused : TRUE
  /\ task' = ClaimedTask
  /\ IF OneTransaction
     THEN audit' = [audit EXCEPT ![u] = NewAudit(p, now)] /\ order' = Append(order, u)
     ELSE UNCHANGED <<audit, order>>
  /\ \/ /\ worker' = [worker EXCEPT ![p] =
                        [stage |-> IF OneTransaction THEN "audited" ELSE "claimed", run |-> u]]
        /\ UNCHANGED faults
     \/ Fault /\ UNCHANGED worker
  /\ UNCHANGED <<now, journal, listed, proc, outcome>>

(* _task_history_start: the audit gets the stamp the task row has now.     *)
StartAudit(p) ==
  /\ At(p, "claimed")
  /\ \/ /\ task.status = "running"
        /\ audit' = [audit EXCEPT ![RunOf(p)] = NewAudit(p, task.at)]
        /\ order' = Append(order, RunOf(p))
        /\ \/ Goes(p, "audited") /\ UNCHANGED faults
           \/ Goes(p, "refused") /\ Fault
     \/ /\ IF task.status = "running" THEN Fault ELSE UNCHANGED faults
        /\ Goes(p, "refused") /\ UNCHANGED <<audit, order>>
  /\ UNCHANGED <<now, task, journal, listed, proc, outcome>>

(* Without an audit nothing is run, and the task row is written over. *)
Refuse(p) ==
  /\ At(p, "refused")
  /\ task' = [task EXCEPT !.status = "failed"]
  /\ Ends(p)
  /\ UNCHANGED <<now, audit, order, journal, listed, proc, outcome, faults>>

-----------------------------------------------------------------------------
(* The child *)

Renewed(u) == [audit EXCEPT ![u].left = Lease]
Authorized(u) == IsRunning(u) /\ ~LeaseOver(u)

(* A run that cannot be prepared fails without a child. *)
Launch(p) ==
  /\ At(p, "audited")
  /\ \/ /\ Authorized(RunOf(p))
        /\ audit' = Renewed(RunOf(p))
        /\ task' = [task EXCEPT !.status = "running"]
        /\ Goes(p, "child") /\ UNCHANGED outcome
     \/ /\ outcome' = [outcome EXCEPT ![RunOf(p)] = "failed"]
        /\ Goes(p, "ended") /\ UNCHANGED <<audit, task>>
  /\ UNCHANGED <<now, order, journal, listed, proc, faults>>

Renew(p) ==
  /\ worker[p].stage \in {"child", "ended"} /\ Up(p) /\ Authorized(RunOf(p))
  /\ audit' = Renewed(RunOf(p)) /\ audit' # audit
  /\ UNCHANGED <<now, task, order, journal, listed, proc, worker, outcome, faults>>

(* The child ends, or is ended by a stop, a timeout or a lost lease. *)
ChildEnds(p) ==
  /\ At(p, "child")
  /\ \E result \in {"success", "failed"} :
       /\ outcome' = [outcome EXCEPT ![RunOf(p)] = result]
       /\ Goes(p, "ended")
  /\ UNCHANGED <<now, tables, journal, listed, proc, faults>>

(* Two renewals in a row failed, or the lease was over at the first.  The  *)
(* child is stopped, and what it did does not count as a success.          *)
LoseLease(p) ==
  /\ worker[p].stage \in {"child", "ended"} /\ Up(p)
  /\ IF LeaseOver(RunOf(p)) THEN UNCHANGED faults ELSE Fault
  /\ outcome' = [outcome EXCEPT ![RunOf(p)] = "failed"] /\ Goes(p, "ended")
  /\ outcome' # outcome
  /\ UNCHANGED <<now, tables, journal, listed, proc>>

-----------------------------------------------------------------------------
(* The end: _task_history_finish *)

Observed(u) == journal[u].observed # "none"
Breaking(u, breaks) == [journal EXCEPT ![u].broken = @ \cup breaks]
Note(u) ==
  /\ "record" \notin journal[u].broken
  /\ journal' = [journal EXCEPT ![u].observed = outcome[u], ![u].broken = {}]

(* A failed write leaves nothing, a directory or a record that stays       *)
(* incomplete; or OBSERVED is all there, but not known to be on the disk.  *)
FailToNote(p) ==
  /\ Fault
  /\ \/ /\ \E breaks \in {{}, {"directory"}, {"record"}} : journal' = Breaking(RunOf(p), breaks)
        /\ Goes(p, "retaining")
     \/ Note(RunOf(p)) /\ Goes(p, "kept")

(* The journal comes first.  If it cannot be written the worker leaves,    *)
(* but the process keeps the outcome and the registry entry.               *)
Observe(p) ==
  /\ At(p, "ended")
  /\ \/ Note(RunOf(p)) /\ Goes(p, "finishing") /\ UNCHANGED faults
     \/ FailToNote(p)
  /\ UNCHANGED <<now, tables, listed, proc, outcome>>

(* _retry_pending_terminal_writes writes it later; an incomplete OBSERVED  *)
(* cannot be read, and it never is.                                        *)
ObserveAgain(p) ==
  /\ p \in Pollers
  /\ \/ At(p, "retaining") /\ Note(RunOf(p)) /\ Ends(p) /\ UNCHANGED faults
     \/ At(p, "retaining") /\ "record" \notin journal[RunOf(p)].broken /\ FailToNote(p)
     \/ At(p, "kept") /\ Ends(p) /\ UNCHANGED <<journal, faults>>
  /\ UNCHANGED <<now, tables, listed, proc, outcome>>

(* The audit is that of the task's claim: stamps are not unique, ids are. *)
Current(u) ==
  /\ IsRunning(u) /\ Last(order) = u
  /\ task.status = "running" /\ task.at = audit[u].at

(* Mutated form: a success may be published late. *)
Expired_Never(u) == FALSE
Expired(u) == LeaseOver(u) /\ journal[u].observed = "success"

Final(u) ==
  IF journal[u].failed \/ Expired(u) THEN "failed" ELSE journal[u].observed
Marked(u) ==
  IF Expired(u)
  THEN [journal EXCEPT ![u].rejected = TRUE, ![u].failed = TRUE] ELSE journal

(* Nothing can be marked beside an incomplete record, and an end is not    *)
(* prepared again: the name of a PREPARED is the digest of what it says.   *)
Publishable(u) ==
  /\ Final(u) \notin journal[u].broken
  /\ "record" \in journal[u].broken => ~Expired(u)

(* The terminal transaction ends audit and task row together.  It may be   *)
(* rolled back, which the journal is not, or be refused for good; and a    *)
(* write of the journal may fail in it.                                    *)
Commit(u) ==
  /\ audit' = [audit EXCEPT ![u].status = Final(u)]
  /\ task' = [task EXCEPT !.status = Final(u)]
  /\ journal' = Marked(u)
Publish(u) ==
  /\ Publishable(u)
  /\ \/ Commit(u) /\ UNCHANGED faults
     \/ /\ Fault /\ UNCHANGED <<task, audit>>
        /\ \/ journal' = Marked(u)
           \/ journal' = [Marked(u) EXCEPT ![u].broken = @ \cup {Final(u)}]
           \/ journal' = Breaking(u, {"record"})
           \/ journal' = [journal EXCEPT ![u].rejected = TRUE] /\ "record" \notin journal[u].broken

Finish(p) ==
  /\ At(p, "finishing")
  /\ IF Current(RunOf(p)) /\ Publishable(RunOf(p))
     THEN Publish(RunOf(p)) ELSE UNCHANGED <<task, audit, journal, faults>>
  /\ Ends(p)
  /\ UNCHANGED <<now, order, listed, proc, outcome>>

(* The inventory of the journal stops at a running run that has an         *)
(* incomplete record or no OBSERVED in its directory, whatever its task.   *)
Listed ==
  listed /\ \A u \in Running : journal[u].broken \cap {"directory", "record"} = {}
Holds(p, u) == audit[u].owner = p /\ audit[u].life = proc[p].life

(* Runs in the journal that the audit table does not show as ended, unless *)
(* their worker here is still at it, or they were refused.  Those of this  *)
(* process it has in memory too, the others it finds in the inventory.     *)
(* Mutated form: runs of this process are left to its workers. *)
ToRetry_NotMine(p) ==
  {u \in Running :
     Observed(u) /\ audit[u].owner # p /\ Listed /\ (journal[u].rejected => journal[u].failed)}
ToRetry(p) ==
  {u \in Running :
     /\ Observed(u) /\ RunOf(p) # u /\ (Listed \/ Holds(p, u))
     /\ journal[u].rejected => journal[u].failed}

Retry(p) ==
  /\ p \in Pollers /\ Up(p)
  /\ \E u \in ToRetry(p) : Current(u) /\ Publish(u)
  /\ UNCHANGED <<now, order, listed, proc, worker, outcome>>

-----------------------------------------------------------------------------
(* _cleanup_stale_running_tasks after a restart *)

Interrupted(p) ==
  /\ p \in Pollers /\ Up(p) /\ worker[p].stage # "child"
  /\ task.status = "running" /\ task.at < proc[p].since

(* Mutated form: a lease that is over proves that its owner is. *)
Abandoned_LeaseOnly(u) == LeaseOver(u) /\ audit[u].at <= task.at + 1
Abandoned(u) == LeaseOver(u) /\ OwnerGone(u) /\ audit[u].at <= task.at + 1

(* The claim is that of one of the running audits, or of one that ended. *)
Accounted ==
  \/ \E u \in Running : task.at <= audit[u].at + 1
  \/ ~IsRunning(Last(order)) /\ audit[Last(order)].at = task.at

Recover(p) ==
  /\ Interrupted(p)
  /\ Running # {} /\ Accounted /\ \A u \in Running : Abandoned(u)
  /\ audit' = [u \in Runs |-> IF IsRunning(u) THEN [audit[u] EXCEPT !.status = "failed"] ELSE audit[u]]
  /\ task' = [task EXCEPT !.status = "failed"]
  /\ UNCHANGED <<now, order, journal, listed, proc, worker, outcome, faults>>

-----------------------------------------------------------------------------
(* Processes and time *)

Crash(p) ==
  /\ Up(p) /\ Fault
  /\ proc' = [proc EXCEPT ![p].up = FALSE, ![p].since = now]
  /\ worker' = [worker EXCEPT ![p] = Free]
  /\ UNCHANGED <<now, tables, journal, listed, outcome>>

(* It takes more than a second to come up.  The PID that its last life had *)
(* may be used again, by it or, which looks the same, by another process.  *)
Restart(p) ==
  /\ ~Up(p) /\ (proc[p].since < now \/ now = Horizon)
  /\ LET life == proc[p].life + 1 IN
       \/ /\ proc' = [proc EXCEPT ![p] = [up |-> TRUE, since |-> now, life |-> life, pid |-> life]]
          /\ UNCHANGED faults
       \/ /\ proc' = [proc EXCEPT ![p] = [@ EXCEPT !.up = TRUE, !.since = now, !.life = life]]
          /\ Fault
  /\ UNCHANGED <<now, tables, journal, listed, worker, outcome>>

(* A run of another task breaks off in the journal, and is ended. *)
Unlist ==
  /\ listed /\ Fault /\ listed' = FALSE
  /\ UNCHANGED <<now, tables, journal, proc, worker, outcome>>
Relist ==
  /\ ~listed /\ listed' = TRUE
  /\ UNCHANGED <<now, tables, journal, proc, worker, outcome, faults>>

Tick ==
  /\ now' = IF now < Horizon THEN now + 1 ELSE now
  /\ audit' = [u \in Runs |->
                 IF Authorized(u) THEN [audit[u] EXCEPT !.left = @ - 1] ELSE audit[u]]
  /\ <<now', audit'>> # <<now, audit>>
  /\ UNCHANGED <<task, order, journal, listed, proc, worker, outcome, faults>>

-----------------------------------------------------------------------------

Work(p) ==
  \/ StartAudit(p) \/ Refuse(p) \/ Launch(p) \/ ChildEnds(p)
  \/ Observe(p) \/ ObserveAgain(p) \/ Finish(p)
Poll(p) == Retry(p) \/ Recover(p)

Next ==
  \/ \E p \in Procs :
       \/ \E u \in Runs : Claim(p, u)
       \/ Work(p) \/ Renew(p) \/ LoseLease(p) \/ Poll(p) \/ Crash(p) \/ Restart(p)
  \/ Unlist \/ Relist \/ Tick

Spec == Init /\ [][Next]_vars

(* Workers go on, tasks end or time out, the loop polls and dead processes *)
(* are started again; time passes.                                         *)
FairSpec ==
  /\ Spec /\ WF_vars(Tick)
  /\ \A p \in Procs : WF_vars(Work(p)) /\ WF_vars(Poll(p)) /\ WF_vars(Restart(p))

-----------------------------------------------------------------------------
(* Properties *)

TypeOK ==
  /\ now \in 0..Horizon
  /\ task \in [status : RowStatuses, at : 0..Horizon]
  /\ audit \in [Runs -> [status : RowStatuses, at : 0..Horizon, owner : Procs \cup {NoRun},
                         life : Nat, left : 0..Lease]]
  /\ order \in Seq(Runs)
  /\ \A i, j \in DOMAIN order : order[i] = order[j] => i = j
  /\ \A u \in Runs : audit[u] # NoAudit <=> u \in ToSet(order)
  /\ journal \in [Runs -> [observed : Outcomes, rejected : BOOLEAN, failed : BOOLEAN,
                           broken : SUBSET Breaks]]
  /\ listed \in BOOLEAN
  /\ proc \in [Procs -> [up : BOOLEAN, since : 0..Horizon, life : Nat, pid : Nat]]
  /\ worker \in [Procs -> [stage : WorkerStages, run : Runs \cup {NoRun}]]
  /\ outcome \in [Runs -> Outcomes]
  /\ faults \in 0..MaxFaults

(* A child is watched over: while it is alive its audit is running and is  *)
(* the newest, and the task is claimed with its stamp, so that no other    *)
(* process can start the task, whatever was lost, retried or recovered     *)
(* and however long its owner stalls.                                      *)
ClaimGuardsChild ==
  \A p \in Procs : worker[p].stage = "child" => Current(RunOf(p))

(* What the audit says of a run is what became of it.  A success is one    *)
(* the process saw and wrote down while the lease held; it counts as a     *)
(* failure only if the lease ran out before it was published.              *)
AuditsAreTrue ==
  \A u \in Runs :
    /\ audit[u].status = "success" => outcome[u] = "success" /\ ~LeaseOver(u)
    /\ audit[u].status = "failed" /\ outcome[u] = "success" => LeaseOver(u)

(* A run that was audited ends, through crashes, failing transactions and  *)
(* writes of the journal that can be repeated, unless it is one that the   *)
(* code leaves to someone: its end was refused for good; its owner, or     *)
(* a process that has its PID again, is there, and a write of its journal  *)
(* broke off for good, or it is not in the journal and nobody works on it  *)
(* (the reply of its audit was lost, or the owner is not the one that      *)
(* died), or another task's run blocks the inventory and no poller has it  *)
(* in memory; the API, which does not poll, could not write its journal;   *)
(* or its owner died and no scheduler was started since, another run left  *)
(* alone has an owner, or the task was claimed again without an audit.     *)
LeftAlone(u) ==
  \/ journal[u].rejected /\ ~journal[u].failed
  \/ /\ ~OwnerGone(u)
     /\ \/ "record" \in journal[u].broken \/ Final(u) \in journal[u].broken
        \/ ~Observed(u) /\ \A p \in Procs : RunOf(p) = u => worker[p].stage = "refused"
        \/ Observed(u) /\ ~listed /\ ~\E p \in Pollers : Up(p) /\ Holds(p, u)
  \/ \E p \in Procs \ Pollers : RunOf(p) = u /\ worker[p].stage = "retaining"
  \/ /\ OwnerGone(u)
     /\ \/ ~\E p \in Pollers : Interrupted(p)
        \/ ~Accounted \/ \E v \in Running : ~OwnerGone(v)
RunsEnd == []<>(\A u \in Runs : IsRunning(u) => LeftAlone(u))
=============================================================================
