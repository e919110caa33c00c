# Formal models of probiga

TLA+ models of the parts of probiga that move orders, money, leases, jobs and
messages, the configurations that model-check them with TLC, and TLAPS proofs
of every safety property those runs check. The repository is a Python trading platform for Chinese
A-shares: research and decision programs write order intents, a paper account
trades them, and a set of newer components (a neutral trading core, a V4
research store, evidence and projection pipelines) is being moved in beside
the old ones. Everything is coordinated through MySQL tables: processes are
scheduled programs and workers that meet only in transactions, so the hard
questions are about the order of transactions of processes that stall, die
and are started again.

Contents

1. Inventory of the system
2. The models and how they correspond to the code
3. The runs: what is checked, on which instances, and what that shows
4. Fairness
5. What is proved
6. Disagreements found
7. What is only model-checked, and what is not modelled
8. Plan

`PROJECT.json` maps every definition that models code to its source lines and
names the hazards each property is for.

## 1. Inventory of the system

Paths are relative to `src/`. "Modelled in" names the module; a dash means
not modelled (section 7 says why).

### Order execution and accounting

| Component | State it keeps | Operations | Modelled in |
|---|---|---|---|
| V2 paper account (`server/trading_v2`: `execution`, `oms`, `ledger`, `matcher`, `quotes`, `reconciliation`) | orders, account, fills, cash ledger, position lots, quote events | the execution tick (every minute), the daily reconciliation | `PaperTrading`, `LedgerBook` |
| V2 planner, position monitor (`planner`, `position_monitor`, `positions`) | intents, orders; the state of each lot | write entries; advance a position's state machine, write exits and additions | `PositionMonitor`; `PaperTrading` (as writers of orders) |
| V2 decision (`decision_worker`) | decision runs | decide and plan, then monitor, in two transactions | `DailyDecision` |
| V3 desk (`server/trading_v3/paper_execution.py`, called by `decision_worker.py`) | V3 orders and execution plans | premarket freeze, materialisation of orders, cancellation of superseded buys | `PaperTrading` |
| V3 plan projection (`_sync_v3_execution_plan_states`) | state of each execution plan | reads orders, writes plan states | `PaperTrading` |
| Trading core (`server/trading_core/execution`) | an immutable `OrderState` with its history | `apply_execution_result`, `match_limit_day` | `OrderLifecycle` |
| Trading core: snapshot batch, session gate, protection, risk envelope | pure values | batch matching with shared liquidity, admission, stop prices | - |
| QMT gateways (`integrations/qmt`) | requests to the broker terminal | adapters over the request spool below | - |

How they interact: planner, monitor and desk insert orders; ticks list them and
execute one per transaction; the tick's last act, and the desk's first, is the
projection onto plans; the reconciliation may block the account, which makes
every order wait. The desk cancels orders under a tick that has already listed
them.
Hard: a tick uses one `now` and one list for many transactions, overlaps with
the next tick when it stalls, and may die between any two of them.
Correct means: the five tables agree with each other, T+1 holds, no liquidity
is used twice, orders that ended are never touched, at most one decision buys,
plans tell the truth and end.

### Queues, leases and projections

| Component | State it keeps | Operations | Modelled in |
|---|---|---|---|
| V4 job lease store (`server/trading_v4/infrastructure/job_store.py`) | job rows, an append-only table of claim tokens | create, claim (with reaping and replay), heartbeat, complete, fail, expire, read | `JobStore`, `FencedJobs` |
| V3 projection outbox (`server/integrations/v3_execution_projection_outbox`) | outbox rows, order baselines, worker checkpoints | append, register baseline, lease, acknowledge, fail, requeue | `ProjectionOutbox`, `InOrderDelivery` |
| V3 projection subscriber (`server/integrations/v3_execution_projection`) | inbox, projection heads, plan rows | apply one event | `ProjectionOutbox` |
| V2 job queue (`server/trading_v2/jobs.py`, `job_worker.py`) | job rows, rows of backtest runs | enqueue by key, claim, heartbeat, finish, repair | `JobQueue`, composed in `DailyDecision` |
| Scheduler: runs of a task (`server/api/scheduler_runtime.py`, `server/common/scheduler_*.py`) | task rows, audit rows with an owner lease, a terminal journal on disk, one registry per process | claim, audit, start a child, renew, journal, end, retry, recover | `SchedulerRuns` |
| BigQMT spool and bridge (`integrations/bigqmt/spool.py`, `qmt_strategy/probiga_big_qmt_bridge.py`) | files in five directories | request, answer, withdraw, recover, clean up | `SpoolBridge` |
| V2 canonical commit (`server/integrations/v2_canonical_commit`) | none of its own: one transaction over several writers | prepare, commit | - (planned) |
| Execution and accounting evidence (writers, audits) | append-only hash chains | append, verify | - (planned) |
| AI bridge: research channel (`server/ai_bridge/research.py`, `tools/run_codex_web_bridge.py`) | request rows; receipts and model processes on worker hosts | submit, poll, claim, renew, complete, ask | `ResearchBridge` |
| AI bridge: question queue (`server/ai_bridge/service.py`) | question rows | enqueue, claim, answer | - (planned) |

How they interact: the canonical commit appends to the outbox in the
transaction that changes the order; a worker carries each row to the V3 read
model in a transaction of another database, and confirms it in a third. The
scheduler, and the API for tasks started by hand, run programs as child
processes; one of them is the worker of the V2 job queue, whose decision jobs
change the positions the ticks trade. The server asks the strategy inside the
QMT terminal by files, there being no other way in. Programs on the server ask a model that runs on another host through rows which
a worker there claims over HTTP. The V4 store has no caller in the repository
other than its acceptance tool.
Hard: leases that run out under a worker which goes on, replies lost after the
commit, clocks that differ, processes restarted under an old `worker_id`,
predecessors that fail for good, queues without any lease, a protocol of file
renames without any lock, calls that share an idempotency key.
Correct means: a job is never held by two workers, a late answer settles
nothing, attempts are counted once; events reach the read model in order and
once; whatever stops, due work is taken up again; a task has one living child;
a model is called once for a request; what a row says of a run, a job or a request is what became of it.

### Everything else

| Component | What it is | Why it is not modelled |
|---|---|---|
| V2 scoring of candidates, V3 research, V5, V6, strategy engine, market analysis (`biz`, `acquisition`), briefing tools | analysis run by daily jobs, one writer each | numerical results, no protocol between steps |
| V4 domain, research, validation, control plane | immutable values, inserts keyed by content hashes, one single-row control state | control plane planned |
| API server (`server/api`) | HTTP routers | routers are thin |
| Common code, database access, authentication | helpers, connections | no protocol |
| Other integrations (akshare, myquant, wecom) | calls of external services | nothing is kept |
| Deployment, tools, dashboard, tests, documents, stored results, `games/mario`, `third_party` | not part of the running system, or not this program | - |

## 2. The models

A transaction is one step where the code locks what it tests before it tests
it, and several steps where it reads without a lock and writes later; each
module's head says which. A call that is refused and rolled back is not a
step. Processes keep only what they read and have not used yet.

### JobStore (promise: FencedJobs)

Source: `server/trading_v4/infrastructure/job_store.py`.

| Variable | Code |
|---|---|
| `clock` | `UTC_TIMESTAMP()` of the database |
| `job` | `st_job_run_v4` |
| `registry` | `st_job_claim_token_v4`, one row per claim token ever used |
| `held` | what each worker was last told about its lease |

`CreateJob`, `ClaimDueJob` (reap up to `ReapBatch` exhausted leases, take the
head of the queue, register the token), `ReapOnly` (a claim that finds nothing
due commits its reaping), `ReplayClaim`, `Heartbeat`, `Complete`, `Fail`,
`ExpireExhaustedJob` and `ReadBack` are the operations of
`JobStoreRepository`; `WorkerStops` is the environment. A caller passes the
`now` of its own clock, which the code accepts within
`JOB_CALLER_CLOCK_MAX_SKEW_SECONDS` of the database's, and a claim may wait
for locks after that check (`Stall`). The reply of a claim or heartbeat may be
lost, so that `held` lags behind `job`. A claim whose head of the queue was
written at or after its `now` rolls everything back, its reaping included: the
conjunct `WrittenBefore` of `TakeHead`.
Left out: validation of inputs, payloads and result hashes, the SQLite branch
(tests only).

`FencedJobs` is what callers may rely on, without clocks and leases: a
sequence of grants per job, at most `limit` of them, each claim used once, the
result that of the last grant. The refinement reads the grants out of the token
table in attempt order (proved in `JobStoreProofs`).

### ProjectionOutbox (promise: InOrderDelivery)

Source: `server/integrations/v3_execution_projection_outbox/{outbox,worker}.py`
and `v3_execution_projection/{subscriber,projector}.py`.

| Variable | Code |
|---|---|
| `history` | last canonical transition of each order |
| `row` | outbox rows, by event `(order, source_sequence)` |
| `baseline` | registered cut-over point of each order |
| `inbox`, `head` | the read model's recorded events and heads |
| `checkpoint` | per `worker_id`, last acknowledged outbox sequence |
| `run` | each process: leased event, outcome, and the `now` it uses throughout |

`Append`, `RegisterBaseline`, `Lease`, `Apply` / `ApplyFails`, `Acknowledge`,
`RecordFailure`, `Requeue` are the transactions; `Stop` ends a run between two
of them. `Apply` may commit and still be reported as an error. A lease token
is a fresh UUID and a process has one run at a time, so the process stands for
the token; two processes may share a `worker_id` (a restart). Payloads are
immutable and identified by the event; hashing and schema checks are left out.

`InOrderDelivery` has three counters per order: appended, delivered,
confirmed (the refinement is proved in `ProjectionOutboxProofs`).

### OrderLifecycle

Source: `server/trading_core/execution/{oms,matcher}.py`. One LIMIT + DAY
order. `order` and `history` are the two halves of `OrderState`; `Legal` is the
chain of checks in `apply_execution_result`, `Replays` the check that the
dataclass makes by replaying its history, with the rounding of the `Decimal`
context (`Rounded`, `HalfEven`) to a small number of digits. `MatchQuote` and
`MatchExpiry` are `match_limit_day` on a copy of the order; the copy's age
shows as `sequence`. No program in the repository drives matcher and state
machine together, so the driver is external: it delivers a decision later,
twice, or never (`decisions`), and venue reports of any status come in between
(`Report`).
Left out: the hash chain of receipts, quotes that merely wait (suspension,
price band, limit).

### PaperTrading (promise: LedgerBook)

Source: `server/trading_v2/{execution,oms,matcher,quotes,reconciliation}.py`
and `server/trading_v3/paper_execution.py`.

| Variable | Code |
|---|---|
| `orders` | `st_order_v2` |
| `account` | cash and status of `st_trade_account_v2` |
| `fills` | `st_fill_v2` |
| `ledger` | `st_cash_ledger_v2`, in the order the reconciliation reads it |
| `lots` | `st_position_lot_v2`, in the order sells consume it |
| `plans` | `st_execution_plan_v3`, state per V3 order |
| `procs` | ticks and the desk: stage, `now`, list of orders, plan states read |

A tick goes idle -> `Sweep` (read `now`, expire overdue orders; no trading
outside the session) -> `List` -> `Execute` once per listed order, oldest
first -> `SyncRead` -> `SyncWrite`. `Execute` is `_execute_one`: its
transaction locks the order, then the account, and reads everything else after
that, so it is one step with the disjuncts `Pass`, `Expire`, `Wait`,
`CancelRemainder` and `Fill`. The desk goes idle -> `DeskStart` -> projection
-> `Materialize`, or does `Freeze` outside the session. `Place` stands for
planner and monitor. `Reconcile` recomputes the books of a day and sets the
account's status. `Crash` ends a process between two of its transactions, or
makes it a deadlock's victim.

Where the tables do not determine an order of rows, the model leaves it open:
ledger rows of equal `occurred_at` and lots of equal date are ordered by
hashes in the code (`Insertions`).

Abstracted: fees (an amount is quantity times price), market conditions and
configuration (`Wait` may always happen to an order at work), sizing and risk
limits of the desk (any set of its orders that the guards allow), closing
prices of the reconciliation (a day whose books agree may be blocked all the
same). The canonical cut-over path of the tick is not modelled: no writer in
`src/` passes one.

`LedgerBook` is `LedgerBook` of `trading_v2/ledger.py`, the accounting rules
"shared by historical replay and realtime paper matching": a buy spends cash
that is there and opens a lot, a sell takes settled lots first in first out,
no key is used twice. The refinement maps a fill of order `o` from quote `q`
to key `<<o, q>>`.

### JobQueue, PositionMonitor, composed in DailyDecision

Source: `server/trading_v2/{jobs,job_worker,decision_worker,planner,position_monitor,positions,execution}.py`.

| Variable | Code |
|---|---|
| `job` | `st_job_v2`, by request (an idempotency key) |
| `run` | status of the backtest run of each BACKTEST, in `st_backtest_run_v2` |
| `proc` | where each worker process stands in `run_one_job`, and the result it carries |
| `lots`, `orders` | lots with something left, in the order sells consume them; orders that have not ended |
| `fills` | fills so far: stands for the state of the account a decision is identified by |
| `decided`, `monitored` | `st_decision_run_v2`; decisions whose positions were monitored (history) |

`run_one_job` is cut at its transactions: `Claim`, `StartWork` (the heartbeat
outside the `try`), the work, `WriteCompleted`, `LastHeartbeat` (inside the
`try`, after the commit), and the handler's `WriteFailed`. `Raises` is an
exception from any of them, with or without the commit; `Die` is a process that
dies or an error nobody handles. There is no lease and nothing takes a claim
back. A BACKTEST is `StartRun`, `FinishRun`, `FailRun` and, for what they leave
behind, `Repair`. A DECISION_RUN is `Decide` (the first transaction of
`run_daily_decision`: the decision and the planner's entry, `Plan`) and
`MonitorPositions` (`monitor_positions` over all strategies that hold the
stock). In between, the tick fills orders (`Fill`, with the lots a sell
consumes), expires them late (`Expire`), and the day goes on.
`NextState` is `evaluate_position` with the prices replaced by their verdict;
`StateOf` is the query's `MAX(position_state)`, which compares strings; the
groups of the query are sets of positions in `lots`, and `Quantity` is the
`SUM(remaining_quantity)` over such a set, as a sum over prefixes.
`PositionMonitor` sees one stock; account cash is in `PaperTrading`.

### SpoolBridge

Source: `integrations/bigqmt/spool.py`, `qmt_strategy/probiga_big_qmt_bridge.py`.

| Variable | Code |
|---|---|
| `file` | directory of each call's request file |
| `response` | `responses/`, by request id |
| `cancelled` | markers of calls that gave up, by request id |
| `call`, `late` | how far each call of `request()` is; calls whose deadline passed |
| `bridge` | the strategy's place in `_process_one_request`, and the request in hand |
| `failed` | file operations of the bridge that failed, by request (history) |

Each step is one write, rename or removal that another process can see. A call
is `ReuseAnswer` or `WriteRequest`, then `ReadResponse`, or `GiveUp`,
`Withdraw`, `Leave`. The bridge is `Take`, `Answer`, `Note` (the checkpoint
after the answer), `AnswerError`, `Close`; `Crash` and `Recover` are a stop of
the terminal and `init()`. Calls of one idempotency key share the request id,
hence marker and response, but each has its own file. Each file operation of the
bridge may fail where the outcome matters: reading a claim (`Take`; the file is
then removed unanswered), writing a response or the error response, the
checkpoint, moving to `dead_letter/` or its note (`DeadLetter`), the removal at
the end (`Finally`), and any of the recovery's, for any of the files.

### SchedulerRuns

Source: `server/api/scheduler_runtime.py`,
`server/common/scheduler_{tasks,task_lease,terminal_journal}.py`. The runs of
one task.

| Variable | Code |
|---|---|
| `task` | status and stamp of the task row: the claim |
| `audit`, `order` | audit rows with their owner and lease; their ids' order |
| `journal` | the journal's OBSERVED, REJECTED and FAILED_FINALIZATION of a run, and what failed writes left there (`broken`) |
| `listed` | no run of another task blocks the inventory of the journal |
| `proc`, `worker` | processes, with the first life that had the present PID; the worker each has for the task, with its registry entry and what it retains in memory |
| `outcome` | what really became of each child (history) |

A run is `Claim` (an update of the task row), `StartAudit` in a transaction of
its own (or with the claim, `OneTransaction`), `Launch`, `Renew`, `ChildEnds`
or `LoseLease`, `Observe` (the journal), `Finish` (audit and task row). What
fails on the way is left to the loop: `ObserveAgain`, `Retry`, and after a
restart `Recover`. The reply of a claim and of an audit may be lost, each
transaction fail, and a process die anywhere; its child dies with it, which is
the environment's doing (systemd's control group, a Job Object).

A journal write that fails may leave nothing, a directory without OBSERVED, an
incomplete file, or a complete one that was not synced (`FailToNote`, `Publish`).
`preserve` creates with `O_EXCL` and never replaces: an incomplete OBSERVED is
never noted again, an incomplete PREPARED keeps that end from being committed
(its name is the digest of what it says, `Publishable`), and an incomplete record
of any running run, or an empty directory, stops the inventory for the others
(`Listed`; `Unlist` and `Relist` for those of other tasks), so that only what a
process still has in memory is retried (`Holds`). A process that comes up may
find the PID of an earlier life in use, by itself or by a stranger (`Restart`);
`OwnerGone` then fails and recovery waits, as `_owner_pid_is_absent` says.

Stamps have the second as their unit. A task that is due again is so after
minutes, but starts by hand may follow each other at once; `Apart` is the
distance between claims, 0 if need be. The run takes 2 (section 6).

### ResearchBridge

Source: `server/ai_bridge/research.py` and the research worker of
`tools/run_codex_web_bridge.py`.

| Variable | Code |
|---|---|
| `clock` | `utcnow()` of the server |
| `row` | `ai_bridge_job`, by request UUID |
| `caller` | what each call of `request_research` has been told |
| `worker` | stage of the worker process of each host in `process_research_job`, and the completion it will report |
| `receipt` | `receipt.json` of each request on each host, or the checkpoint before it |
| `children` | model processes that may be alive on a host |
| `unrecorded` | those of them whose end the worker could neither confirm nor record |
| `calls` | how often the model was started for a request (history) |

A caller does `Submit`, `Poll` until an answer or its deadline, and `GiveUp`,
which looks again under a lock; callers other than `Watchers` die after
submitting. A worker does `Claim` (which also cleans up stale rows, `Batch` at a
time), `Begin` (checkpoint and first renewal) or `Drop`, `Launch`, `Renew` (the
heartbeat), `ModelEnds` or `Unconfirmed`, `Post`, and `Ask` after a POST without a
reply. `Die` ends a worker process, its child goes on until `ChildEnds`;
`Restart` starts the next one unless an unconfirmed child is on record.
`Unconfirmed` is the child that does not end when it is killed. Three of its steps
may fail: when `process.kill()` or the BLOCKED record of the process raises, the
job is one that failed, and `posting`; when the BLOCKED receipt cannot be written,
the worker is `idle` again; in both cases it works on while the child may live
(`unrecorded`). Every reply may be lost. A worker decides by a clock of its own whether lease and
deadline still hold, so that whatever it decides is a choice of the model; its
write to its own disk is part of the step it belongs to.
Left out: request envelopes, hashes other than the input's, model output.

Each `MC...` module holds the functions a `.cfg` cannot write and the symmetry
sets. The operators named `X_Y` ("Mutated form") are plausible bugs of the
operator `X` beside them. Nothing uses them: `PROJECT.json` lists under
"mutants" which property fails when `X` is replaced by one, as evidence that
the property can fail.

## 3. The runs

Run one with `tlc -config <cfg> <module>` in this directory. State counts are
of distinct states.

| Run | cfg | Checks | States |
|---|---|---|---|
| `job_store` | `JobStore.cfg` | `RowContract AttemptsAccounted OneLiveLease LeaseHonoured ImplementsFencedJobs DueIsServed` | 379,012 |
| `outbox_worker` | `Outbox_worker.cfg` | `NothingOvertakes InboxIsHistory OnlyTheLeaseSettles ImplementsInOrderDelivery EveryEventSettles` | 190,054 |
| `orders_day` | `Orders_day.cfg` | `TypeOK DecidedOnThisOrder FreshDecisionAccepted CanAlwaysEnd DayOrderEnds` | 57,033 |
| `paper_account` | `Paper_account.cfg` | `TypeOK BooksAgree ImplementsLedgerBook` | 231,592 |
| `paper_desk` | `Paper_desk.cfg` | `OneDecisionBuys PlansAreTrue LiquidityOnce EndsAreFinal BuyPlansSettle` | 258,938 |
| `v2_queue` | `V2_queue.cfg` | `TypeOK OneWorkerPerJob ResultIsReal UnmonitoredShows JobsSettle` | 280,726 |
| `v2_positions` | `V2_positions.cfg` | `ExitsAreCovered CommitmentsHold` | 524,134 |
| `spool_bridge` | `Spool_bridge.cfg` | `NoneDisappears CallsAreServed` | 547,694 |
| `scheduler_runs` | `Scheduler_runs.cfg` | `ClaimGuardsChild AuditsAreTrue RunsEnd` | 684,686 |
| `research_bridge` | `Research_bridge.cfg` | `OneModelCall ToldTheTruth PriorChildGone RequestsEnd` | 789,896 |
| `outbox_baseline`, `paper_ledger` | `Outbox_baseline.cfg`, `Paper_ledger.cfg` | one property each, violated: section 6 | - |

A type invariant that is proved (section 5) is not listed again here.

### What they show, and why the bounds are enough

`CHECK_DEADLOCK FALSE` in all of them: a job, an order or a day that is done
does nothing more, and the clocks stop at `Horizon`.

**job_store.** Two workers, two jobs of one or two attempts, two tokens, leases
of two units, a clock to 3, skew of 1, reap batches of 1. Each hazard of a lease
needs one job, two workers and two claims; the second job is what queue order
and a reaping smaller than the backlog need. With skew, leases last one to three
units by the database clock, and with heartbeats any length within the horizon:
a lease can be settled, extended, run out, be taken over and run out again.
Filters by job type and claims that wait for locks (`Stall`) are left to the
proofs, which cover all these properties but the last for any types and stall.
`RowContract` is the check `_job_snapshot` makes on every read, as an invariant
of what is written; `AttemptsAccounted` relates the two tables; `OneLiveLease`
is fencing, of what the *workers* believe; `LeaseHonoured` says the skew never
costs a worker its lease early. `DueIsServed`: due jobs and run-out leases are
taken up or ended although a claim fails when the head of the queue was written
by a faster clock, and although each call reaps one lease only. It excepts the
behaviours that use up the instance's tokens, which in the code are fresh UUIDs.

**outbox_worker.** Two processes sharing one `worker_id`, one order with two
events, new or cut over at a right or wrong baseline, two attempts, clocks
lagging by 1, time to 3: enough for a lease to run out under its holder, be
taken over, and be answered by both. Order is kept per order, and no condition
of the code relates the rows of two orders but the place in the queue, so one
order is enough for order and fencing; `outbox_baseline` has two.
`EveryEventSettles` counts an event as settled when it is published, or it or
an earlier event of its order is a dead letter (or is scheduled past the
bound).

**orders_day.** Quantity 5, approved 3, quotes of 1, 2 and 3 units at three
prices, averages of three digits, two decisions in flight, two venue reports that
may fill 1 or 3: decisions overtake each other, approval and request differ, the
venue may fill what risk did not approve, and the carried and the recomputed
average of a later fill may round apart, so that the dataclass refuses it.
`FreshDecisionAccepted` compares the two components: what the matcher decides on
the current order the state machine finds legal, and it accepts the first fill and
the expiry without exception; the rounding is the one reason to refuse a later
fill (section 6).
`CanAlwaysEnd` is the comment of `oms.py` that the state machine "must still be
able to converge".

A day of the paper account has three moments, the market being open in the
first two; moments 3 to 5 are day 1, moment 6 opens day 2. There is one stock:
nothing in the transactions relates two stocks except the account's cash and
status, which orders of one stock contend for as well.

**paper_account.** Two ticks, one buy of 2 and exits of 2 and 1, a Level-1
quote and two cumulative snapshots, a deposit of 3, settlement after one day.
Lots opened twice on day 1, or on both days, show FIFO and settlement; two
overlapping ticks that keep an old `now` show double fills; two exits show
over-selling. A third tick adds nothing: ticks meet pairwise in one order's
transaction.

**paper_desk.** Two decisions with a buy of 2 and of 1, two snapshots of one
unit each in the course of day 1 (the second brings nothing new, so the first
buy stays partly filled), the desk and a tick, one death at any point, time to
the opening of day 2: freeze, materialisation, projection and execution in all
orders. Orders of V2 and Level-1 quotes are in the other run, and so are sells.
`EndsAreFinal` is the promise of the tables that ended orders and plans stay as
they are; `PlansAreTrue` that the projection, which reads and writes in two
transactions, does not write down what is no longer so.

**v2_queue.** Two processes, a backtest and two decision jobs of one date (their
keys differ in the account id, which the worker does not look at), one error or
death anywhere, time for one session and its close. Two processes and one error
are what the claim, the handler and a repeated decision can go wrong with;
positions are kept to one lot here. `ResultIsReal` is deliberately weaker than
"FAILED means no result": the code overwrites a COMPLETED. `UnmonitoredShows`
is why a crash between the two transactions of a decision can be noticed at
all.

**v2_positions.** Three decision jobs for two dates, run in time or late, two
strategies holding the stock, entries of two units, partial fills, two lots, time
to the third session: positions opened, added to, committed to an exit, sold in
parts, with orders not swept in between. Errors are off (`MaxErrors = 0`): the
queue's failures are the other run's.

**spool_bridge.** Two calls of one key and a more urgent one without, one death
or failing file operation anywhere (and a recovery that fails after a death),
deadlines at any moment. Three calls are a queue with an overtaking. Two
unrelated faults are left to the proof of `NoneDisappears`, which is for any
number of them. `NoneDisappears` names the three mishaps by which the code loses
a request (`Mishap`; section 6); its point is that no other crash or failure
does. `CallsAreServed` names the failures that leave a caller waiting, all of
them on its own request.

**scheduler_runs.** Two runs of one task, a scheduler and an API process, a lease
of two ticks, two faults (crash, failed or lost transaction, failed or broken
journal write, a PID used again, another task's run in the inventory's way),
stamps to 4. Two faults are what the worst cases need: a lost reply and a
crash, a crash of each process, a crash and a reused PID. The last stamp stands
for all later ones, as does a lease that has run out. `RunsEnd` names who is left
alone (`LeftAlone`); each of its cases occurs, and without any one of them TLC
finds a run that never ends.

**research_bridge.** Two requests, one of whose callers goes on polling, on two
hosts whose workers may each die once and start again, leases of one unit and
deadlines of two, a cleanup of one row per claim, any reply lost. A lease runs
out before its deadline, so that another host, or the next life of the same one,
could take the request over; the second request is what a restarted worker would
start beside an older child. Two hosts meet in one row only, so a third adds
nothing. That further calls of one UUID join it is covered by the proofs, which
are about any number of callers. `OneModelCall` is the promise of the code that
"a dead processing owner can never create a parallel model run"; `ToldTheTruth`
relates what callers and receipts say to the row, for ever after;
`PriorChildGone` says exactly when a model is started beside an older child of
its host (section 6); `RequestsEnd` that no caller is needed to end a request.

## 4. Fairness

Only the temporal properties use it, and only what the code's scheduling gives.

- `JobStore!FairSpec`: callers poll (strong fairness of a claim by some worker,
  since a claim may be disabled while a faster clock's write is ahead), a claim
  that finds nothing still reaps, no worker sits under one lease for ever, time
  passes. The loops are the callers'; none is in the repository, so this is an
  assumption on users of the store, stated in the module.
- `ProjectionOutbox!FairSpec`: some process leases as long as something is due
  (the worker is a polling loop), a run goes on unless it stops, time passes.
  Nothing is assumed of requeues, baselines or appends.
- `OrderLifecycle!FairSpec`: the driver evaluates an expired order and delivers
  decisions; time passes. Nothing is assumed of quotes or the venue.
- `PaperTrading!FairSpec`: the scheduler starts the tick every minute and each
  of its transactions ends; time passes. Nothing is assumed of the desk, the
  monitors or the reconciliation, and deaths are finitely many.
- `DailyDecision!FairSpec`: the scheduler starts worker processes and a process
  goes on with its job unless it dies. Nothing is assumed of requests, fills,
  the repair, or time.
- `SpoolBridge!FairSpec`: the terminal's timer keeps calling the bridge, the
  duties that precede the requests in a tick (quotes, snapshots, downloads) do
  not fail or stall for ever, a stopped strategy is started again, callers go on
  polling. Deadlines may pass at any moment or not at all. Faults are finitely
  many.
- `SchedulerRuns!FairSpec`: workers go on and children end (they have a
  timeout), the scheduler's loop polls, dead processes are started again, time
  passes. Faults are finitely many.
- `ResearchBridge!FairSpec`: a worker polls and goes on with its job (its model
  has a deadline), the next worker of a host is started, time passes. Callers may
  all be gone; a host on which a BLOCKED receipt was written stays down.

## 5. What is proved

For all values of the constants that satisfy the named assumptions of the
modules, all of which TLC evaluates in the runs:

| Theorem | Module | States |
|---|---|---|
| `TypeCorrect`, `Fencing`, `LeasesHonoured`, `AttemptsCounted`, `RowsSound` | `JobStoreProofs` | `Spec => []TypeOK`, `[]OneLiveLease`, `LeaseHonoured`, `[]AttemptsAccounted`, `[]RowContract` |
| `StoreImplements` | `JobStoreProofs` | `Spec => ImplementsFencedJobs` |
| `OutboxTypeCorrect`, `InOrder`, `InboxExact`, `OnlyLeaseSettles` | `ProjectionOutboxProofs` | `Spec => []TypeOK`, `[]NothingOvertakes`, `[]InboxIsHistory`, `OnlyTheLeaseSettles` |
| `OutboxImplements`, `OnlyBaselinesStrand` | `ProjectionOutboxProofs` | `Spec => ImplementsInOrderDelivery`, `[]BaselinesStrand` |
| `OrderTypes`, `DecisionsMeetTheirOrder`, `MatcherAgreesWithStateMachine`, `OrdersCanEnd` | `OrderLifecycleProofs` | `Spec => []TypeOK`, `[]DecidedOnThisOrder`, `[]FreshDecisionAccepted`, `[]CanAlwaysEnd` |
| `PaperTypes`, `PlansTellTheTruth`, `EndsStay`, `OneDecision` | `PaperTradingProofs` | `Spec => []TypeOK`, `[]PlansAreTrue`, `EndsAreFinal`, `[]OneDecisionBuys` |
| `TheBooksAgree`, `LiquidityIsUsedOnce`, `TablesImplementLedger` | `PaperTradingProofs` | `Spec => []BooksAgree`, `[]LiquidityOnce`, `ImplementsLedgerBook` |
| `OrderedBooksReconcile` | `PaperTradingProofs` | `Spec /\ [][InTime]_vars => []OrderedBooks` |
| `OneWorker`, `ResultsReal`, `UnmonitoredSeen` | `DailyDecisionProofs` | `Spec => []OneWorkerPerJob`, `[]ResultIsReal`, `[]UnmonitoredShows` |
| `DailyTypes`, `ExitsCovered`, `CommitmentsKept` | `DailyDecisionProofs` | `Spec => []TypeOK`, `[]ExitsAreCovered`, `CommitmentsHold` |
| `NothingLost`, `SpoolTypeCorrect` | `SpoolBridgeProofs` | `Spec => []NoneDisappears`, `[]TypeOK` |
| `ChildGuarded` | `SchedulerRunsProofs` | `OneTransaction \/ Apart > 1 => (Spec => []ClaimGuardsChild)` |
| `AuditsTellTheTruth`, `SchedulerTypeCorrect` | `SchedulerRunsProofs` | `Spec => []AuditsAreTrue`, `[]TypeOK` |
| `OneCall`, `Truthful`, `PriorGone` | `ResearchBridgeProofs` | `Spec => []OneModelCall`, `[]ToldTheTruth`, `PriorChildGone` |

The assumptions are those named in the modules (`...Assumption`): bounds are
natural numbers, sets the code counts are finite, placeholders are not values.
`PaperAssumption` further says that the first day of trading lies within the
horizon. `OrderedBooksReconcile` alone assumes something of the behaviour, and
says so in its statement.
Each proof has an inductive invariant, a lemma per action (or per group of
actions that write alike) that shows it preserved, and a temporal step that
combines them.

Several modules compute by folds and sums over sequences and sets (`Filled`,
`Value`, `Total`, `Held`, `Quantity`). The library's induction rules take an
operator as a parameter and cannot be used; the proofs induct by the least
counterexample instead: a set of finite sets has a minimal member (`Minimal`,
from the well-foundedness of strict inclusion), a set of naturals a least one.
That gives what a fold does to a sequence with one more element, that a sum does
not depend on the order in which the community modules choose the elements
(`SumWithout`), and from there everything that is said of cash, positions and lots.

### JobStore

`OneLiveLease` is not inductive: it speaks of what workers believe only, and a
reclaim consults the row. The inductive invariant is

    FenceInv == TypeOK /\ RunningHasEnd /\ LeaseBelief

`LeaseBelief` ties a belief to both tables (`Backed`): the registry names the
worker as the owner of the token it holds, and unless the lease it was told of
is over on the database clock, the row is RUNNING under that token until then
or later. Two workers with running leases of a job would then hold the row's
token both, and the registry names one owner of it. `RunningHasEnd` (a RUNNING
row has an end) makes the comparisons of times meaningful. A claim preserves it because a reclaimed lease is over
on the database clock (`LeaseOver` asks both clocks) and a token that is not
fresh is only replayed to its owner by the registry (`StillClaimed`); a
heartbeat because it only moves the end forward; time because it only ends
leases. `LeaseHonoured` follows from `FenceInv` step by step: the belief of the
worker that settles is backed by the row.

`AttemptsAccounted` is inductive together with `RunningHasEnd` and
`AbsentIsEmpty` (a job that does not exist has no attempts), as `AccountInv`:
the only step that adds a token to a job adds the next attempt with it.

For the refinement the rows must be known to make sense (`RowsOK`, from which
`RowContract` follows, and which each kind of write establishes again):

    StoreInv == AccountInv /\ RowsOK

A lemma per operation shows it to be a step of `FencedJobs` on the jobs it
writes, or none: a claim appends its token to the grants of one job, since the
tokens of a job are numbered by its attempts; reaping and failing end jobs; a
heartbeat, a replay and time change nothing the abstract machine sees.

### ProjectionOutbox

    OutboxInv == TypeOK /\ AppendedIsOld /\ RunHasRow /\ NothingOvertakes /\ InboxIsHistory

`NothingOvertakes` and `InboxIsHistory` need each other's company little, but
both need to know that appended events are part of the order's history
(`AppendedIsOld`) and that a run in progress has an appended event in hand
(`RunHasRow`). A row that has ever been leased has all its predecessors
published, and no step unpublishes one: that is all that retries, expiries,
dead letters and requeues rely on. The inbox stays a prefix because the
subscriber takes only the event after the head, and within the history because
of the event in hand. The proof assumes nothing of worker ids: processes may
share them, restarted or not.

    CountInv == OutboxInv /\ AppliedRecorded /\ InboxAppended /\ AboveBaseline

is what the counts of `InOrderDelivery` rest on. The published events of an
order are a prefix of the appended ones (`NothingOvertakes`), so that an
acknowledgement, which is of an event whose predecessors are all published,
raises the count of confirmed ones by exactly one, and the confirmed event is in
the inbox by then (`AppliedRecorded`). For an order with a baseline nothing is
ever delivered, and the counts stay equal.

`OnlyBaselinesStrand` locates the disagreement of `outbox_baseline`: with
`PublishedRecorded` (what is published was recorded, as it was acknowledged after
it was applied) a leased event of an order without a baseline is recorded or the
next after the head, and one of an order with a baseline is neither, since the
head never moves from 0.

### OrderLifecycle

    OrderInv == TypeOK /\ OrderIsHistory /\ EventsOnce /\ ExpiryEnds
                /\ DecidedOnCopy /\ DecidedOnThisOrder

An order carries its filled quantity and average along; `OrderIsHistory` says they
are what a replay of the history gives, which every accepted result has
just been checked for, and that the value of a history is a number the arithmetic
can represent (`Rounded` of it is itself), so that rounding an average again
changes nothing. A decision whose sequence number could be the next was made
from the order as it is (`DecidedOnCopy`), since every applied result makes the
history longer: that is why late and repeated decisions are refused, and why a
fill never passes the approval, which only the matcher looks at. `FreshDecisionAccepted`
follows from `OrderInv`, the matcher's conditions being no weaker than the state
machine's. The first fill replays because carrying along and recomputing are the
same sum of one term, an expiry because it fills nothing. The proof holds for any
precision; of the rounding it uses that a number that was rounded is not changed
by rounding it again.

### PaperTrading

    PlanInv == Types /\ OrderStates /\ PlansSay /\ ReadStatesSay

`OrderStates` says that unwritten orders have no fills and no plan, and partially
filled ones some fill. What a process
has read of a plan's new state stays sound until it writes it (`ReadStatesSay`),
because orders only move on: quantities grow and ends stay, which is also what
`EndsAreFinal` says and follows step by step from one lemma (`Changes`) on what any
step may do to an order. `OneDecisionBuys` is inductive with the types: only
`Materialize` makes buys of V3 active, and it cancels those of other runs in the
same transaction.

    BooksAgree is inductive with Types and OrderStates

Only `Fill` moves books (`BookSteps`). A buy adds one row to each table; where in
its sequence the row is inserted does not matter to sums (`TotalInserted`,
`BoughtLot`). A sell takes, lot after lot, what the lots before left to take, which
adds up to its quantity as that is available (`SaleTakes`, `SoldLots`).

    VolumeInv == WithinVolume /\ WithinSnapshot

is `LiquidityOnce` with the maximum replaced by a witness: what an order took from
snapshots is within the volume of one of them, since a fill from a snapshot is
reduced by all that the order was filled before.

For `TablesImplementLedger` each `Fill` is shown to be a buy or a sale of
`LedgerBook` on the same lots: the insertion is one of the book's, the quantity is
within the largest order, and the lots a sale leaves are those of first in first
out (`OldestFirst`, `SaleIsFirstInFirstOut`). All other steps leave the book alone.

`OrderedBooksReconcile` locates the disagreement of `paper_ledger`. If every fill
is later than every row the ledger has (`InTime`), its row goes to the end of the
ledger, and each balance is the total of the rows up to it (`Chained`). So two
fills of one moment, or of a tick that stalled behind a later one, are all that
can make the daily reconciliation see a broken chain; and as the books agree, a
day that has all fills reconciles in every part (`DayReconciles`).

### SpoolBridge

    AnswerInv == TypeOK /\ ResponsesWritten /\ HandAnswered /\ NoneDisappears

A request is removed when a response is there (it was written,
`ResponsesWritten`), at the end of its own processing, before which the answer
was written, or failed to be, or the marker was seen (`HandAnswered`), or because
reading it or moving it failed, which `failed` records. Nothing is assumed of the
number of crashes and failures, nor of where they strike.

### SchedulerRuns

    RunInv == TypeInv /\ Distinct /\ BusyIsUp /\ Unseen /\ \A p \in Procs : Proper(p)

needs nothing of the distance between claims. A worker that was audited owns its
run (`Own`: the audit runs, carries its process and life, and is not in the journal
yet), one that waits for its audit has none, and one whose child ended knows what
became of it (`Proper`). Recovery finds the owner of such a run alive, since a
process's PID is never older than its life (`OwnedIsNotAbandoned`), and a retry
ends only runs in the journal, so nobody ends the run of a living worker.

    GuardInv == Spaced /\ Single /\ Engagement /\ Stamped

is inductive with `RunInv`, and says the same of the task row: at most one process
is engaged in the task (`Single`), and its audit is the newest with the task's stamp,
or the task is claimed with a stamp more than a second after that of every audit
(`Waiting`), so that no audit accounts for the claim and recovery leaves it alone.
`Spaced`, which is `OneTransaction \/ Apart > 1`, is the hypothesis of `ChildGuarded`
and used there only: tasks whose claim has its audit at once never wait, and the
claims of the others must be more than a second apart. It cannot be dropped
(section 6). `Stamped` (no audit is later than the task row) carries the rest.

    TruthInv == JournalTrue /\ AuditsAreTrue

is inductive with `RunInv`: a worker writes into the journal what its child's end
was (`JournalTrue`), and the audit is published from the journal, however often
that is repeated. A lemma says what one step may do to one run (`RunChange`); a run
that succeeded is made a failure only by a recovery or a journal entry, both of
which need its lease to be over.

### DailyDecision

    DayInv == Typed /\ OneWorkerPerJob /\ ResultIsReal /\ Carried /\ Shown

The results rows hold are real because those that processes are about to write
are (`Carried`): a decision is made, and a backtest's run completed, before the
process has anything to write, and `Repair` leaves running ones alone.
`UnmonitoredShows` follows from `Shown`, which names for each decision without
its monitoring the job that shows it: FAILED, or RUNNING with nobody or with the
process that is still at it. This part needs no type of holdings and orders, nor
anything that the positions do.

    HoldInv == DeskTypeOK /\ Covered(orders, Total) /\ AtOne
               /\ monitored \subseteq decided

is about the positions. `ExitsAreCovered` is a statement about sums that is not
inductive: a second exit would have to be within what the first one leaves.
There is none (`Covered`): the monitor orders an exit for what one strategy holds,
and only when no sell of the stock is active; a sell consumes as much of the lots
as it fills. `CommitmentsHold` needs to know that the lots of a strategy differ in
state only in those bought since the monitor last looked (`AtOne`), because
`StateOf` takes one state for them all: then it is the committed one, unless a lot
is OPENING, and `NextState` of a committed state is committed. `ConsumedIs` says
what a sell leaves of the lots, `EvaluatedSound` what one strategy's turn keeps,
and `BooksExist` that the monitor's fold over strategies keeps it.

### ResearchBridge

    BridgeInv == TypeOK /\ JobsOwned /\ RowsSound /\ CallsCounted
                 /\ CallersTold /\ ReceiptsTrue /\ ChildrenKnown

A row gets an owner once, from the claim of a queued row, and that owner is a
process that never existed before (`WorkerIds` count lives). Between the claim
and the launch only the owner has the job (`JobsOwned`), so that a request
without an owner was never given to a model, and one in the hands of a worker
before its launch neither (`CallsCounted`). An ended row never changes, hence
what was told stays true. Each child is that of the running job, or of a process
that is gone without a word, or of a worker that is down for good, or one whose end was
neither confirmed nor recorded (`ChildrenKnown`); `PriorChildGone` is what that
means at the next launch.

## 6. Disagreements found

Each is a run in which TLC finds the property violated by the code as it is;
`PROJECT.json` quotes the lines.

- `outbox_baseline`: an existing order cut over at baseline n starts its outbox
  at n + 1, but the subscriber, which has no head for the plan, expects 1. The
  event is refused until it is a dead letter.
- `paper_ledger`: all fills of a tick have one `occurred_at`, and the
  reconciliation reads the cash ledger in the order of `occurred_at` and a
  hash. Two fills of one tick may be read in the other order; the chain of
  balances looks broken and the account is blocked.

Other facts the models document, without a run that calls them errors:

- `OrderState` recomputes the average price from the history and compares it
  with one carried along fill by fill; the two round differently, and a legal
  fill after the first can be refused for ever (`Replays`;
  `FreshDecisionAccepted` says that nothing else is refused, and the instance
  reaches such refusals).
- An order whose cancellation was requested after its window, or which the venue
  filled past its approval, is not taken by the matcher any more and waits for
  the venue (`DayOrderEnds`).
- A worker that dies on an outbox event consumes attempts without bound:
  `max_attempts` is only looked at when a failure is recorded.
- The desk writes CANCELLED to a plan that is still active although its order
  was filled and only the projection is missing (`PlansAreTrue` leaves it out).
- Plans of exits have side SELL, their intents action EXIT or REDUCE; the
  projection joins on equality, so such plans stay PAPER_QUEUED
  (`BuyPlansSettle` is about buys).
- A V2 job whose worker died stays RUNNING, and every later request of its key
  is answered with it (`LeftBehind`). A heartbeat that fails after COMPLETED
  makes the job FAILED with a result.
- A decision whose monitoring failed is found by the next job of its date, which
  reports it as its own and monitors nothing.
- A new OPENING lot hides the pending exit of the lots beside it, as
  `MAX(position_state)` compares strings; "irreversible"
  (`positions.py`) holds only up to that, as `CommitmentsHold` states it.
- A sell consumes the oldest lots whatever their strategy; an exit that is over
  but not swept keeps the next one from being ordered that day.
- A call that times out leaves a marker under the id it shares with other calls
  of its key: a retry is dead-lettered until the marker is cleaned up, after
  days. An answer that was written may be overwritten by an error when the
  checkpoint after it fails.
- The bridge removes a claimed request that it cannot read
  (`_process_one_request`: no response path yet, so no error response, and the
  `finally` clause removes the file), one whose error response it cannot write,
  and a late one that it cannot move to `dead_letter/`; the caller waits to its
  deadline and nothing tells why (`Mishap`). A request for which its recovery
  fails is in `dead_letter/` or stays in `inflight/` until the next restart.
- A scheduler's claim whose reply is lost leaves the task claimed, and its
  audit, if it has one, running for ever while its process lives; a run of a
  dead API process is recovered only after a restart of the scheduler; another
  running audit of a live process blocks the recovery of all (`LeftAlone`).
- A run whose owner died is not recovered while any process has the owner's PID,
  the poller that looks for it included (`_owner_pid_is_absent`): if the run is not
  in the journal, nothing ends it.
- A write of the terminal journal that breaks off leaves a file that is never
  replaced. With an incomplete OBSERVED the outcome cannot be noted, with an
  incomplete PREPARED it cannot be committed, and the run keeps its task claimed
  until its owner is gone. The inventory of `_retry_pending_terminal_writes` stops at
  such a run, and at a directory without OBSERVED, so runs of other tasks that
  only the journal knows wait with it.
- `_recover_interrupted_manual_claim` takes stamps within a second for the same
  claim, and `launch_scheduler_task` keeps no distance between starts by hand
  (`_terminal_check_running` expects "same-second new claims"). With `Apart` 0 or 1
  and claim and audit in two transactions TLC finds `ClaimGuardsChild` violated: an
  audit whose reply was lost is still running and its owner dead; within a second the
  task is claimed again and the claimer stalls before its audit for a whole lease
  (900 seconds); a restarted scheduler releases the fresh claim with the old audit, the
  task is claimed once more, and the first claimer then writes its audit under the
  other's claim. `ChildGuarded` therefore has its hypothesis.
- A research worker that dies leaves its model running, and the next one of the
  host starts another beside it: on start only an unconfirmed termination is
  looked for, although `ResearchTerminationUnconfirmed` says "Do not accept another
  model job until the prior child is proven absent" (`PriorChildGone`). Nor does
  the worker itself stop when `process.kill()`, or writing BLOCKED to the
  process record or the receipt, raises: what it then handles is a failure
  like any other, and it claims its next job beside the child.
- A research request is claimed once, and each worker process has a new id, so
  the branch of `process_research_job` that finds an earlier receipt is not
  reached: an answer whose two POSTs failed is lost, and the request fails at its
  deadline, as does one whose claim's reply was lost.

## 7. What is only model-checked, and what is not modelled

Liveness under fairness and everything about ENABLED is beyond the prover and
stays with TLC: `DueIsServed`, `EveryEventSettles`, `DayOrderEnds`,
`BuyPlansSettle`, `JobsSettle`, `CallsAreServed`, `RunsEnd`, `RequestsEnd`. Every
other property of a passing run is also proved for all values of the constants.
That the cases the properties are about occur at all is TLC's to show: each property
fails under a plausible bug of the code, listed under "mutants" in `PROJECT.json`.
No module declares
a RECURSIVE operator.

Not modelled, by reason:

- numerical analysis with a single writer (scoring, research, strategy engine,
  market analysis, briefing): no sequence of steps to get wrong;
- thin or external: HTTP routers, other integrations, dashboard, tools;
- parts of modelled components: the heartbeat row of the V2 worker (written and
  never read there) and backtest jobs queued before requests had a
  `run_request_uid`; stop prices, themes and the canonical account of the
  monitor; payloads, heartbeats, quote snapshots and the native download state
  of the terminal's strategy; which tasks are due, lanes, daily stages, the
  other host's scheduler and graceful stops; reconciliation of a task row whose
  audit ended without it, which no modelled step leaves behind;
- switched off: `integrations/v2_canonical_commit`, which the code disables by
  default, and with it the cut-over path of the tick;
- planned: section 8.

## 8. Plan

Order: the parts that could lose or double money or work come first.

Done: `JobStore` + `FencedJobs`, `ProjectionOutbox` + `InOrderDelivery`,
`OrderLifecycle`, `PaperTrading` + `LedgerBook`, `JobQueue` + `PositionMonitor`
in `DailyDecision`, `SpoolBridge`, `SchedulerRuns`, `ResearchBridge`; proofs of all
safety properties that their runs check, and of the three refinements.

Next, models:

1. `SnapshotBatch`: shared liquidity of a batch and the session gate, as
   operators compared with a reference definition over bounded inputs, then
   composed with `OrderLifecycle`.
2. `CanonicalCommit`: the transaction over execution evidence, accounting
   evidence and outbox, its append being that of `ProjectionOutbox`; evidence
   chains with a retry after a lost commit.
3. The question queue of the AI bridge and the intraday alert batches above its
   research channel, the V4 control plane, the scheduler's daily stages with
   their fences.

Next, theorems:

1. `OrderLifecycle`: a bound on the precision an order needs for its later fills
   to replay, which would turn the disagreement about averages into a condition
   on prices and quantities.
2. `SpoolBridge`: what a caller may conclude from an answer when calls share a key.
3. The steps that the liveness arguments rest on, as action properties: what each
   fair action makes progress on.
