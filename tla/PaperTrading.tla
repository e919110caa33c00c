----------------------------- MODULE PaperTrading -----------------------------
(***************************************************************************)
(* The paper account of Trading V2 and what works on it:                   *)
(*   - the execution tick (trading_v2/execution.py), several of which may  *)
(*     be under way, may stall for as long as they like, and may die       *)
(*     between any two of their transactions;                              *)
(*   - the writers of orders: planner and position monitor of V2, and the  *)
(*     V3 desk (trading_v3/paper_execution.py), which also cancels what    *)
(*     older decisions left;                                               *)
(*   - the projection of orders onto V3 execution plans;                   *)
(*   - the daily reconciliation (trading_v2/reconciliation.py).            *)
(* _execute_one locks its order, then the account, and everything else it  *)
(* reads it reads after that: its transaction is one step.  Two parties    *)
(* that lock in opposite orders end with one of them rolled back: Crash.   *)
(* The canonical cut-over path of the tick is not modelled: no writer of   *)
(* the production system passes one.                                       *)
(***************************************************************************)
EXTENDS Integers, Sequences, FiniteSets, SequencesExt, FiniteSetsExt

CONSTANTS
  Orders, Buys,     \* orders that may be written, the BUYs among them
  V3Orders, RunOf,  \* those written by the V3 desk, and for which run
  Quantity, Earliest, Expires,    \* of each order
  StockOf,          \* of each order and each quote
  Quotes, Snapshots,   \* quote events; those without Level-1 depth
  QuoteAt, Volume, PriceOf,  \* of each quote
  QuoteMaxAge, SnapshotMaxAge,
  Ticks, Desk,      \* runs of the tick, and the V3 desk
  NoRun,            \* the "run" of the premarket freeze
  Deposit, SettlementDays,
  DayLength, Session,  \* moments of a day; those when the market is open
  MaxCrashes,       \* bound: how often a process dies
  Horizon           \* bound: the clock stops here

ASSUME PaperAssumption ==
  /\ IsFiniteSet(Orders) /\ Buys \subseteq Orders /\ V3Orders \subseteq Orders
  /\ Snapshots \subseteq Quotes
  /\ Quantity \in [Orders -> Nat \ {0}]
  /\ Earliest \in [Orders -> Nat] /\ Expires \in [Orders -> Nat]
  /\ QuoteAt \in [Quotes -> Nat] /\ Volume \in [Quotes -> Nat]
  /\ PriceOf \in [Quotes -> Nat \ {0}]
  /\ Deposit \in Nat /\ SettlementDays \in Nat
  /\ DayLength \in Nat \ {0} /\ Session \subseteq 0..(DayLength - 1)
  /\ Horizon \in Nat /\ DayLength <= Horizon /\ MaxCrashes \in Nat
  /\ Desk \notin Ticks /\ \A o \in V3Orders : RunOf[o] # NoRun

VARIABLES
  clock,
  orders,     \* st_order_v2: status, filled quantity, created_at
  account,    \* st_trade_account_v2: cash and status
  fills,      \* st_fill_v2
  ledger,     \* st_cash_ledger_v2 in the order (occurred_at, cash_event_id)
  lots,       \* st_position_lot_v2 in the order (opened_trade_date, lot_id)
  plans,      \* st_execution_plan_v3: state of the plan of each V3 order
  procs,      \* ticks and desk: stage, now, orders to do, plan states read
  crashes

tables == <<orders, account, fills, ledger, lots, plans>>
vars == <<clock, orders, account, fills, ledger, lots, plans, procs, crashes>>

-----------------------------------------------------------------------------

Active == {"RISK_APPROVED", "QUEUED", "PARTIALLY_FILLED"}
Terminal == {"FILLED", "CANCELLED", "EXPIRED"}
ActivePlan == {"PAPER_QUEUED", "PAPER_PARTIALLY_FILLED"}
EndedPlan == {"PAPER_FILLED", "PAPER_PARTIAL_CANCELLED", "CANCELLED",
              "PAPER_PARTIAL_EXPIRED", "EXPIRED"}
None == "NONE"

(* oms.py, ACTIVE_TRANSITIONS: what the tables may go through. *)
Transitions ==
  [status \in Active \cup Terminal \cup {None} |->
     CASE status = None -> {"RISK_APPROVED", "QUEUED"}
       [] status = "RISK_APPROVED" -> {"QUEUED", "CANCELLED", "EXPIRED"}
       [] status \in {"QUEUED", "PARTIALLY_FILLED"} -> {"PARTIALLY_FILLED"} \cup Terminal
       [] OTHER -> {}]

Day(t) == t \div DayLength
SessionOpen(t) == t % DayLength \in Session

IsActive(o) == orders[o].status \in Active
Remaining(o) == Quantity[o] - orders[o].filled

Held(s) == MapThenSumSet(LAMBDA n : lots[n].left,
                         {n \in DOMAIN lots : lots[n].stock = s})

Settled(lot, s, day) == lot.stock = s /\ lot.settles <= day

(* _available_sell_quantity *)
AvailableToSell(s, day) ==
  MapThenSumSet(LAMBDA n : lots[n].left,
                {n \in DOMAIN lots : Settled(lots[n], s, day)})

(* Mutated form: the newest lots go first. *)
Precedes_Newest(n, m) == n > m
Precedes(n, m) == n < m

(* Mutated form: what one lot gave is taken from the next as well. *)
AfterSale_FromEach(s, day, quantity) ==
  [n \in DOMAIN lots |-> IF Settled(lots[n], s, day)
                         THEN [lots[n] EXCEPT !.left = @ - quantity] ELSE lots[n]]
(* _consume_sell_lots *)
AfterSale(s, day, quantity) ==
  LET eligible == {n \in DOMAIN lots : Settled(lots[n], s, day)}
      before(n) == MapThenSumSet(LAMBDA m : lots[m].left,
                                 {m \in eligible : Precedes(m, n)})
      taken(n) == IF n \in eligible
                  THEN Min({lots[n].left, Max({0, quantity - before(n)})}) ELSE 0
  IN  [n \in DOMAIN lots |-> [lots[n] EXCEPT !.left = @ - taken(n)]]

(* Where a row goes that is read back ORDER BY its field `by`, ties open.   *)
Insertions(seq, e, by) ==
  {t \in {InsertAt(seq, n, e) : n \in 1..(Len(seq) + 1)} :
     \A n \in 1..(Len(t) - 1) : t[n][by] <= t[n + 1][by]}

-----------------------------------------------------------------------------
(* Quotes *)

Age(q, now) == now - QuoteAt[q]
Latest(S) == {q \in S : \A r \in S : QuoteAt[r] <= QuoteAt[q]}
Published(s) == {q \in Quotes : StockOf[q] = s /\ QuoteAt[q] <= clock}

(* The Level-1 quote a tick at `now` can match, and the snapshot it falls  *)
(* back to.  A snapshot once looked at is stored as a quote event, so that *)
(* it may hide an older Level-1 quote that is still fresh.                 *)
Level1(s, now) ==
  {q \in Latest(Published(s) \ Snapshots) : Age(q, now) \in 0..QuoteMaxAge}
Fallback(s, now) ==
  {q \in Latest(Published(s) \cap Snapshots) :
     /\ Age(q, now) \in 0..SnapshotMaxAge
     /\ \A r \in Level1(s, now) : QuoteAt[r] < QuoteAt[q]}
Matchable(s, now) == Level1(s, now) \cup Fallback(s, now)

(* Mutated form: every tick may use the volume of a snapshot again. *)
Liquidity_Anew(o, q) == Volume[q]
Liquidity(o, q) == IF q \in Snapshots THEN Volume[q] - orders[o].filled ELSE Volume[q]

MatchQuantity(o, q, now) ==
  Min({Remaining(o), Liquidity(o, q)} \cup
      IF o \in Buys THEN {} ELSE {AvailableToSell(StockOf[o], Day(now))})

-----------------------------------------------------------------------------
(* _execute_one: the transaction for one order, at the tick's `now`.       *)

SetStatus(o, status) == orders' = [orders EXCEPT ![o].status = status]

(* Mutated form: what the list said is taken for granted. *)
StillActive_AsListed(o) == TRUE
StillActive(o) == orders[o].status \in Active

Working(o, now) == StillActive(o) /\ Earliest[o] <= now /\ now < Expires[o]

WaitingStatus(o) == IF orders[o].filled > 0 THEN "PARTIALLY_FILLED" ELSE "QUEUED"

FilledBy(o, q) == \E f \in fills : f.order = o /\ f.event = q

(* Ended meanwhile, not due yet, or the quote already filled this order.   *)
Pass(o, now) ==
  /\ \/ ~StillActive(o)
     \/ now < Earliest[o]
     \/ Working(o, now) /\ \E q \in Matchable(StockOf[o], now) : FilledBy(o, q)
  /\ UNCHANGED tables

Expire(o, now) ==
  /\ StillActive(o) /\ now >= Earliest[o] /\ now >= Expires[o]
  /\ SetStatus(o, "EXPIRED")
  /\ UNCHANGED <<account, fills, ledger, lots, plans>>

(* A blocked account, a missing rule, no sellable lot, too little cash or  *)
(* anything the market says makes the order wait.                          *)
Wait(o, now) ==
  /\ Working(o, now)
  /\ SetStatus(o, WaitingStatus(o))
  /\ UNCHANGED <<account, fills, ledger, lots, plans>>

(* The evidence a BUY was approved on is gone: cancel_buy_remainder.       *)
CancelRemainder(o, now) ==
  /\ Working(o, now) /\ o \in Buys /\ account.status = "ACTIVE"
  /\ SetStatus(o, "CANCELLED")
  /\ UNCHANGED <<account, fills, ledger, lots, plans>>

NextStatus(o, quantity) ==
  IF orders[o].filled + quantity >= Quantity[o] THEN "FILLED" ELSE "PARTIALLY_FILLED"

Affordable(o, amount) == o \in Buys => amount <= account.cash

(* Mutated form: the key is not looked up. *)
FreshKey_Any(o, q) == TRUE
FreshKey(o, q) == ~FilledBy(o, q)

Fill(o, q, now) ==
  LET quantity == MatchQuantity(o, q, now)
      amount == quantity * PriceOf[q]
      net == IF o \in Buys THEN -amount ELSE amount
      cash == account.cash + net
  IN  /\ Working(o, now) /\ account.status = "ACTIVE"
      /\ q \in Matchable(StockOf[o], now)
      /\ quantity > 0 /\ Affordable(o, amount) /\ FreshKey(o, q)
      /\ fills' = fills \cup {[order |-> o, event |-> q, quantity |-> quantity, at |-> now]}
      /\ ledger' \in Insertions(ledger, [amount |-> net, after |-> cash, at |-> now], "at")
      /\ account' = [account EXCEPT !.cash = cash]
      /\ IF o \in Buys
         THEN lots' \in Insertions(lots,
                [stock |-> StockOf[o], opened |-> Day(now),
                 settles |-> Day(now) + SettlementDays, left |-> quantity], "opened")
         ELSE lots' = AfterSale(StockOf[o], Day(now), quantity)
      /\ orders' = [orders EXCEPT ![o].filled = @ + quantity,
                                  ![o].status = NextStatus(o, quantity)]
      /\ UNCHANGED plans

ExecuteOne(o, now) ==
  \/ Pass(o, now)
  \/ Expire(o, now)
  \/ Wait(o, now)
  \/ CancelRemainder(o, now)
  \/ \E q \in Quotes : Fill(o, q, now)

-----------------------------------------------------------------------------
(* The processes.  `todo` and `seen` are what a process read and has not   *)
(* used yet; everything else it keeps is in the tables.                    *)

Idle == [stage |-> "idle", now |-> 0, todo |-> {}, seen |-> {}]

Goes(p, stage) == procs' = [procs EXCEPT ![p].stage = stage]

Due(o, now) == IsActive(o) /\ Expires[o] <= now

(* run_execution_tick up to market_open *)
Sweep(t) ==
  /\ procs[t].stage = "idle"
  /\ orders' = [o \in Orders |-> IF Due(o, clock) THEN [orders[o] EXCEPT !.status = "EXPIRED"]
                                                  ELSE orders[o]]
  /\ procs' = [procs EXCEPT ![t] =
       [Idle EXCEPT !.stage = IF SessionOpen(clock) THEN "swept" ELSE "executed",
                    !.now = clock]]
  /\ UNCHANGED <<clock, account, fills, ledger, lots, plans, crashes>>

List(t) ==
  /\ procs[t].stage = "swept"
  /\ procs' = [procs EXCEPT ![t].stage = "listed", ![t].todo = {o \in Orders : IsActive(o)}]
  /\ UNCHANGED <<clock, tables, crashes>>

Oldest(S) == {o \in S : \A p \in S : orders[o].created <= orders[p].created}

Execute(t) ==
  /\ procs[t].stage = "listed"
  /\ \E o \in Oldest(procs[t].todo) :
       /\ ExecuteOne(o, procs[t].now)
       /\ procs' = [procs EXCEPT ![t].todo = @ \ {o}]
  /\ UNCHANGED <<clock, crashes>>

(* _v3_plan_state *)
PlanState(o) ==
  LET filled == orders[o].filled > 0
  IN  CASE orders[o].status = "FILLED" -> "PAPER_FILLED"
        [] orders[o].status = "PARTIALLY_FILLED" -> "PAPER_PARTIALLY_FILLED"
        [] orders[o].status = "CANCELLED" -> IF filled THEN "PAPER_PARTIAL_CANCELLED"
                                                       ELSE "CANCELLED"
        [] orders[o].status = "EXPIRED" -> IF filled THEN "PAPER_PARTIAL_EXPIRED"
                                                     ELSE "EXPIRED"
        [] OTHER -> "PAPER_QUEUED"

(* Mutated form: plans that are partly filled are not looked at again. *)
Joined_Queued == {o \in V3Orders \cap Buys : plans[o] = "PAPER_QUEUED"}
(* Plans are matched with intents whose action is the plan's side, which   *)
(* only those of BUYs are: exits are written with the action EXIT.         *)
Joined == {o \in V3Orders \cap Buys : plans[o] \in ActivePlan}

SyncRead(p) ==
  /\ \/ procs[p].stage = "executed"
     \/ procs[p].stage = "listed" /\ procs[p].todo = {}
  /\ procs' = [procs EXCEPT ![p].stage = "read",
       ![p].seen = {<<o, PlanState(o)>> : o \in {b \in Joined : PlanState(b) # plans[b]}}]
  /\ UNCHANGED <<clock, tables, crashes>>

(* Mutated form: the state read is written whatever the plan is by now. *)
Writable_Any(o) == TRUE
Writable(o) == plans[o] \in ActivePlan

(* The desk goes on to write orders; a tick is done. *)
SyncWrite(p) ==
  /\ procs[p].stage = "read"
  /\ plans' = [o \in V3Orders |->
       IF Writable(o) /\ \E e \in procs[p].seen : e[1] = o
       THEN (CHOOSE e \in procs[p].seen : e[1] = o)[2] ELSE plans[o]]
  /\ procs' = [procs EXCEPT ![p] = IF p = Desk THEN [Idle EXCEPT !.stage = "synced"] ELSE Idle]
  /\ UNCHANGED <<clock, orders, account, fills, ledger, lots, crashes>>

(* The process dies, or its transaction is chosen as a deadlock's victim.  *)
Crash(p) ==
  /\ crashes < MaxCrashes
  /\ procs[p] # Idle
  /\ crashes' = crashes + 1
  /\ procs' = [procs EXCEPT ![p] = Idle]
  /\ UNCHANGED <<clock, tables>>

-----------------------------------------------------------------------------
(* Writers of orders *)

Unwritten(o) == orders[o].status = None
Written(status) == [status |-> status, filled |-> 0, created |-> clock]

(* _persist_exit_chain: one active sell per stock, for what is held.       *)
MayExit(o) ==
  /\ \A p \in Orders \ Buys : StockOf[p] = StockOf[o] => ~IsActive(p)
  /\ Quantity[o] <= Held(StockOf[o])

(* V2 planner and position monitor *)
Place(o) ==
  /\ o \in Orders \ V3Orders
  /\ Unwritten(o)
  /\ o \notin Buys => MayExit(o)
  /\ orders' = [orders EXCEPT ![o] = Written("RISK_APPROVED")]
  /\ UNCHANGED <<clock, account, fills, ledger, lots, plans, procs, crashes>>

(* _cancel_superseded_v3_buys: orders of other runs, then their plans.     *)
Stale(o, run) == o \in V3Orders \cap Buys /\ RunOf[o] # run
CancelledBy(run) == {o \in V3Orders : Stale(o, run) /\ IsActive(o)}

(* Mutated form: a partly filled order keeps working. *)
AfterCancel_UnlessFilled(o, run) ==
  IF o \in CancelledBy(run) /\ orders[o].filled = 0
  THEN [orders[o] EXCEPT !.status = "CANCELLED"] ELSE orders[o]
AfterCancel(o, run) ==
  IF o \in CancelledBy(run) THEN [orders[o] EXCEPT !.status = "CANCELLED"] ELSE orders[o]

(* Mutated form: any fill makes it a partial cancellation. *)
PlanAfterCancel_ByFills(o, run) ==
  IF ~(Stale(o, run) /\ plans[o] \in ActivePlan) THEN plans[o]
  ELSE IF orders[o].filled > 0 THEN "PAPER_PARTIAL_CANCELLED" ELSE "CANCELLED"
PlanAfterCancel(o, run) ==
  IF ~(Stale(o, run) /\ plans[o] \in ActivePlan) THEN plans[o]
  ELSE IF o \in CancelledBy(run) /\ orders[o].filled > 0 THEN "PAPER_PARTIAL_CANCELLED"
  ELSE "CANCELLED"

(* freeze_pending_v3_buys: the premarket decision, before the open *)
Freeze ==
  /\ procs[Desk].stage = "idle" /\ ~SessionOpen(clock)
  /\ orders' = [o \in Orders |-> AfterCancel(o, NoRun)]
  /\ plans' = [o \in V3Orders |-> PlanAfterCancel(o, NoRun)]
  /\ UNCHANGED <<clock, account, fills, ledger, lots, procs, crashes>>

(* materialize_internal_paper_orders starts with a sync of the plans. *)
DeskStart ==
  /\ procs[Desk].stage = "idle"
  /\ Goes(Desk, "executed")
  /\ UNCHANGED <<clock, tables, crashes>>

(* A BUY needs a stock no BUY works on any more, other runs' cancelled.    *)
MayBuy(o, run) ==
  \A p \in Buys : StockOf[p] = StockOf[o] => ~IsActive(p) \/ p \in CancelledBy(run)

Materialize(run) ==
  /\ procs[Desk].stage = "synced"
  /\ \E S \in SUBSET {o \in V3Orders :
               /\ RunOf[o] = run /\ Unwritten(o)
               /\ IF o \in Buys THEN MayBuy(o, run) ELSE MayExit(o)} :
       /\ \A o, p \in S : o # p => StockOf[o] # StockOf[p]
       /\ orders' = [o \in Orders |->
            IF o \notin S THEN AfterCancel(o, run)
            ELSE Written(IF o \in Buys THEN "QUEUED" ELSE "RISK_APPROVED")]
       /\ plans' = [o \in V3Orders |-> IF o \in S THEN "PAPER_QUEUED"
                                                  ELSE PlanAfterCancel(o, run)]
  /\ procs' = [procs EXCEPT ![Desk] = Idle]
  /\ UNCHANGED <<clock, account, fills, ledger, lots, crashes>>

-----------------------------------------------------------------------------
(* reconcile_account for a day *)

Total(seq) == FoldSeq(LAMBDA e, sum : e.amount + sum, 0, seq)

By(day) == {n \in DOMAIN ledger : Day(ledger[n].at) <= day}
FillsBy(day) == {f \in fills : Day(f.at) <= day}
FillsOf(o, F) == MapThenSumSet(LAMBDA f : f.quantity, {f \in F : f.order = o})
Position(s, F) ==
  MapThenSumSet(LAMBDA o : IF o \in Buys THEN FillsOf(o, F) ELSE -FillsOf(o, F),
                {o \in Orders : StockOf[o] = s})
Stocks == {StockOf[o] : o \in Orders}
IsCurrent(day) == FillsBy(day) = fills

CashChains(day) ==
  /\ \A n \in By(day) : ledger[n].after = Total(SubSeq(ledger, 1, n))
  /\ IsCurrent(day) => account.cash = ledger[Len(ledger)].after

DayReconciles(day) ==
  /\ CashChains(day)
  /\ IsCurrent(day) => \A s \in Stocks : Held(s) = Position(s, fills)
  /\ \A o \in Orders : ~Unwritten(o) /\ Day(orders[o].created) <= day
                         => orders[o].filled = FillsOf(o, FillsBy(day))

(* Whether closing prices are complete and equity is as it was is not      *)
(* modelled: a day whose books agree may be blocked all the same.          *)
Reconcile(day) ==
  /\ day <= Day(clock)
  /\ IF IsCurrent(day)
     THEN \E status \in {"RECONCILIATION_BLOCKED"} \cup
                        (IF DayReconciles(day) THEN {"ACTIVE"} ELSE {}) :
            account' = [account EXCEPT !.status = status]
     ELSE UNCHANGED account
  /\ UNCHANGED <<clock, orders, fills, ledger, lots, plans, procs, crashes>>

Tick ==
  /\ clock < Horizon
  /\ clock' = clock + 1
  /\ UNCHANGED <<tables, procs, crashes>>

-----------------------------------------------------------------------------

Runs == {RunOf[o] : o \in V3Orders}

(* The first day of trading is day 1. *)
Init ==
  /\ clock = DayLength
  /\ orders = [o \in Orders |-> [status |-> None, filled |-> 0, created |-> 0]]
  /\ account = [cash |-> Deposit, status |-> "ACTIVE"]
  /\ fills = {}
  /\ ledger = <<[amount |-> Deposit, after |-> Deposit, at |-> 0]>>
  /\ lots = <<>>
  /\ plans = [o \in V3Orders |-> None]
  /\ procs = [p \in Ticks \cup {Desk} |-> Idle]
  /\ crashes = 0

TickStep(t) == Sweep(t) \/ List(t) \/ Execute(t) \/ SyncRead(t) \/ SyncWrite(t)

Next ==
  \/ Tick
  \/ \E t \in Ticks : TickStep(t)
  \/ \E p \in Ticks \cup {Desk} : Crash(p)
  \/ DeskStart \/ SyncRead(Desk) \/ SyncWrite(Desk) \/ Freeze
  \/ \E run \in Runs : Materialize(run)
  \/ \E o \in Orders : Place(o)
  \/ \E day \in 1..Day(Horizon) : Reconcile(day)

Spec == Init /\ [][Next]_vars

(* The scheduler starts the tick every minute and each of its transactions *)
(* ends; the clock moves.  Nothing is assumed of the desk.                 *)
FairSpec == Spec /\ WF_vars(Tick) /\ \A t \in Ticks : WF_vars(TickStep(t))

-----------------------------------------------------------------------------
(* Properties *)

Statuses == Active \cup Terminal \cup {None}
Moments == 0..Horizon

(* Types of the tables and of what the processes keep.                     *)
TypeOK ==
  /\ clock \in Moments /\ crashes \in 0..MaxCrashes
  /\ orders \in [Orders -> [status : Statuses, filled : Nat, created : Moments]]
  /\ account \in [cash : Int, status : {"ACTIVE", "RECONCILIATION_BLOCKED"}]
  /\ fills \subseteq [order : Orders, event : Quotes, quantity : Nat \ {0}, at : Moments]
  /\ \A n \in DOMAIN ledger : ledger[n] \in [amount : Int, after : Int, at : Moments]
  /\ \A n \in DOMAIN lots :
       lots[n] \in [stock : Stocks, opened : Nat, settles : Nat, left : Nat]
  /\ plans \in [V3Orders -> ActivePlan \cup EndedPlan \cup {None}]
  /\ \A p \in Ticks \cup {Desk} :
       procs[p] \in [stage : {"idle", "swept", "listed", "executed", "read", "synced"},
                     now : Moments, todo : SUBSET Orders,
                     seen : SUBSET (V3Orders \X (ActivePlan \cup EndedPlan))]

(* The five tables tell one story whatever ticks overlap or die: cash is   *)
(* the ledger's total and not negative, positions are what was filled, an  *)
(* order's filled quantity is that of its fills and within the order, and  *)
(* no quote filled an order twice (LedgerBook.reconcile).                  *)
BooksAgree ==
  /\ account.cash = Total(ledger) /\ account.cash >= 0
  /\ \A s \in Stocks : Held(s) = Position(s, fills)
  /\ \A o \in Orders : orders[o].filled = FillsOf(o, fills) /\ orders[o].filled <= Quantity[o]
  /\ \A f, g \in fills : f.order = g.order /\ f.event = g.event => f = g

(* Liquidity is not used twice: a quote fills an order up to its volume,   *)
(* and all snapshots together fill it up to the largest of theirs, as each *)
(* snapshot's volume is what was traded since the open.                    *)
LiquidityOnce ==
  /\ \A f \in fills : f.quantity <= Volume[f.event]
  /\ \A o \in Orders :
       LET cumulated == {f \in fills : f.order = o /\ f.event \in Snapshots}
       IN  cumulated # {} =>
             FillsOf(o, cumulated) <= Max({Volume[f.event] : f \in cumulated})

(* BUYs of one V3 decision at most are at work: an older decision's orders *)
(* end, their remainders included, when a newer one writes its own.        *)
OneDecisionBuys ==
  \A o, p \in V3Orders \cap Buys : IsActive(o) /\ IsActive(p) => RunOf[o] = RunOf[p]

(* What a plan says of its order is so.  CANCELLED is left out: the desk   *)
(* also gives it to the plan of an order that was filled and not projected *)
(* yet.                                                                    *)
PlansAreTrue ==
  \A o \in V3Orders :
    LET filled == orders[o].filled > 0  status == orders[o].status
    IN  CASE plans[o] = "PAPER_FILLED" -> status = "FILLED"
          [] plans[o] = "PAPER_PARTIALLY_FILLED" -> filled
          [] plans[o] = "PAPER_PARTIAL_CANCELLED" -> status = "CANCELLED" /\ filled
          [] plans[o] = "PAPER_PARTIAL_EXPIRED" -> status = "EXPIRED" /\ filled
          [] plans[o] = "EXPIRED" -> status = "EXPIRED" /\ ~filled
          [] OTHER -> TRUE

(* Orders go through the transitions of oms.py and a filled quantity never *)
(* shrinks, although ticks work on lists read long ago and the desk        *)
(* cancels in between.  An order that ended is never touched again, and    *)
(* neither of two racing projections, nor one racing the desk, overwrites  *)
(* a plan that ended.                                                      *)
EndsAreFinal ==
  [][/\ \A o \in Orders :
          LET old == orders[o].status  new == orders'[o].status
          IN  /\ old \in Terminal => orders'[o] = orders[o]
              /\ orders'[o].filled >= orders[o].filled
              /\ \/ new = old
                 \/ new \in Transitions[old]
                 \/ \E via \in Transitions[old] : new \in Transitions[via]
     /\ \A o \in V3Orders : plans[o] \in EndedPlan => plans'[o] = plans[o]
    ]_vars

(* With the tick restarted for ever, plans of V3 BUYs end, also when ticks *)
(* die between the orders and the projection.                              *)
BuyPlansSettle ==
  \A o \in V3Orders \cap Buys : plans[o] \in ActivePlan ~> plans[o] \in EndedPlan

(* The tables implement the accounting rules shared with replay: every     *)
(* step is one buy or sell of LedgerBook or leaves its book alone.         *)
Largest == Max({Quantity[o] : o \in Orders})
LB == INSTANCE LedgerBook WITH
  Keys <- Orders \X Quotes,
  BuyKeys <- Buys \X Quotes,
  StockOf <- [k \in Orders \X Quotes |-> StockOf[k[1]]],
  PriceOf <- [k \in Orders \X Quotes |-> PriceOf[k[2]]],
  Quantities <- 1..Largest,
  Days <- 1..Day(Horizon),
  cash <- account.cash,
  fills <- {[key |-> <<f.order, f.event>>, quantity |-> f.quantity, day |-> Day(f.at)] :
              f \in fills}

ImplementsLedgerBook == LB!Spec

-----------------------------------------------------------------------------
(* What the repository says and the program does not do *)

(* Where LedgerBook.reconcile finds nothing, neither does the daily        *)
(* reconciliation of the same books.                                       *)
ReconciliationAgrees == BooksAgree => CashChains(Day(Horizon))
=============================================================================
