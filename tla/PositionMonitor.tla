-------------------------- MODULE PositionMonitor --------------------------
(***************************************************************************)
(* The holdings of one stock in the V2 paper account: lots and orders, the *)
(* planner that opens positions, the monitor that advances their state     *)
(* machine and orders exits and additions (server/trading_v2: planner,     *)
(* position_monitor, positions), and what the execution of an order does   *)
(* to lots.  Orders and lots of other stocks meet these in the account's   *)
(* cash only, which PaperTrading models.                                   *)
(*                                                                         *)
(* Time is counted in moments: 2d - 1 is the session of trade date d and   *)
(* 2d the time after its close.  Prices, signals and stop prices show as   *)
(* the verdict on a position.                                              *)
(***************************************************************************)
EXTENDS Naturals, SequencesExt

CONSTANTS
  Strategies,      \* strategy versions, numbered in the order of the monitor
  OpenQuantities,  \* sizes the planner may give a new position
  MaxLots,         \* bound: lots held at a time
  Horizon          \* bound: the last moment

ASSUME MonitorAssumption ==
  /\ Strategies \in Nat /\ MaxLots \in Nat /\ Horizon \in Nat
  /\ OpenQuantities \subseteq Nat \ {0}

VARIABLES
  now,     \* the moment
  lots,    \* lots with something left, in the order sells consume them
  orders,  \* orders that have not ended
  fills    \* number of fills so far: each changes the account's state

deskVars == <<now, lots, orders, fills>>

-----------------------------------------------------------------------------

(* In the order of the strings, which is what MAX compares.  WEAKENED is   *)
(* not reached: the monitor passes no theme_faded.                         *)
Ordered == <<"BROKEN", "EXIT_PENDING_LIQUIDITY", "EXIT_PENDING_T1", "OPENING",
             "RISK_EXIT", "VALID", "VALID_STRONG">>
States == {Ordered[i] : i \in 1..Len(Ordered)}
Lot == [strategy: 1..Strategies, opened: Nat, quantity: Nat \ {0}, state: States,
        target: Nat, adds: {0, 1}]
Order == [action: {"OPEN", "ADD", "EXIT"}, strategy: 1..Strategies,
          size: Nat \ {0}, left: Nat \ {0}, from: Nat, until: Nat]

Session(d) == 2 * d - 1
Today == (now + 1) \div 2
InSession == now % 2 = 1

(* Positions in a sequence of lots.  The settlement date of a lot is the   *)
(* next trade date.                                                        *)
OfStrategy(s, k) == {i \in DOMAIN s : s[i].strategy = k}
SettledBy(s, d) == {i \in DOMAIN s : s[i].opened < d}

(* SUM(remaining_quantity) over the lots of s at the positions I. *)
Quantity(s, I) ==
  LET upto[n \in 0..Len(s)] ==
        IF n = 0 THEN 0 ELSE upto[n - 1] + IF n \in I THEN s[n].quantity ELSE 0
  IN upto[Len(s)]

Exits(os) == {o \in os : o.action = "EXIT"}

-----------------------------------------------------------------------------
(* The state machine of a position. *)

(* What the monitor may find: how the position stands, whether the market  *)
(* can take it, whether there is an instrument rule to price an exit with, *)
(* how much an addition would be approved for (0: refused).  The last three *)
(* vary where they matter: a committed exit disregards the verdict.        *)
Verdict == {"RISK_EXIT", "BROKEN", "VALID_STRONG", "VALID"}
Facts ==
  {[seen |-> FALSE, verdict |-> "VALID", liquid |-> TRUE, ruled |-> TRUE, add |-> 0]} \cup
  {f \in [seen: {TRUE}, verdict: Verdict, liquid: BOOLEAN, ruled: BOOLEAN, add: {0, 1}] :
     /\ f.add > 0 => f.verdict = "VALID_STRONG"
     /\ f.verdict \in {"VALID_STRONG", "VALID"} => f.liquid /\ f.ruled}

Committed(state) ==
  state \in {"BROKEN", "RISK_EXIT", "EXIT_PENDING_T1", "EXIT_PENDING_LIQUIDITY"}
Waiting(state, canSell, liquid) ==
  IF ~canSell THEN "EXIT_PENDING_T1"
  ELSE IF ~liquid THEN "EXIT_PENDING_LIQUIDITY"
  ELSE state

(* Mutated form: a pending exit is judged again like any position. *)
NextState_Again(state, f, canSell) ==
  LET goal == IF state \in {"BROKEN", "RISK_EXIT"} THEN state ELSE f.verdict IN
  IF Committed(goal) THEN Waiting(goal, canSell, f.liquid) ELSE goal
(* evaluate_position. *)
NextState(state, f, canSell) ==
  CASE state = "EXIT_PENDING_T1" ->
         IF canSell /\ ~f.liquid THEN "EXIT_PENDING_LIQUIDITY" ELSE state
    [] state = "EXIT_PENDING_LIQUIDITY" -> state
    [] OTHER ->
         LET goal == IF Committed(state) THEN state ELSE f.verdict IN
         IF Committed(goal) THEN Waiting(goal, canSell, f.liquid) ELSE goal

(* MAX(position_state) over the lots of a group. *)
StateOf(s, I) ==
  Ordered[Max({n \in 1..Len(Ordered) : \E i \in I : s[i].state = Ordered[n]})]

(* Mutated form: only orders nothing was sold of yet count. *)
ActiveExits_Untouched(os) == {o \in Exits(os) : o.left = o.size}
(* The sell orders of the stock that are still active; one whose time is   *)
(* over is active until a tick expires it.                                 *)
ActiveExits(os) == Exits(os)

(* _persist_exit_chain, for all that the strategy holds: today while the   *)
(* market is open and everything can be sold, else in the next session.    *)
WithExit(os, k, quantity, canSell, d) ==
  IF ActiveExits(os) # {} THEN os
  ELSE os \cup {[action |-> "EXIT", strategy |-> k, size |-> quantity, left |-> quantity,
                 from  |-> IF canSell /\ InSession THEN now ELSE Session(d + 1),
                 until |-> IF canSell /\ InSession THEN Session(d) ELSE Session(d + 1)]}

(* _persist_add_chain. *)
WithAdd(os, k, quantity, d) ==
  IF \E o \in os : o.action = "ADD" THEN os
  ELSE os \cup {[action |-> "ADD", strategy |-> k, size |-> quantity, left |-> quantity,
                 from |-> Session(d + 1), until |-> Session(d + 1)]}

(* The monitor's turn for strategy k on books b = [lots, orders]. *)
Evaluated(b, k, f, d) ==
  LET mine == OfStrategy(b.lots, k)
      held == Quantity(b.lots, mine)
      canSell == Quantity(b.lots, mine \cap SettledBy(b.lots, d)) >= held
      after == NextState(StateOf(b.lots, mine), f, canSell)
      target == Max({b.lots[i].target : i \in mine})
  IN IF mine = {} \/ ~f.seen THEN b
     ELSE [lots |-> [i \in DOMAIN b.lots |->
                       IF i \in mine
                       THEN [b.lots[i] EXCEPT !.state = after] ELSE b.lots[i]],
           orders |->
             IF Committed(after)
             THEN IF f.ruled THEN WithExit(b.orders, k, held, canSell, d) ELSE b.orders
             ELSE IF /\ after = "VALID_STRONG" /\ f.add > 0
                     /\ \A i \in mine : b.lots[i].adds = 0
                     /\ held + f.add <= target
                  THEN WithAdd(b.orders, k, f.add, d)
                  ELSE b.orders]

(* monitor_positions for trade date d: one transaction over all groups. *)
Monitor(d) ==
  \E f \in [1..Strategies -> Facts] :
    LET books[k \in 0..Strategies] ==
          IF k = 0 THEN [lots |-> lots, orders |-> orders]
          ELSE Evaluated(books[k - 1], k, f[k], d)
    IN /\ lots' = books[Strategies].lots
       /\ orders' = books[Strategies].orders
       /\ UNCHANGED <<now, fills>>

-----------------------------------------------------------------------------

InitDesk == now = 1 /\ lots = <<>> /\ orders = {} /\ fills = 0

(* persist_portfolio_competition for trade date d: at most one candidate   *)
(* per stock, none when an order of the stock is still to run then.  It    *)
(* does not ask whether the stock is held.                                 *)
PlannerMayOpen(d) == \A o \in orders : o.until < Session(d + 1)
Plan(d) ==
  /\ \/ UNCHANGED orders
     \/ /\ PlannerMayOpen(d)
        /\ \E k \in 1..Strategies, quantity \in OpenQuantities :
             orders' = orders \cup
               {[action |-> "OPEN", strategy |-> k, size |-> quantity, left |-> quantity,
                 from |-> Session(d + 1), until |-> Session(d + 1)]}
  /\ UNCHANGED <<now, lots, fills>>

(* _execute_one: part of an order is filled in the session it is for. *)
Executable(o) == InSession /\ o.from <= now /\ now <= o.until
(* Mutated form: an order that is filled stays active. *)
Rest_Kept(o, quantity) == (orders \ {o}) \cup {[o EXCEPT !.left = @ - quantity]}
Rest(o, quantity) ==
  (orders \ {o}) \cup IF quantity = o.left THEN {} ELSE {[o EXCEPT !.left = @ - quantity]}

Buy(o, quantity) ==
  /\ o.action \in {"OPEN", "ADD"} /\ Executable(o)
  /\ quantity \in 1..o.left
  /\ Len(lots) < MaxLots
  /\ \E n \in 1..(Len(lots) + 1) :   \* lots of a day are ordered by hashes
       /\ \A i \in DOMAIN lots : lots[i].opened < Today => i < n
       /\ lots' = InsertAt(lots, n,
            [strategy |-> o.strategy, opened |-> Today, quantity |-> quantity,
             state |-> "OPENING",
             target |-> IF o.action = "OPEN" THEN 2 * o.size ELSE o.size,
             adds |-> IF o.action = "ADD" THEN 1 ELSE 0])
  /\ orders' = Rest(o, quantity)
  /\ fills' = fills + 1
  /\ UNCHANGED now

(* _consume_sell_lots: settled lots of the stock, of whatever strategy,    *)
(* oldest first.                                                           *)
Consumed(s, quantity) ==
  LET whole == Max({n \in 0..Len(s) : Quantity(s, 1..n) <= quantity})
      rest == SubSeq(s, whole + 1, Len(s))
  IN [i \in DOMAIN rest |->
        IF i = 1 THEN [rest[i] EXCEPT !.quantity = @ - (quantity - Quantity(s, 1..whole))]
        ELSE rest[i]]

Sell(o, quantity) ==
  /\ o.action = "EXIT" /\ Executable(o)
  /\ quantity \in 1..o.left /\ quantity <= Quantity(lots, SettledBy(lots, Today))
  /\ lots' = Consumed(lots, quantity)
  /\ orders' = Rest(o, quantity)
  /\ fills' = fills + 1
  /\ UNCHANGED now

Fill == \E o \in orders : \E quantity \in 1..o.left : Buy(o, quantity) \/ Sell(o, quantity)

(* The sweep of a tick: it may come late or not before the next session. *)
Expire ==
  /\ \E o \in orders : o.until < now
  /\ orders' = {o \in orders : o.until >= now}
  /\ UNCHANGED <<now, lots, fills>>

Tick ==
  /\ now < Horizon
  /\ now' = now + 1
  /\ UNCHANGED <<lots, orders, fills>>

-----------------------------------------------------------------------------
(* Properties *)

DeskTypeOK ==
  /\ now \in Nat /\ fills \in Nat
  /\ lots \in Seq(Lot)
  /\ orders \subseteq Order

(* Exits are never ordered for more than the account holds, whichever      *)
(* strategy ordered them, whatever was sold of them, and however late      *)
(* ticks expire them.                                                      *)
ExitsAreCovered ==
  MapThenSumSet(LAMBDA o : o.left, Exits(orders)) <= Quantity(lots, DOMAIN lots)

(* "Once an exit has entered a waiting state it is irreversible": a lot    *)
(* under a committed exit stays so, unless its strategy bought another one *)
(* since, which the monitor has not seen yet.                              *)
CommitmentsHold ==
  [][\A k \in 1..Strategies :
       LET mine == OfStrategy(lots, k)  next == OfStrategy(lots', k) IN
       (\E i \in mine : Committed(lots[i].state)) =>
         \/ next = {}
         \/ \E i \in next : Committed(lots'[i].state)
         \/ \E i \in mine : lots[i].state = "OPENING"
    ]_deskVars
=============================================================================
