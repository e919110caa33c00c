---------------------------- MODULE OrderLifecycle ----------------------------
(***************************************************************************)
(* One LIMIT + DAY order of the neutral trading core                       *)
(* (server/trading_core/execution): the order state machine (oms.py)       *)
(* applies execution results; the matcher (matcher.py) computes some of    *)
(* them from a copy of the order and a quote, the venue reports others.    *)
(*                                                                         *)
(* Both are pure functions.  Their driver, which is not in src, is taken   *)
(* to copy the current order for every decision and to apply the decision  *)
(* later, once more after a lost reply, or never.                          *)
(***************************************************************************)
EXTENDS Integers, FiniteSets, Sequences, SequencesExt

CONSTANTS
  Requested,         \* quantity of the intent
  Approved,          \* quantity the risk check approved
  Earliest, Expires, \* the validity window; the order is created at 0
  Quotes,            \* Level-1 quotes, each an event id
  ObservedAt, Visible, PriceOf,  \* time, executable quantity, price of a quote
  MaxAge,            \* quote_max_age of the match rule
  ExpiryEvent,       \* the deterministic event id of the expiry
  VenueEvents,       \* event ids of the venue's reports
  VenueFills,        \* quantities the venue may report as filled
  VenuePrices,       \* and their prices
  Reasons, NoReason, \* reason codes of waiting orders
  Precision,         \* digits of the Decimal context (28 in the code)
  InFlight,          \* bound: decisions not yet delivered
  Horizon            \* bound: time stops here

ASSUME OrderAssumption ==
  /\ Requested \in Nat \ {0} /\ Approved \in 0..Requested
  /\ Earliest \in Nat /\ Expires \in Nat /\ Earliest < Expires
  /\ MaxAge \in Nat /\ InFlight \in Nat /\ Horizon \in Nat
  /\ Precision \in Nat \ {0}
ASSUME QuoteAssumption ==
  /\ ObservedAt \in [Quotes -> Nat]
  /\ Visible \in [Quotes -> Nat]
  /\ PriceOf \in [Quotes -> Nat \ {0}]
ASSUME VenueAssumption ==
  /\ VenueFills \subseteq Nat \ {0} /\ VenuePrices \subseteq Nat \ {0}
  /\ NoReason \notin Reasons
  /\ ExpiryEvent \notin Quotes \cup VenueEvents
  /\ Quotes \cap VenueEvents = {}

VARIABLES
  time,
  order,       \* the derived part of OrderState
  history,     \* execution_history: the results applied, in order
  decisions    \* what matchers decided and the driver may yet deliver

vars == <<time, order, history, decisions>>

-----------------------------------------------------------------------------

Terminal == {"FILLED", "CANCELLED", "REJECTED", "EXPIRED"}
Matchable == {"ACCEPTED", "QUEUED", "PARTIALLY_FILLED", "CANCEL_PENDING"}
Statuses == {"CREATED"} \cup Matchable \cup Terminal

FillStatuses == {"PARTIALLY_FILLED", "FILLED"}
(* Mutated form: cancellations must lie inside the window as well. *)
WindowStatuses_AndCancelled == FillStatuses \cup {"ACCEPTED", "QUEUED", "CANCELLED", "REJECTED"}
WindowStatuses == FillStatuses \cup {"ACCEPTED", "QUEUED"}

(* ACTIVE_TRANSITIONS *)
Transitions ==
  [status \in Statuses |->
     CASE status = "CREATED" -> {"ACCEPTED", "REJECTED", "CANCELLED", "EXPIRED"}
       [] status = "ACCEPTED" ->
            FillStatuses \cup {"QUEUED", "CANCEL_PENDING", "CANCELLED", "REJECTED", "EXPIRED"}
       [] status = "QUEUED" ->
            FillStatuses \cup {"CANCEL_PENDING", "CANCELLED", "REJECTED", "EXPIRED"}
       [] status = "PARTIALLY_FILLED" ->
            FillStatuses \cup {"CANCEL_PENDING", "CANCELLED", "EXPIRED"}
       [] status = "CANCEL_PENDING" -> FillStatuses \cup {"CANCELLED", "EXPIRED"}
       [] OTHER -> {}]

Successors(status) == Transitions[status]

Kinds == {"STATUS_TRANSITION", "WAITING_REASON_CHANGED"}
Result == [event: Quotes \cup VenueEvents \cup {ExpiryEvent}, kind: Kinds,
           status: Statuses \ {"CREATED"}, at: Nat, sequence: Nat \ {0},
           quantity: Nat, price: Nat, reason: Reasons \cup {NoReason}]

-----------------------------------------------------------------------------
(* Decimal arithmetic with Precision digits, half-even.  A price of 1.00   *)
(* is the number 10^(Precision - 1); values stay between 1 and 100.        *)

HalfEven(a, b) ==
  LET q == a \div b  r == a % b
  IN  IF 2 * r > b \/ (2 * r = b /\ q % 2 = 1) THEN q + 1 ELSE q

Rounded(a, b) ==
  LET unit == IF a < b * 10 ^ Precision THEN 1 ELSE 10
  IN  unit * HalfEven(a, unit * b)

(* The average a fill leads to, computed from the average before it ...    *)
NextAverage(o, r) ==
  IF r.quantity = 0 THEN o.average
  ELSE LET before == Rounded(o.average * o.filled, 1)
           fill == Rounded(r.price * r.quantity, 1)
       IN  Rounded(Rounded(before + fill, 1), o.filled + r.quantity)

(* ... and computed anew from the history.                                 *)
Filled(h) == FoldLeft(LAMBDA sum, r : sum + r.quantity, 0, h)
Value(h) ==
  FoldLeft(LAMBDA sum, r : Rounded(sum + Rounded(r.price * r.quantity, 1), 1), 0, h)
ReplayedAverage(h) == IF Filled(h) = 0 THEN 0 ELSE Rounded(Value(h), Filled(h))

-----------------------------------------------------------------------------
(* apply_execution_result *)

(* Mutated form: the same event is only recognised when it comes last. *)
Known_LastOnly(r) == history # <<>> /\ Last(history).event = r.event
(* The idempotency key is that of the event: known events are confirmed    *)
(* when identical and refused otherwise, without any change.               *)
Known(r) == \E n \in DOMAIN history : history[n].event = r.event

(* Mutated form: old sequence numbers are let through. *)
Contiguous_NotAhead(r) == r.sequence <= Len(history) + 1
Contiguous(r) == r.sequence = Len(history) + 1

InWindow(r) ==
  /\ r.status = "EXPIRED" => r.at >= Expires
  /\ r.status \in WindowStatuses => Earliest <= r.at /\ r.at < Expires

Permitted(r) ==
  IF r.kind = "WAITING_REASON_CHANGED"
  THEN r.status = order.status /\ r.reason # order.reason
  ELSE r.status \in Successors(order.status)

(* Mutated form: only FILLED is held to the requested quantity. *)
Quantities_NoTotal(r) ==
  r.status = "FILLED" => order.filled + r.quantity = Requested
Quantities(r) ==
  LET filled == order.filled + r.quantity IN
  /\ filled <= Requested
  /\ r.status = "PARTIALLY_FILLED" => filled \in 1..(Requested - 1)
  /\ r.status = "FILLED" => filled = Requested

Legal(r) ==
  /\ ~Known(r)
  /\ Contiguous(r)
  /\ InWindow(r)
  /\ r.at >= order.updated
  /\ Permitted(r)
  /\ Quantities(r)

(* OrderState replays its history whenever it is built. *)
Replays(r) == ReplayedAverage(Append(history, r)) = NextAverage(order, r)

Acceptable(r) == Legal(r) /\ Replays(r)

AfterResult(r) ==
  [status |-> r.status, filled |-> order.filled + r.quantity,
   average |-> NextAverage(order, r), updated |-> r.at,
   reason |-> IF r.kind = "WAITING_REASON_CHANGED" THEN r.reason ELSE NoReason]

ApplyResult(r) ==
  /\ order' = AfterResult(r)
  /\ history' = Append(history, r)

-----------------------------------------------------------------------------
(* match_limit_day on a copy of the order as it is now *)

(* The copy can be built, and is one the matcher works on. *)
CanMatch ==
  /\ order.status \in Matchable
  /\ order.updated < Expires
  /\ order.filled <= Approved

(* Mutated form: the quote of the very instant of expiry is matched. *)
Active_Inclusive == Earliest <= time /\ time <= Expires
Active == Earliest <= time /\ time < Expires

Usable(q) ==
  /\ ObservedAt[q] <= time
  /\ ObservedAt[q] >= Earliest
  /\ ObservedAt[q] >= order.updated
  /\ time - ObservedAt[q] <= MaxAge

FillQuantity(q) ==
  LET left == Approved - order.filled
  IN  IF Visible[q] < left THEN Visible[q] ELSE left

FillResult(q) ==
  LET filled == order.filled + FillQuantity(q) IN
  [event |-> q, kind |-> "STATUS_TRANSITION",
   status |-> IF filled = Requested THEN "FILLED" ELSE "PARTIALLY_FILLED",
   at |-> time, sequence |-> Len(history) + 1,
   quantity |-> FillQuantity(q), price |-> PriceOf[q], reason |-> NoReason]

(* Mutated form: the expiry happens when it is noticed on the order. *)
ExpiryResult_AtUpdate ==
  [event |-> ExpiryEvent, kind |-> "STATUS_TRANSITION", status |-> "EXPIRED",
   at |-> order.updated, sequence |-> Len(history) + 1,
   quantity |-> 0, price |-> 0, reason |-> NoReason]
ExpiryResult ==
  [event |-> ExpiryEvent, kind |-> "STATUS_TRANSITION", status |-> "EXPIRED",
   at |-> Expires, sequence |-> Len(history) + 1,
   quantity |-> 0, price |-> 0, reason |-> NoReason]

CanFill(q) == CanMatch /\ Active /\ Usable(q) /\ FillQuantity(q) > 0
CanExpire == CanMatch /\ time >= Expires

-----------------------------------------------------------------------------

Init ==
  /\ time = 0
  /\ order = [status |-> "CREATED", filled |-> 0, average |-> 0, updated |-> 0,
              reason |-> NoReason]
  /\ history = <<>>
  /\ decisions = {}

Decided(r) ==
  /\ Cardinality(decisions) < InFlight
  /\ decisions' = decisions \cup {r}
  /\ UNCHANGED <<time, order, history>>

(* The matcher itself knows the quotes it applied only when the driver     *)
(* handed it applied_events; without them it decides a quote once more.    *)
MatchQuote(q) == CanFill(q) /\ Decided(FillResult(q))

MatchExpiry == CanExpire /\ Decided(ExpiryResult)

(* The driver delivers a decision; what is not acceptable raises and       *)
(* changes nothing.  It may deliver it again later.                        *)
Deliver(r) ==
  /\ r \in decisions
  /\ IF Acceptable(r) THEN ApplyResult(r) ELSE UNCHANGED <<order, history>>
  /\ decisions' = decisions \ {r}
  /\ UNCHANGED time
DeliverAndRetry(r) ==
  /\ r \in decisions
  /\ Acceptable(r) /\ ApplyResult(r)
  /\ UNCHANGED <<time, decisions>>

(* A report of the venue: a well-formed result of any status, about a      *)
(* moment that may have passed, numbered when it comes in.                 *)
Reports ==
  LET report(status, kind, n, p, reason) ==
        [event: VenueEvents, kind: {kind}, status: {status}, at: 0..time,
         sequence: {Len(history) + 1}, quantity: {n}, price: {p}, reason: {reason}]
      plain == {report(s, "STATUS_TRANSITION", 0, 0, NoReason) :
                  s \in Statuses \ ({"CREATED"} \cup FillStatuses)}
      fills == {report(s, "STATUS_TRANSITION", n, p, NoReason) :
                  s \in FillStatuses, n \in VenueFills, p \in VenuePrices}
      waits == {report(s, "WAITING_REASON_CHANGED", 0, 0, w) :
                  s \in {"QUEUED", "PARTIALLY_FILLED"}, w \in Reasons}
  IN  UNION (plain \cup fills \cup waits)

Report ==
  /\ \E r \in Reports : Acceptable(r) /\ ApplyResult(r)
  /\ UNCHANGED <<time, decisions>>

Tick ==
  /\ time < Horizon
  /\ time' = time + 1
  /\ UNCHANGED <<order, history, decisions>>

Next ==
  \/ \E q \in Quotes : MatchQuote(q)
  \/ MatchExpiry
  \/ \E r \in decisions : Deliver(r) \/ DeliverAndRetry(r)
  \/ Report
  \/ Tick

Spec == Init /\ [][Next]_vars

(* The driver keeps evaluating the order and delivers what was decided     *)
(* (the steps that take a decision away are those of Deliver).             *)
FairSpec ==
  /\ Spec
  /\ WF_vars(MatchExpiry)
  /\ WF_decisions(\E r \in decisions : decisions' = decisions \ {r})
  /\ WF_vars(Tick)

-----------------------------------------------------------------------------
(* Properties *)

TypeOK ==
  /\ time \in Nat
  /\ order \in [status: Statuses, filled: 0..Requested, average: Nat, updated: Nat,
                reason: Reasons \cup {NoReason}]
  /\ history \in Seq(Result)
  /\ decisions \subseteq Result

(* However many decisions were made from one copy of the order and however *)
(* late they arrive, no quote fills the order twice, and a decision is     *)
(* applied only to the order it was made from: the fills before it are     *)
(* those the matcher had seen, so that it never passes what risk approved, *)
(* a limit only the matcher knows of.                                      *)
FilledBefore(n) == Filled(SubSeq(history, 1, n - 1))
DecidedOnThisOrder ==
  \A n \in DOMAIN history :
    LET r == history[n]  left == Approved - FilledBefore(n) IN
    r.event \in Quotes =>
      /\ r.quantity = IF Visible[r.event] < left THEN Visible[r.event] ELSE left
      /\ \A m \in DOMAIN history : history[m].event = r.event => m = n

(* What matcher and state machine think of windows, times and quantities   *)
(* agrees: a decision made from the current order is one it accepts, or    *)
(* repeats an event it already has.  The first fill and the expiry are     *)
(* always accepted; a later fill can only fail for the rounding of the     *)
(* average, which OrderState carries along and computes anew.              *)
FreshDecisionAccepted ==
  /\ \A q \in Quotes :
       CanFill(q) =>
         LET r == FillResult(q)
         IN  Known(r) \/ (Legal(r) /\ (order.filled = 0 => Replays(r)))
  /\ CanExpire => Acceptable(ExpiryResult)

(* "A venue may report cancellation or rejection after the business        *)
(* validity window has elapsed, and the OMS must still be able to converge *)
(* to terminal state": now or at any later moment a report can end it.     *)
Cancellations ==
  [event: VenueEvents, kind: {"STATUS_TRANSITION"}, status: {"CANCELLED"},
   at: order.updated..(Expires + 1), sequence: {Len(history) + 1},
   quantity: {0}, price: {0}, reason: {NoReason}]
CanAlwaysEnd ==
  order.status \notin Terminal =>
    \A r \in Cancellations : ~Known(r) => Acceptable(r)

(* An order at work ends, by the expiry if by nothing else.  Only one that *)
(* was to be cancelled after the window, and one the venue filled beyond   *)
(* what risk approved, wait for the venue: the matcher takes neither.      *)
DayOrderEnds ==
  order.status \in Matchable ~>
    \/ order.status \in Terminal
    \/ order.status = "CANCEL_PENDING" /\ order.updated >= Expires
    \/ order.filled > Approved
=============================================================================
