------------------------------ MODULE LedgerBook ------------------------------
(***************************************************************************)
(* The accounting rules of the V2 paper account (trading_v2/ledger.py,     *)
(* LedgerBook): what a fill may do to cash and position lots.  Nothing is  *)
(* said of orders, quotes, ticks or tables.  PaperTrading implements it.   *)
(*                                                                         *)
(* Prices are per key and fees are left out: amounts only matter as what   *)
(* cash and ledger have to agree on.                                       *)
(***************************************************************************)
EXTENDS Integers, Sequences, FiniteSets, SequencesExt, FiniteSetsExt

CONSTANTS
  Keys,            \* idempotency keys of fills
  BuyKeys,         \* those of buy orders
  StockOf, PriceOf,   \* of each key
  Quantities, Days,   \* the values fills may have
  SettlementDays,  \* a lot opened on day d can be sold from d + this
  Deposit

VARIABLES
  cash,
  fills,   \* records [key, quantity, day]
  lots     \* in the order sells take them: by day opened, then by lot id

book == <<cash, fills, lots>>

-----------------------------------------------------------------------------

New(k) == \A f \in fills : f.key # k

Sellable(lot, s, day) == lot.stock = s /\ lot.settles <= day

(* available_to_sell *)
Available(s, day) ==
  MapThenSumSet(LAMBDA n : lots[n].left,
                {n \in DOMAIN lots : Sellable(lots[n], s, day)})

InLotOrder(seq) == \A n \in 1..(Len(seq) - 1) : seq[n].opened <= seq[n + 1].opened

Init ==
  /\ cash = Deposit
  /\ fills = {}
  /\ lots = <<>>

Record(k, q, day) == fills' = fills \cup {[key |-> k, quantity |-> q, day |-> day]}

Buy(k, q, day) ==
  /\ k \in BuyKeys
  /\ cash >= q * PriceOf[k]
  /\ cash' = cash - q * PriceOf[k]
  /\ New(k)
  /\ Record(k, q, day)
  /\ \E n \in 1..(Len(lots) + 1) :
       lots' = InsertAt(lots, n, [stock |-> StockOf[k], opened |-> day,
                                  settles |-> day + SettlementDays, left |-> q])
  /\ InLotOrder(lots')

(* What a sell takes, it takes from settled lots of the stock, and from a  *)
(* lot only what the lots before it could not give.                        *)
FirstInFirstOut(s, q, day) ==
  LET taken == [n \in DOMAIN lots |-> lots[n].left - lots'[n].left]
  IN  /\ \A n \in DOMAIN lots :
           /\ taken[n] \in 0..lots[n].left
           /\ lots'[n] = [lots[n] EXCEPT !.left = @ - taken[n]]
           /\ taken[n] > 0 => Sellable(lots[n], s, day)
      /\ MapThenSumSet(LAMBDA n : taken[n], DOMAIN lots) = q
      /\ \A n, m \in DOMAIN lots :
           n < m /\ taken[m] > 0 /\ Sellable(lots[n], s, day) => lots'[n].left = 0

Sell(k, q, day) ==
  /\ k \in Keys \ BuyKeys
  /\ cash' = cash + q * PriceOf[k]
  /\ New(k)
  /\ Available(StockOf[k], day) >= q
  /\ Record(k, q, day)
  /\ Len(lots') = Len(lots)
  /\ FirstInFirstOut(StockOf[k], q, day)

Next == \E k \in Keys, q \in Quantities, day \in Days : Buy(k, q, day) \/ Sell(k, q, day)

Spec == Init /\ [][Next]_book
=============================================================================
