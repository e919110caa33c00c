--------------------------- MODULE MCPaperTrading ---------------------------
(* Instances of PaperTrading for TLC.  A day has three moments; the market *)
(* is open in the first two.  Day 1, the first day of trading, begins at   *)
(* moment 3, day 2 at moment 6.  There is one stock.                       *)
EXTENDS PaperTrading, TLC

CONSTANTS b1, b2, s1, s2, l1, l2, n1, n2, r1, r2, tick1, tick2, desk, stock

Session2 == {0, 1}
OneStock == [x \in Orders \cup Quotes |-> stock]

(* A buy of V2 and two sells; Level-1 depth at moment 3, snapshots after.  *)
BookQuantity == Restrict((b1 :> 2) @@ (s1 :> 2) @@ (s2 :> 1), Orders)
BookEarliest == Restrict((b1 :> 3) @@ (s1 :> 6) @@ (s2 :> 6), Orders)
BookExpires == Restrict((b1 :> 7) @@ (s1 :> 8) @@ (s2 :> 7), Orders)
BookQuoteAt == Restrict((l1 :> 3) @@ (n1 :> 4) @@ (n2 :> 6), Quotes)
BookVolume == Restrict((l1 :> 1) @@ (n1 :> 2) @@ (n2 :> 2), Quotes)
BookPrice == Restrict((l1 :> 1) @@ (n1 :> 1) @@ (n2 :> 2), Quotes)

(* Buys of two V3 decisions and a V3 exit. *)
DeskRun == (b1 :> r1) @@ (b2 :> r2) @@ (s1 :> r2)
DeskQuantity == Restrict((b1 :> 2) @@ (b2 :> 1) @@ (s1 :> 1), Orders)
DeskEarliest == Restrict((b1 :> 3) @@ (b2 :> 3) @@ (s1 :> 6), Orders)
DeskExpires == Restrict((b1 :> 5) @@ (b2 :> 6) @@ (s1 :> 7), Orders)
DeskQuoteAt == Restrict((l1 :> 3) @@ (l2 :> 6) @@ (n1 :> 3) @@ (n2 :> 4), Quotes)
DeskVolume == Restrict([q \in {l1, l2, n1, n2} |-> 1], Quotes)
DeskPrice == Restrict([q \in {l1, l2, n1, n2} |-> 1], Quotes)

BothTicks == Permutations({tick1, tick2})
=============================================================================
