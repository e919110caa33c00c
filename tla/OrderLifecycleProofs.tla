------------------------ MODULE OrderLifecycleProofs ------------------------
(***************************************************************************)
(* Proofs about OrderLifecycle, for any quantities, quotes, venue reports  *)
(* and any precision of the decimal arithmetic.                            *)
(***************************************************************************)
EXTENDS OrderLifecycle, SequenceTheorems, FiniteSetTheorems, WellFoundedInduction, TLAPS

-----------------------------------------------------------------------------
(* Folds over a history.  Filled and Value are FoldLefts, which the        *)
(* community modules define by recursion over the set of positions; both   *)
(* are brought to the form FoldAppend states.  The induction is that a     *)
(* set of finite sets has a minimal member.                                *)

Term(priced, sum, r) ==
  IF priced THEN Rounded(sum + Rounded(r.price * r.quantity, 1), 1) ELSE sum + r.quantity
Rest(s) == s \ {Max(s)}
IsFold(f, U, h, priced) ==
  f = [s \in SUBSET U |-> IF s = {} THEN 0 ELSE Term(priced, f[Rest(s)], h[Max(s)])]
FoldOf(h, priced) == IF priced THEN Value(h) ELSE Filled(h)

LEMMA Minimal ==
  ASSUME NEW S, IsFiniteSet(S), NEW T \in SUBSET SUBSET S, T # {}
  PROVE  \E U \in T : \A V \in T : ~(V \subseteq U /\ V # U)
<1>1. IsWellFoundedOn(StrictSubsetOrdering(S), SUBSET S)
  BY FS_StrictSubsetOrderingWellFounded, FS_FiniteSubsetsOfFinite
<1>2. \E U \in T : \A V \in T : <<V, U>> \notin StrictSubsetOrdering(S)
  BY <1>1, WFMin
<1> QED BY <1>2 DEF StrictSubsetOrdering

LEMMA MaxIs ==
  ASSUME NEW n \in Nat, NEW s \in SUBSET (1..n), s # {}
  PROVE  Max(s) \in s /\ \A m \in s : Max(s) >= m
<1> DEFINE T == {b \in Nat : \A m \in s : m <= b}
<1>1. n \in T
  OBVIOUS
<1>2. \E b \in T : \A c \in T : ~(c < b)
  <2>1. IsWellFoundedOn(OpToRel(<, Nat), Nat)
    BY NatLessThanWellFounded
  <2>2. \E b \in T : \A c \in T : <<c, b>> \notin OpToRel(<, Nat)
    <3>1. T \subseteq Nat /\ T # {}
      BY <1>1
    <3> HIDE DEF T
    <3> QED BY <2>1, <3>1, WFMin
  <2> QED BY <2>2 DEF OpToRel
<1>3. PICK b \in T : \A c \in T : ~(c < b)
  BY <1>2
<1>4. b \in s
  <2>1. SUFFICES ASSUME b \notin s PROVE FALSE
    OBVIOUS
  <2>2. b \in Nat /\ \A m \in s : m \in Nat /\ 1 <= m /\ m <= b /\ m # b
    BY <2>1
  <2>3. b - 1 \in Nat /\ \A m \in s : m <= b - 1
    <3>1. PICK m \in s : TRUE
      OBVIOUS
    <3> HIDE DEF T
    <3>2. b - 1 \in Nat
      BY <2>2, <3>1
    <3> QED BY <2>2, <3>2
  <2> QED BY <1>3, <2>3
<1> QED BY <1>3, <1>4 DEF Max

(* Two folds agree where they fold the same elements. *)
Positions(U) == \E n \in Nat : U \subseteq 1..n
Agree(h, k, W) == \A m \in W : h[m] = k[m]
LEMMA FoldUnique ==
  ASSUME NEW U, NEW V, NEW W, Positions(W), W \subseteq U, W \subseteq V,
         NEW f, NEW g, NEW h, NEW k, NEW priced,
         IsFold(f, U, h, priced), IsFold(g, V, k, priced), Agree(h, k, W)
  PROVE  f[W] = g[W]
<1> PICK n \in Nat : W \subseteq 1..n
  BY DEF Positions
<1> DEFINE T == {s \in SUBSET W : f[s] # g[s]}
<1>1. SUFFICES ASSUME T # {} PROVE FALSE
  OBVIOUS
<1>2. PICK s \in T : \A r \in T : ~(r \subseteq s /\ r # s)
  <2>1. T \in SUBSET SUBSET (1..n)
    OBVIOUS
  <2>2. IsFiniteSet(1..n)
    BY FS_Interval
  <2> DEFINE D == 1..n
  <2> HIDE DEF T, D
  <2>3. T \in SUBSET SUBSET D /\ IsFiniteSet(D)
    BY <2>1, <2>2 DEF D
  <2> QED BY <1>1, <2>3, Minimal
<1>3. s \in SUBSET U /\ s \in SUBSET V /\ s \in SUBSET (1..n)
  OBVIOUS
<1>4. s # {}
  BY <1>2, <1>3 DEF IsFold
<1>5. Max(s) \in s
  BY <1>3, <1>4, MaxIs
<1>6. f[Rest(s)] = g[Rest(s)] /\ h[Max(s)] = k[Max(s)]
  BY <1>2, <1>5 DEF Rest, Agree
<1>7. f[s] = Term(priced, f[Rest(s)], h[Max(s)])
  BY <1>3, <1>4 DEF IsFold
<1>8. g[s] = Term(priced, g[Rest(s)], k[Max(s)])
  BY <1>3, <1>4 DEF IsFold
<1> QED BY <1>2, <1>6, <1>7, <1>8

LEMMA FoldExists ==
  ASSUME NEW n \in Nat, NEW h, NEW priced
  PROVE  \E f : IsFold(f, 1..n, h, priced)
<1> DEFINE Of(s) == CHOOSE f : IsFold(f, s, h, priced)
           T == {U \in SUBSET (1..n) : ~ \E f : IsFold(f, U, h, priced)}
<1>1. SUFFICES ASSUME T # {} PROVE FALSE
  OBVIOUS
<1>2. PICK U \in T : \A V \in T : ~(V \subseteq U /\ V # U)
  <2>1. T \in SUBSET SUBSET (1..n)
    OBVIOUS
  <2>2. IsFiniteSet(1..n)
    BY FS_Interval
  <2> DEFINE D == 1..n
  <2> HIDE DEF T, D
  <2>3. T \in SUBSET SUBSET D /\ IsFiniteSet(D)
    BY <2>1, <2>2 DEF D
  <2> QED BY <1>1, <2>3, Minimal
<1>3. U \in SUBSET (1..n) /\ \A V \in SUBSET U : V # U => \E f : IsFold(f, V, h, priced)
  BY <1>2
<1> DEFINE v == [s \in SUBSET U |->
                   IF s = {} THEN 0 ELSE Term(priced, Of(Rest(s))[Rest(s)], h[Max(s)])]
<1>4. ASSUME NEW s \in SUBSET U, s # {}
      PROVE  Rest(s) \in SUBSET U /\ IsFold(Of(Rest(s)), Rest(s), h, priced)
  <2>1. Max(s) \in s
    BY <1>3, <1>4, MaxIs
  <2>2. Rest(s) \in SUBSET U /\ Rest(s) # U
    BY <2>1 DEF Rest
  <2>3. \E f : IsFold(f, Rest(s), h, priced)
    BY <1>3, <2>2
  <2> HIDE DEF T
  <2> QED BY <2>2, <2>3
<1>5. ASSUME NEW s \in SUBSET U, s # {}
      PROVE  v[Rest(s)] = Of(Rest(s))[Rest(s)]
  <2> DEFINE r == Rest(s)
  <2>1. IsFold(Of(r), r, h, priced) /\ r \in SUBSET U
    BY <1>4, <1>5
  <2>2. CASE r = {}
    <3>1. Of(r)[r] = 0
      <4> HIDE DEF Of, r, T
      <4> QED BY <2>1, <2>2 DEF IsFold
    <3>2. v[r] = 0
      BY <2>1, <2>2
    <3> QED BY <3>1, <3>2
  <2>3. CASE r # {}
    <3>1. IsFold(Of(Rest(r)), Rest(r), h, priced)
      <4> HIDE DEF Of, r, T
      <4> QED BY <2>1, <2>3, <1>4
    <3>2. Rest(r) \subseteq r /\ Rest(r) \subseteq Rest(r)
      BY DEF Rest
    <3>3. Of(r)[Rest(r)] = Of(Rest(r))[Rest(r)]
      <4>1. Positions(Rest(r)) /\ Agree(h, h, Rest(r))
        BY <2>1, <3>2, <1>3 DEF Positions, Agree
      <4> HIDE DEF Of, r, T
      <4> QED BY <2>1, <3>1, <3>2, <4>1, FoldUnique
    <3>4. Of(r)[r] = Term(priced, Of(r)[Rest(r)], h[Max(r)])
      <4> HIDE DEF Of, r, T
      <4> QED BY <2>1, <2>3 DEF IsFold
    <3>5. v[r] = Term(priced, Of(Rest(r))[Rest(r)], h[Max(r)])
      <4> HIDE DEF Of, r, T
      <4> QED BY <2>1, <2>3
    <3> QED BY <3>3, <3>4, <3>5
  <2> QED BY <2>2, <2>3
<1>6. IsFold(v, U, h, priced)
  <2>1. ASSUME NEW s \in SUBSET U
        PROVE  v[s] = IF s = {} THEN 0 ELSE Term(priced, v[Rest(s)], h[Max(s)])
    <3> HIDE DEF Of, T
    <3> QED BY <1>5
  <2>2. v = [s \in SUBSET U |-> v[s]]
    OBVIOUS
  <2> HIDE DEF v
  <2> QED BY <2>1, <2>2 DEF IsFold
<1> QED BY <1>2, <1>6

(* The definitions of the community modules are folds in this sense. *)
LEMMA FoldDefined ==
  ASSUME NEW S, NEW h \in Seq(S), NEW priced \in BOOLEAN
  PROVE  \E f : IsFold(f, DOMAIN h, h, priced) /\ FoldOf(h, priced) = f[DOMAIN h]
<1> DEFINE iter == CHOOSE f : IsFold(f, DOMAIN h, h, priced)
<1>1. Len(h) \in Nat /\ DOMAIN h = 1..Len(h)
  OBVIOUS
<1>2. IsFold(iter, DOMAIN h, h, priced)
  BY <1>1, FoldExists
<1>3. FoldOf(h, priced) = iter[DOMAIN h]
  <2>1. CASE priced = TRUE
    BY <2>1 DEF FoldOf, Value, FoldLeft, MapThenFoldSet, IsFold, Rest, Term
  <2>2. CASE priced = FALSE
    BY <2>2 DEF FoldOf, Filled, FoldLeft, MapThenFoldSet, IsFold, Rest, Term
  <2> QED BY <2>1, <2>2
<1> QED BY <1>2, <1>3

LEMMA FoldEmpty ==
  ASSUME NEW priced \in BOOLEAN
  PROVE  FoldOf(<<>>, priced) = 0
<1>1. <<>> \in Seq({}) /\ DOMAIN <<>> = {}
  OBVIOUS
<1>2. PICK f : IsFold(f, {}, <<>>, priced) /\ FoldOf(<<>>, priced) = f[{}]
  BY <1>1, FoldDefined
<1> QED BY <1>2 DEF IsFold

LEMMA FoldAppend ==
  ASSUME NEW S, NEW h \in Seq(S), NEW r \in S, NEW priced \in BOOLEAN
  PROVE  FoldOf(Append(h, r), priced) = Term(priced, FoldOf(h, priced), r)
<1> DEFINE n == Len(h)
           k == Append(h, r)
<1>1. /\ n \in Nat /\ DOMAIN h = 1..n
      /\ k \in Seq(S) /\ DOMAIN k = 1..(n + 1)
      /\ k[n + 1] = r /\ \A m \in 1..n : k[m] = h[m]
  BY AppendProperties
<1>0. n \in Nat /\ n + 1 \in Nat /\ n + 1 \in 1..(n + 1)
  OBVIOUS
<1> HIDE DEF n, k
<1>2. PICK f : IsFold(f, 1..n, h, priced) /\ FoldOf(h, priced) = f[1..n]
  BY <1>1, FoldDefined
<1>3. PICK g : IsFold(g, 1..(n + 1), k, priced) /\ FoldOf(k, priced) = g[1..(n + 1)]
  BY <1>1, FoldDefined
<1>4. Max(1..(n + 1)) = n + 1 /\ Rest(1..(n + 1)) = 1..n
  <2>1. Max(1..(n + 1)) \in 1..(n + 1) /\ \A m \in 1..(n + 1) : Max(1..(n + 1)) >= m
    <3>1. n + 1 \in Nat /\ 1..(n + 1) # {} /\ 1..(n + 1) \in SUBSET (1..(n + 1))
      BY <1>0
    <3> QED BY <3>1, MaxIs
  <2>2. Max(1..(n + 1)) = n + 1
    BY <1>0, <2>1
  <2> QED BY <1>0, <2>2 DEF Rest
<1>5. g[1..(n + 1)] = Term(priced, g[1..n], r)
  <2>1. 1..(n + 1) # {}
    BY <1>0
  <2> QED BY <1>1, <1>3, <1>4, <2>1 DEF IsFold
<1>6. f[1..n] = g[1..n]
  <2> DEFINE D == 1..n
             E == 1..(n + 1)
  <2>1. D \subseteq E /\ D \subseteq D
    BY <1>0
  <2>2. Positions(D) /\ Agree(h, k, D)
    BY <1>0, <1>1 DEF Positions, Agree
  <2>3. IsFold(f, D, h, priced) /\ IsFold(g, E, k, priced)
    BY <1>2, <1>3
  <2> HIDE DEF D, E
  <2>4. f[D] = g[D]
    BY <2>1, <2>2, <2>3, FoldUnique
  <2> QED BY <2>4 DEF D
<1> QED BY <1>2, <1>3, <1>5, <1>6 DEF k

-----------------------------------------------------------------------------
(* Decimal arithmetic *)

LEMMA HalfEvenType ==
  ASSUME NEW a \in Nat, NEW b \in Nat \ {0}
  PROVE  HalfEven(a, b) \in Nat
<1>1. a \div b \in Nat /\ a % b \in 0..(b - 1)
  OBVIOUS
<1> QED BY <1>1 DEF HalfEven

LEMMA HalfEvenExact ==
  ASSUME NEW k \in Nat, NEW c \in {1, 10}
  PROVE  HalfEven(c * k, c) = k
<1>1. (c * k) \div c = k /\ (c * k) % c = 0
  OBVIOUS
<1> QED BY <1>1 DEF HalfEven

LEMMA RoundedIs ==
  ASSUME NEW a, NEW b
  PROVE  \E unit \in {1, 10} : Rounded(a, b) = unit * HalfEven(a, unit * b)
  BY Zenon DEF Rounded

LEMMA RoundedType ==
  ASSUME NEW a \in Nat, NEW b \in Nat \ {0}
  PROVE  Rounded(a, b) \in Nat
<1>1. PICK unit \in {1, 10} : Rounded(a, b) = unit * HalfEven(a, unit * b)
  BY RoundedIs
<1>2. unit * b \in Nat \ {0}
  OBVIOUS
<1>3. HalfEven(a, unit * b) \in Nat
  BY <1>2, HalfEvenType
<1> QED BY <1>1, <1>3

(* A multiple of either unit is what it is rounded to. *)
LEMMA RoundedExact ==
  ASSUME NEW k \in Nat
  PROVE  Rounded(10 * k, 1) = 10 * k
<1>1. PICK unit \in {1, 10} : Rounded(10 * k, 1) = unit * HalfEven(10 * k, unit * 1)
  BY RoundedIs
<1>2. CASE unit = 1
  <2>1. HalfEven(1 * (10 * k), 1) = 10 * k
    BY HalfEvenExact
  <2> QED BY <1>1, <1>2, <2>1
<1>3. CASE unit = 10
  <2>1. HalfEven(10 * k, 10) = k
    BY HalfEvenExact
  <2> QED BY <1>1, <1>3, <2>1
<1> QED BY <1>2, <1>3

LEMMA RoundedAgain ==
  ASSUME NEW a \in Nat
  PROVE  Rounded(Rounded(a, 1), 1) = Rounded(a, 1)
<1>1. PICK unit \in {1, 10} : Rounded(a, 1) = unit * HalfEven(a, unit * 1)
  BY RoundedIs
<1>2. CASE unit = 1
  <2>1. HalfEven(1 * a, 1) = a
    BY HalfEvenExact
  <2>2. Rounded(a, 1) = a
    BY <1>1, <1>2, <2>1
  <2> QED BY <2>2
<1>3. CASE unit = 10
  <2>1. HalfEven(a, 10) \in Nat
    BY HalfEvenType
  <2>2. Rounded(a, 1) = 10 * HalfEven(a, 10)
    BY <1>1, <1>3
  <2> QED BY <2>1, <2>2, RoundedExact
<1> QED BY <1>2, <1>3

LEMMA RoundedZero == Rounded(0, 1) = 0
<1>1. Rounded(10 * 0, 1) = 10 * 0
  BY RoundedExact
<1> QED BY <1>1

(* What one more result makes of quantity and value. *)
LEMMA AppendFilled ==
  ASSUME NEW h \in Seq(Result), NEW r \in Result
  PROVE  Filled(Append(h, r)) = Filled(h) + r.quantity
  BY FoldAppend, FALSE \in BOOLEAN DEF FoldOf, Term

LEMMA AppendValue ==
  ASSUME NEW h \in Seq(Result), NEW r \in Result
  PROVE  Value(Append(h, r)) = Rounded(Value(h) + Rounded(r.price * r.quantity, 1), 1)
  BY FoldAppend, TRUE \in BOOLEAN DEF FoldOf, Term

LEMMA EmptyHistory == Filled(<<>>) = 0 /\ Value(<<>>) = 0
  BY FoldEmpty, TRUE \in BOOLEAN, FALSE \in BOOLEAN DEF FoldOf

-----------------------------------------------------------------------------
(* The invariant *)

(* The order is what its history says; the value of a history is one the   *)
(* arithmetic can represent.                                               *)
OrderIsHistory ==
  /\ order.filled = Filled(history) /\ order.average = ReplayedAverage(history)
  /\ Value(history) \in Nat /\ Rounded(Value(history), 1) = Value(history)
  /\ Filled(history) = 0 => Value(history) = 0
EventsOnce ==
  \A m, n \in DOMAIN history : history[m].event = history[n].event => m = n
ExpiryEnds ==
  \A n \in DOMAIN history : history[n].event = ExpiryEvent => order.status = "EXPIRED"

(* Decisions are not from the future; one that could be next was made from *)
(* the order as it is.                                                     *)
DecidedOnCopy ==
  \A r \in decisions :
    /\ r.event \in Quotes \cup {ExpiryEvent}
    /\ r.event = ExpiryEvent => r.status = "EXPIRED"
    /\ r.sequence <= Len(history) + 1
    /\ r.event \in Quotes /\ r.sequence = Len(history) + 1 =>
         r.quantity = FillQuantity(r.event)

OrderInv ==
  /\ TypeOK /\ OrderIsHistory /\ EventsOnce /\ ExpiryEnds
  /\ DecidedOnCopy /\ DecidedOnThisOrder

LEMMA InitOrder == Init => OrderInv
<1> SUFFICES ASSUME Init PROVE OrderInv
  OBVIOUS
<1> USE DEF Init
<1>1. TypeOK
  <2>1. order \in [status: Statuses, filled: 0..Requested, average: Nat, updated: Nat,
                   reason: Reasons \cup {NoReason}]
    BY OrderAssumption DEF Statuses
  <2>2. time \in Nat /\ history \in Seq(Result) /\ decisions \subseteq Result
    OBVIOUS
  <2> QED BY <2>1, <2>2 DEF TypeOK
<1>2. OrderIsHistory
  <2>1. Filled(history) = 0 /\ Value(history) = 0
    BY EmptyHistory
  <2>2. order.filled = 0 /\ order.average = 0 /\ ReplayedAverage(history) = 0
    BY <2>1 DEF ReplayedAverage
  <2> QED BY <2>1, <2>2, RoundedZero DEF OrderIsHistory
<1>3. DOMAIN history = {} /\ decisions = {}
  OBVIOUS
<1> QED BY <1>1, <1>2, <1>3 DEF OrderInv, EventsOnce, ExpiryEnds, DecidedOnCopy, DecidedOnThisOrder

-----------------------------------------------------------------------------
(* apply_execution_result *)

(* A result that fills nothing leaves the average as replay finds it. *)
LEMMA NothingFilledReplays ==
  ASSUME OrderInv, NEW r \in Result, r.quantity = 0
  PROVE  Replays(r)
<1>1. history \in Seq(Result) /\ r.price \in Nat
  BY DEF OrderInv, TypeOK, Result
<1>2. Filled(Append(history, r)) = Filled(history)
  <2>1. Filled(history) \in Nat
    BY OrderAssumption DEF OrderInv, OrderIsHistory, TypeOK
  <2> QED BY <1>1, <2>1, AppendFilled
<1>3. Value(Append(history, r)) = Value(history)
  <2>1. r.price * r.quantity = 0
    BY <1>1
  <2>2. Value(Append(history, r)) = Rounded(Value(history) + 0, 1)
    BY <1>1, <2>1, AppendValue, RoundedZero
  <2>3. Value(history) \in Nat /\ Rounded(Value(history), 1) = Value(history)
    BY DEF OrderInv, OrderIsHistory
  <2> QED BY <2>2, <2>3
<1> QED BY <1>2, <1>3 DEF Replays, ReplayedAverage, NextAverage, OrderInv, OrderIsHistory

(* Nor can the two differ before there was a fill. *)
LEMMA FirstFillReplays ==
  ASSUME OrderInv, NEW r \in Result, order.filled = 0
  PROVE  Replays(r)
<1>1. CASE r.quantity = 0
  BY <1>1, NothingFilledReplays
<1>2. CASE r.quantity # 0
  <2>1. /\ history \in Seq(Result) /\ r.price \in Nat /\ r.quantity \in Nat \ {0}
        /\ order.average \in Nat
    BY <1>2 DEF OrderInv, TypeOK, Result
  <2>2. Filled(history) = 0 /\ Value(history) = 0
    BY DEF OrderInv, OrderIsHistory
  <2> DEFINE fill == Rounded(r.price * r.quantity, 1)
  <2>3. fill \in Nat
    <3>1. r.price * r.quantity \in Nat /\ 1 \in Nat \ {0}
      BY <2>1
    <3> QED BY <3>1, RoundedType
  <2>4. Filled(Append(history, r)) = r.quantity /\ Value(Append(history, r)) = Rounded(fill, 1)
    <3> HIDE DEF fill
    <3>1. Filled(Append(history, r)) = 0 + r.quantity
      BY <2>1, <2>2, AppendFilled
    <3>2. Value(Append(history, r)) = Rounded(0 + fill, 1)
      BY <2>1, <2>2, AppendValue DEF fill
    <3> QED BY <2>1, <2>3, <3>1, <3>2
  <2>5. ReplayedAverage(Append(history, r)) = Rounded(Rounded(fill, 1), r.quantity)
    BY <2>1, <2>4 DEF ReplayedAverage
  <2>6. NextAverage(order, r) = Rounded(Rounded(fill, 1), r.quantity)
    <3>1. order.average * order.filled = 0
      BY <2>1
    <3>2. NextAverage(order, r) = Rounded(Rounded(0 + fill, 1), 0 + r.quantity)
      BY <1>2, <3>1, RoundedZero DEF NextAverage
    <3> HIDE DEF fill
    <3> QED BY <2>1, <2>3, <3>2
  <2> QED BY <2>5, <2>6 DEF Replays
<1> QED BY <1>1, <1>2

LEMMA PrefixOfAppend ==
  ASSUME NEW S, NEW h \in Seq(S), NEW r \in S, NEW n \in 0..Len(h)
  PROVE  SubSeq(Append(h, r), 1, n) = SubSeq(h, 1, n)
<1> DEFINE k == Append(h, r)
<1>1. /\ Len(h) \in Nat /\ n \in Int /\ k \in Seq(S) /\ Len(k) = Len(h) + 1
      /\ \A i \in 1..Len(h) : k[i] = h[i]
  BY AppendProperties
<1>2. \A i \in 1..n : h[i] \in S /\ k[i] = h[i]
  BY <1>1, ElementOfSeq
<1>3. /\ SubSeq(h, 1, n) \in Seq(S) /\ Len(SubSeq(h, 1, n)) = n
      /\ \A i \in 1..n : SubSeq(h, 1, n)[i] = h[i]
  <2>1. \A i \in 1..n : h[i] \in S
    BY <1>2
  <2>2. 1 \in Int /\ n \in Int /\ n >= 0
    BY <1>1
  <2> QED BY <2>1, <2>2, SubSeqProperties
<1>4. /\ SubSeq(k, 1, n) \in Seq(S) /\ Len(SubSeq(k, 1, n)) = n
      /\ \A i \in 1..n : SubSeq(k, 1, n)[i] = k[i]
  <2>1. \A i \in 1..n : k[i] \in S
    BY <1>2
  <2>2. 1 \in Int /\ n \in Int /\ n >= 0
    BY <1>1
  <2> HIDE DEF k
  <2> QED BY <2>1, <2>2, SubSeqProperties
<1> HIDE DEF k
<1>5. SubSeq(k, 1, n) = SubSeq(h, 1, n)
  BY <1>2, <1>3, <1>4, SeqEqual
<1> QED BY <1>5 DEF k

(* Results that reach the order: decisions of the matcher and reports of   *)
(* the venue.                                                              *)
LEMMA ApplyKeepsOrder ==
  ASSUME OrderInv, NEW r \in Result, Acceptable(r), ApplyResult(r)
  PROVE  /\ order' \in [status: Statuses, filled: 0..Requested, average: Nat, updated: Nat,
                        reason: Reasons \cup {NoReason}]
         /\ order'.status = r.status /\ order'.filled = order.filled + r.quantity
         /\ history' \in Seq(Result) /\ OrderIsHistory'
<1>1. /\ r.quantity \in Nat /\ r.price \in Nat /\ r.status \in Statuses /\ r.at \in Nat
      /\ r.reason \in Reasons \cup {NoReason}
  BY DEF Result
<1>2. /\ order.filled \in 0..Requested /\ order.average \in Nat /\ history \in Seq(Result)
  BY DEF OrderInv, TypeOK
<1>3. order.filled + r.quantity \in 0..Requested
  BY <1>1, <1>2, OrderAssumption DEF Acceptable, Legal, Quantities
<1>4. NextAverage(order, r) \in Nat
  <2>1. CASE r.quantity = 0
    BY <1>2, <2>1 DEF NextAverage
  <2>2. CASE r.quantity # 0
    <3> DEFINE before == Rounded(order.average * order.filled, 1)
               fill == Rounded(r.price * r.quantity, 1)
    <3>1. /\ order.average * order.filled \in Nat /\ r.price * r.quantity \in Nat
          /\ 1 \in Nat \ {0} /\ order.filled + r.quantity \in Nat \ {0}
      BY <1>1, <1>2, <2>2
    <3>2. before \in Nat /\ fill \in Nat
      BY <3>1, RoundedType
    <3>3. NextAverage(order, r) = Rounded(Rounded(before + fill, 1), order.filled + r.quantity)
      BY <2>2 DEF NextAverage
    <3> HIDE DEF before, fill
    <3>4. Rounded(before + fill, 1) \in Nat
      <4>1. before + fill \in Nat
        BY <3>2
      <4> QED BY <3>1, <4>1, RoundedType
    <3> QED BY <3>1, <3>3, <3>4, RoundedType
  <2> QED BY <2>1, <2>2
<1>5. /\ order'.status = r.status /\ order'.filled = order.filled + r.quantity
      /\ order'.average = NextAverage(order, r)
  BY DEF ApplyResult, AfterResult
<1>6. order' \in [status: Statuses, filled: 0..Requested, average: Nat, updated: Nat,
                  reason: Reasons \cup {NoReason}]
  BY <1>1, <1>3, <1>4 DEF ApplyResult, AfterResult
<1>7. history' = Append(history, r) /\ history' \in Seq(Result)
  BY <1>2, AppendProperties DEF ApplyResult
<1>8. OrderIsHistory'
  <2>1. /\ order.filled = Filled(history) /\ Value(history) \in Nat
        /\ Rounded(Value(history), 1) = Value(history)
        /\ (Filled(history) = 0 => Value(history) = 0)
    BY DEF OrderInv, OrderIsHistory
  <2>2. Filled(history') = Filled(history) + r.quantity
    BY <1>2, <1>7, AppendFilled
  <2>3. ReplayedAverage(history') = order'.average
    BY <1>5, <1>7 DEF Acceptable, Replays
  <2> DEFINE fill == Rounded(r.price * r.quantity, 1)
  <2>4. Value(history') = Rounded(Value(history) + fill, 1)
    BY <1>2, <1>7, AppendValue
  <2>5. fill \in Nat
    <3>1. r.price * r.quantity \in Nat /\ 1 \in Nat \ {0}
      BY <1>1
    <3> QED BY <3>1, RoundedType
  <2>6. Value(history') \in Nat /\ Rounded(Value(history'), 1) = Value(history')
    <3> HIDE DEF fill
    <3>1. Value(history) + fill \in Nat /\ 1 \in Nat \ {0}
      BY <2>1, <2>5
    <3> QED BY <2>4, <3>1, RoundedType, RoundedAgain
  <2>7. Filled(history') = 0 => Value(history') = 0
    <3>1. SUFFICES ASSUME Filled(history') = 0 PROVE Value(history') = 0
      OBVIOUS
    <3>2. Filled(history) = 0 /\ r.quantity = 0
      BY <1>1, <1>2, <2>1, <2>2, <3>1
    <3>3. fill = 0
      BY <1>1, <3>2, RoundedZero
    <3>4. Value(history') = Rounded(0 + 0, 1)
      BY <2>1, <2>4, <3>2, <3>3
    <3> QED BY <3>4, RoundedZero
  <2> QED BY <1>5, <2>1, <2>2, <2>3, <2>6, <2>7 DEF OrderIsHistory
<1> QED BY <1>5, <1>6, <1>7, <1>8

LEMMA ApplyKeepsEvents ==
  ASSUME OrderInv, NEW r \in Result, Acceptable(r), ApplyResult(r),
         r.event = ExpiryEvent => r.status = "EXPIRED"
  PROVE  EventsOnce' /\ ExpiryEnds'
<1>1. /\ history \in Seq(Result) /\ history' = Append(history, r) /\ order'.status = r.status
  BY ApplyKeepsOrder DEF OrderInv, TypeOK, ApplyResult
<1>2. /\ Len(history) \in Nat /\ DOMAIN history = 1..Len(history)
      /\ DOMAIN history' = 1..(Len(history) + 1)
      /\ history'[Len(history) + 1] = r
      /\ \A m \in 1..Len(history) : history'[m] = history[m]
  BY <1>1, AppendProperties
<1>3. \A m \in 1..Len(history) : history[m].event # r.event
  BY <1>2 DEF Acceptable, Legal, Known
<1>4. EventsOnce'
  <2> SUFFICES ASSUME NEW m \in DOMAIN history', NEW n \in DOMAIN history',
                      history'[m].event = history'[n].event
               PROVE  m = n
    BY DEF EventsOnce
  <2>1. CASE m \in 1..Len(history) /\ n \in 1..Len(history)
    BY <1>2, <2>1 DEF OrderInv, EventsOnce
  <2>2. CASE ~(m \in 1..Len(history) /\ n \in 1..Len(history))
    BY <1>2, <1>3, <2>2
  <2> QED BY <2>1, <2>2
<1>5. ExpiryEnds'
  <2> SUFFICES ASSUME NEW n \in DOMAIN history', history'[n].event = ExpiryEvent
               PROVE  order'.status = "EXPIRED"
    BY DEF ExpiryEnds
  <2>1. CASE n = Len(history) + 1
    BY <1>1, <1>2, <2>1
  <2>2. CASE n # Len(history) + 1
    <3>1. order.status = "EXPIRED"
      BY <1>2, <2>2 DEF OrderInv, ExpiryEnds
    <3>2. Successors("EXPIRED") = {}
      BY DEF Successors, Transitions, Statuses, Terminal, Matchable
    <3> QED BY <1>1, <3>1, <3>2 DEF Acceptable, Legal, Permitted
  <2> QED BY <2>1, <2>2
<1> QED BY <1>4, <1>5

(* A decision that is applied was made from this order: no result came in  *)
(* between, as its number is the next.                                     *)
LEMMA ApplyKeepsDecided ==
  ASSUME OrderInv, NEW r \in Result, Acceptable(r), ApplyResult(r),
         r.event \in Quotes => r \in decisions, EventsOnce', decisions' \subseteq decisions
  PROVE  DecidedOnThisOrder' /\ DecidedOnCopy'
<1>1. history \in Seq(Result) /\ history' = Append(history, r)
  BY DEF OrderInv, TypeOK, ApplyResult
<1>2. /\ Len(history) \in Nat /\ DOMAIN history = 1..Len(history)
      /\ DOMAIN history' = 1..(Len(history) + 1) /\ Len(history') = Len(history) + 1
      /\ history'[Len(history) + 1] = r
      /\ \A m \in 1..Len(history) : history'[m] = history[m]
  BY <1>1, AppendProperties
<1>3. \A n \in 1..(Len(history) + 1) :
        SubSeq(history', 1, n - 1) = SubSeq(history, 1, n - 1)
  <2> SUFFICES ASSUME NEW n \in 1..(Len(history) + 1)
               PROVE  SubSeq(history', 1, n - 1) = SubSeq(history, 1, n - 1)
    OBVIOUS
  <2>1. n - 1 \in 0..Len(history)
    BY <1>2
  <2> QED BY <1>1, <2>1, PrefixOfAppend
<1>4. DecidedOnThisOrder'
  <2> SUFFICES ASSUME NEW n \in DOMAIN history', history'[n].event \in Quotes
               PROVE  /\ history'[n].quantity =
                           IF Visible[history'[n].event] < Approved - FilledBefore(n)'
                           THEN Visible[history'[n].event] ELSE Approved - FilledBefore(n)'
                      /\ \A m \in DOMAIN history' :
                           history'[m].event = history'[n].event => m = n
    BY DEF DecidedOnThisOrder
  <2>1. \A m \in DOMAIN history' : history'[m].event = history'[n].event => m = n
    BY DEF EventsOnce
  <2>2. CASE n \in 1..Len(history)
    <3>1. FilledBefore(n)' = FilledBefore(n) /\ history'[n] = history[n]
      BY <1>2, <1>3, <2>2 DEF FilledBefore
    <3> QED BY <1>2, <2>1, <2>2, <3>1 DEF OrderInv, DecidedOnThisOrder
  <2>3. CASE n = Len(history) + 1
    <3>1. FilledBefore(n)' = order.filled
      <4>1. SubSeq(history, 1, n - 1) = history
        BY <1>1, <1>2, <2>3, SubSeqFull
      <4> QED BY <1>2, <1>3, <2>3, <4>1 DEF FilledBefore, OrderInv, OrderIsHistory
    <3>2. r.event \in Quotes /\ r \in decisions /\ r.sequence = Len(history) + 1
      BY <1>2, <2>3 DEF Acceptable, Legal, Contiguous
    <3>3. r.quantity = FillQuantity(r.event)
      BY <3>2 DEF OrderInv, DecidedOnCopy
    <3> QED BY <1>2, <2>1, <2>3, <3>1, <3>3 DEF FillQuantity
  <2> QED BY <1>2, <2>2, <2>3
<1>5. DecidedOnCopy'
  <2> SUFFICES ASSUME NEW d \in decisions'
               PROVE  /\ d.event \in Quotes \cup {ExpiryEvent}
                      /\ d.event = ExpiryEvent => d.status = "EXPIRED"
                      /\ d.sequence <= Len(history') + 1
                      /\ d.event \in Quotes /\ d.sequence = Len(history') + 1 =>
                           d.quantity = FillQuantity(d.event)'
    BY DEF DecidedOnCopy
  <2>1. d \in decisions /\ d.sequence \in Nat
    BY DEF OrderInv, TypeOK, Result
  <2>2. /\ d.event \in Quotes \cup {ExpiryEvent}
        /\ d.event = ExpiryEvent => d.status = "EXPIRED"
        /\ d.sequence <= Len(history) + 1
    BY <2>1 DEF OrderInv, DecidedOnCopy
  <2> QED BY <1>2, <2>1, <2>2
<1> QED BY <1>4, <1>5

(* Everything a result leads to. *)
LEMMA ApplyKeeps ==
  ASSUME OrderInv, NEW r \in Result, Acceptable(r), ApplyResult(r), UNCHANGED time,
         r.event \in VenueEvents \/ r \in decisions, decisions' \subseteq decisions
  PROVE  OrderInv'
<1>1. r.event = ExpiryEvent => r.status = "EXPIRED"
  BY VenueAssumption DEF OrderInv, DecidedOnCopy
<1>2. r.event \in Quotes => r \in decisions
  BY VenueAssumption
<1>3. TypeOK'
  <2>1. time' \in Nat /\ decisions' \subseteq Result
    BY DEF OrderInv, TypeOK
  <2> QED BY <2>1, ApplyKeepsOrder DEF TypeOK
<1>4. OrderIsHistory' /\ EventsOnce' /\ ExpiryEnds'
  BY <1>1, ApplyKeepsOrder, ApplyKeepsEvents
<1>5. DecidedOnThisOrder' /\ DecidedOnCopy'
  BY <1>2, <1>4, ApplyKeepsDecided
<1> QED BY <1>3, <1>4, <1>5 DEF OrderInv

(* Nothing but the time or the decisions changes. *)
LEMMA OrderSame ==
  ASSUME OrderInv, UNCHANGED <<order, history>>, time' \in Nat, decisions' \subseteq Result,
         \A d \in decisions' \ decisions :
           /\ d.event \in Quotes \cup {ExpiryEvent}
           /\ d.event = ExpiryEvent => d.status = "EXPIRED"
           /\ d.sequence = Len(history) + 1
           /\ d.event \in Quotes => d.quantity = FillQuantity(d.event)
  PROVE  OrderInv'
<1>1. TypeOK' /\ OrderIsHistory'
  BY DEF OrderInv, TypeOK, OrderIsHistory
<1>2. EventsOnce' /\ ExpiryEnds' /\ DecidedOnThisOrder'
  BY DEF OrderInv, EventsOnce, ExpiryEnds, DecidedOnThisOrder, FilledBefore
<1>3. DecidedOnCopy'
  <2>1. Len(history) \in Nat
    BY DEF OrderInv, TypeOK
  <2> SUFFICES ASSUME NEW d \in decisions'
               PROVE  /\ d.event \in Quotes \cup {ExpiryEvent}
                      /\ d.event = ExpiryEvent => d.status = "EXPIRED"
                      /\ d.sequence <= Len(history') + 1
                      /\ d.event \in Quotes /\ d.sequence = Len(history') + 1 =>
                           d.quantity = FillQuantity(d.event)'
    BY DEF DecidedOnCopy
  <2>2. \A q \in Quotes : FillQuantity(q)' = FillQuantity(q)
    BY DEF FillQuantity
  <2>3. CASE d \in decisions
    BY <2>2, <2>3 DEF OrderInv, DecidedOnCopy
  <2>4. CASE d \notin decisions
    BY <2>1, <2>2, <2>4
  <2> QED BY <2>3, <2>4
<1> QED BY <1>1, <1>2, <1>3 DEF OrderInv

-----------------------------------------------------------------------------
(* What the matcher decides is a result. *)

LEMMA FillResultType ==
  ASSUME OrderInv, NEW q \in Quotes, CanFill(q)
  PROVE  /\ FillQuantity(q) \in 1..(Approved - order.filled)
         /\ FillResult(q) \in Result
<1>1. /\ time \in Nat /\ Len(history) \in Nat /\ order.filled \in 0..Requested
      /\ Visible[q] \in Nat /\ PriceOf[q] \in Nat /\ Approved \in Nat
  BY OrderAssumption, QuoteAssumption DEF OrderInv, TypeOK
<1>2. FillQuantity(q) \in 1..(Approved - order.filled)
  BY <1>1 DEF CanFill, CanMatch, FillQuantity
<1>3. FillResult(q) \in Result
  <2>1. /\ q \in Quotes \cup VenueEvents \cup {ExpiryEvent} /\ NoReason \in Reasons \cup {NoReason}
        /\ "STATUS_TRANSITION" \in Kinds
        /\ {"FILLED", "PARTIALLY_FILLED"} \subseteq Statuses \ {"CREATED"}
    BY DEF Kinds, Statuses, Matchable, Terminal
  <2>2. Len(history) + 1 \in Nat \ {0} /\ FillQuantity(q) \in Nat
    BY <1>1, <1>2
  <2> HIDE DEF Result
  <2> QED BY <1>1, <2>1, <2>2 DEF FillResult, Result
<1> QED BY <1>2, <1>3

LEMMA ExpiryResultType ==
  ASSUME OrderInv
  PROVE  ExpiryResult \in Result
<1>1. Len(history) + 1 \in Nat \ {0} /\ Expires \in Nat
  BY OrderAssumption DEF OrderInv, TypeOK
<1>2. "EXPIRED" \in Statuses \ {"CREATED"} /\ "STATUS_TRANSITION" \in Kinds
  BY DEF Kinds, Statuses, Matchable, Terminal
<1> QED BY <1>1, <1>2 DEF ExpiryResult, Result

LEMMA ReportType ==
  ASSUME OrderInv, NEW r \in Reports
  PROVE  r \in Result /\ r.event \in VenueEvents
<1>1. Len(history) + 1 \in Nat \ {0} /\ time \in Nat /\ \A t \in 0..time : t \in Nat
  BY DEF OrderInv, TypeOK
<1>2. /\ FillStatuses \subseteq Statuses \ {"CREATED"}
      /\ {"QUEUED", "PARTIALLY_FILLED"} \subseteq Statuses \ {"CREATED"}
      /\ {"STATUS_TRANSITION", "WAITING_REASON_CHANGED"} \subseteq Kinds
  BY DEF Kinds, Statuses, Matchable, Terminal, FillStatuses
<1> DEFINE report(status, kind, n, p, reason) ==
             [event: VenueEvents, kind: {kind}, status: {status}, at: 0..time,
              sequence: {Len(history) + 1}, quantity: {n}, price: {p}, reason: {reason}]
<1>3. ASSUME NEW status \in Statuses \ {"CREATED"}, NEW kind \in Kinds, NEW n \in Nat, NEW p \in Nat,
             NEW reason \in Reasons \cup {NoReason}, r \in report(status, kind, n, p, reason)
      PROVE  r \in Result /\ r.event \in VenueEvents
  BY <1>1, <1>3 DEF Result
<1>4. \/ \E s \in Statuses \ ({"CREATED"} \cup FillStatuses) :
           r \in report(s, "STATUS_TRANSITION", 0, 0, NoReason)
      \/ \E s \in FillStatuses, n \in VenueFills, p \in VenuePrices :
           r \in report(s, "STATUS_TRANSITION", n, p, NoReason)
      \/ \E s \in {"QUEUED", "PARTIALLY_FILLED"}, w \in Reasons :
           r \in report(s, "WAITING_REASON_CHANGED", 0, 0, w)
  <2> DEFINE Plain == {report(s, "STATUS_TRANSITION", 0, 0, NoReason) :
                         s \in Statuses \ ({"CREATED"} \cup FillStatuses)}
             Fills == {report(s, "STATUS_TRANSITION", n, p, NoReason) :
                         s \in FillStatuses, n \in VenueFills, p \in VenuePrices}
             Waits == {report(s, "WAITING_REASON_CHANGED", 0, 0, w) :
                         s \in {"QUEUED", "PARTIALLY_FILLED"}, w \in Reasons}
  <2>1. Reports = UNION (Plain \cup Fills \cup Waits)
    BY DEF Reports
  <2>2. (\E P \in Plain : r \in P) \/ (\E P \in Fills : r \in P) \/ (\E P \in Waits : r \in P)
    <3> HIDE DEF Plain, Fills, Waits
    <3> QED BY <2>1
  <2> HIDE DEF report
  <2>3. CASE \E P \in Plain : r \in P
    BY <2>3
  <2>4. CASE \E P \in Fills : r \in P
    BY <2>4
  <2>5. CASE \E P \in Waits : r \in P
    BY <2>5
  <2> QED BY <2>2, <2>3, <2>4, <2>5
<1> HIDE DEF report
<1>5. CASE \E s \in Statuses \ ({"CREATED"} \cup FillStatuses) :
             r \in report(s, "STATUS_TRANSITION", 0, 0, NoReason)
  BY <1>2, <1>3, <1>5
<1>6. CASE \E s \in FillStatuses, n \in VenueFills, p \in VenuePrices :
             r \in report(s, "STATUS_TRANSITION", n, p, NoReason)
  BY <1>2, <1>3, <1>6, VenueAssumption
<1>7. CASE \E s \in {"QUEUED", "PARTIALLY_FILLED"}, w \in Reasons :
             r \in report(s, "WAITING_REASON_CHANGED", 0, 0, w)
  BY <1>2, <1>3, <1>7
<1> QED BY <1>4, <1>5, <1>6, <1>7

LEMMA OrderStep == OrderInv /\ [Next]_vars => OrderInv'
<1> SUFFICES ASSUME OrderInv, [Next]_vars PROVE OrderInv'
  OBVIOUS
<1>0. time \in Nat /\ decisions \subseteq Result
  BY DEF OrderInv, TypeOK
<1>1. ASSUME NEW q \in Quotes, MatchQuote(q) PROVE OrderInv'
  <2>1. /\ CanFill(q) /\ decisions' = decisions \cup {FillResult(q)}
        /\ UNCHANGED <<time, order, history>>
    BY <1>1 DEF MatchQuote, Decided
  <2>2. FillResult(q) \in Result
    BY <2>1, FillResultType
  <2>3. /\ FillResult(q).event = q /\ FillResult(q).sequence = Len(history) + 1
        /\ FillResult(q).quantity = FillQuantity(q)
    BY DEF FillResult
  <2>4. q # ExpiryEvent
    BY VenueAssumption
  <2> QED BY <1>0, <2>1, <2>2, <2>3, <2>4, OrderSame
<1>2. ASSUME MatchExpiry PROVE OrderInv'
  <2>1. decisions' = decisions \cup {ExpiryResult} /\ UNCHANGED <<time, order, history>>
    BY <1>2 DEF MatchExpiry, Decided
  <2>2. ExpiryResult \in Result
    BY ExpiryResultType
  <2>3. /\ ExpiryResult.event = ExpiryEvent /\ ExpiryResult.sequence = Len(history) + 1
        /\ ExpiryResult.status = "EXPIRED"
    BY DEF ExpiryResult
  <2>4. ExpiryEvent \notin Quotes
    BY VenueAssumption
  <2> QED BY <1>0, <2>1, <2>2, <2>3, <2>4, OrderSame
<1>3. ASSUME NEW r \in decisions, Deliver(r) \/ DeliverAndRetry(r) PROVE OrderInv'
  <2>1. UNCHANGED time /\ decisions' \subseteq decisions
    BY <1>3 DEF Deliver, DeliverAndRetry
  <2>2. CASE Acceptable(r) /\ ApplyResult(r)
    BY <1>0, <2>1, <2>2, ApplyKeeps
  <2>3. CASE UNCHANGED <<order, history>>
    BY <1>0, <2>1, <2>3, OrderSame
  <2> QED BY <1>3, <2>2, <2>3 DEF Deliver, DeliverAndRetry
<1>4. ASSUME Report PROVE OrderInv'
  <2>1. PICK r \in Reports : Acceptable(r) /\ ApplyResult(r)
    BY <1>4 DEF Report
  <2>2. r \in Result /\ r.event \in VenueEvents
    BY ReportType
  <2>3. UNCHANGED <<time, decisions>>
    BY <1>4 DEF Report
  <2> QED BY <2>1, <2>2, <2>3, ApplyKeeps
<1>5. ASSUME Tick PROVE OrderInv'
  BY <1>0, <1>5, OrderSame DEF Tick
<1>6. ASSUME UNCHANGED vars PROVE OrderInv'
  BY <1>0, <1>6, OrderSame DEF vars
<1> QED BY <1>1, <1>2, <1>3, <1>4, <1>5, <1>6 DEF Next

LEMMA OrderInvariant == Spec => []OrderInv
  BY InitOrder, OrderStep, PTL DEF Spec

-----------------------------------------------------------------------------
(* The state of an order is what apply_execution_result says it is; the    *)
(* quantity never passes the intent's (OrderState.__post_init__).          *)
THEOREM OrderTypes == Spec => []TypeOK
<1>1. OrderInv => TypeOK
  BY DEF OrderInv
<1> QED BY <1>1, OrderInvariant, PTL

(* A quote fills the order once, and a decision of the matcher is applied  *)
(* only to the order it was made from, however many there are and however  *)
(* late: apply_execution_result knows them by event and sequence number.   *)
THEOREM DecisionsMeetTheirOrder == Spec => []DecidedOnThisOrder
<1>1. OrderInv => DecidedOnThisOrder
  BY DEF OrderInv
<1> QED BY <1>1, OrderInvariant, PTL

(* What match_limit_day decides of the current order, apply_execution_     *)
(* result accepts, but for the rounding of the average after a first fill. *)
THEOREM MatcherAgreesWithStateMachine == Spec => []FreshDecisionAccepted
<1>1. ASSUME OrderInv PROVE FreshDecisionAccepted
  <2>1. /\ order.filled \in 0..Requested /\ order.updated \in Nat /\ time \in Nat
        /\ Len(history) \in Nat /\ Approved \in 0..Requested /\ Requested \in Nat
        /\ Expires \in Nat /\ Earliest \in Nat
    BY <1>1, OrderAssumption DEF OrderInv, TypeOK
  <2>2. \A status \in Matchable : FillStatuses \cup {"EXPIRED"} \subseteq Successors(status)
    BY DEF Successors, Transitions, Statuses, Matchable, Terminal, FillStatuses
  <2>3. ASSUME NEW q \in Quotes, CanFill(q), ~Known(FillResult(q))
        PROVE  Legal(FillResult(q)) /\ (order.filled = 0 => Replays(FillResult(q)))
    <3> DEFINE r == FillResult(q)
    <3>1. FillQuantity(q) \in 1..(Approved - order.filled) /\ r \in Result
      BY <1>1, <2>3, FillResultType
    <3>2. /\ r.status = IF order.filled + FillQuantity(q) = Requested
                        THEN "FILLED" ELSE "PARTIALLY_FILLED"
          /\ r.at = time /\ r.sequence = Len(history) + 1 /\ r.quantity = FillQuantity(q)
          /\ r.kind = "STATUS_TRANSITION"
      BY DEF FillResult
    <3> HIDE DEF r
    <3>3. Contiguous(r) /\ Quantities(r)
      BY <2>1, <3>1, <3>2 DEF Contiguous, Quantities
    <3>4. InWindow(r)
      BY <2>3, <3>2 DEF InWindow, CanFill, Active
    <3>5. r.at >= order.updated
      BY <2>1, <2>3, <3>2, QuoteAssumption DEF CanFill, Usable
    <3>6. Permitted(r)
      <4>1. order.status \in Matchable
        BY <2>3 DEF CanFill, CanMatch
      <4>2. r.status \in FillStatuses
        BY <3>2 DEF FillStatuses
      <4> QED BY <2>2, <3>2, <4>1, <4>2 DEF Permitted
    <3>7. order.filled = 0 => Replays(r)
      BY <1>1, <3>1, FirstFillReplays
    <3> QED BY <2>3, <3>3, <3>4, <3>5, <3>6, <3>7 DEF Legal, r
  <2>4. ASSUME CanExpire PROVE Acceptable(ExpiryResult)
    <3> DEFINE r == ExpiryResult
    <3>1. r \in Result
      BY <1>1, ExpiryResultType
    <3>2. /\ r.status = "EXPIRED" /\ r.at = Expires /\ r.sequence = Len(history) + 1
          /\ r.quantity = 0 /\ r.kind = "STATUS_TRANSITION" /\ r.event = ExpiryEvent
      BY DEF ExpiryResult
    <3> HIDE DEF r
    <3>3. order.status \in Matchable /\ order.updated < Expires
      BY <2>4 DEF CanExpire, CanMatch
    <3>4. ~Known(r)
      <4>1. order.status # "EXPIRED"
        BY <3>3 DEF Matchable
      <4> QED BY <1>1, <3>2, <4>1 DEF Known, OrderInv, ExpiryEnds
    <3>5. Contiguous(r) /\ Quantities(r) /\ InWindow(r) /\ r.at >= order.updated
      BY <2>1, <3>2, <3>3 DEF Contiguous, Quantities, InWindow, WindowStatuses, FillStatuses
    <3>6. Permitted(r)
      BY <2>2, <3>2, <3>3 DEF Permitted
    <3>7. Replays(r)
      BY <1>1, <3>1, <3>2, NothingFilledReplays
    <3> QED BY <3>4, <3>5, <3>6, <3>7 DEF Acceptable, Legal, r
  <2> QED BY <2>3, <2>4 DEF FreshDecisionAccepted
<1> QED BY <1>1, OrderInvariant, PTL

(* A report of a cancellation, early or late, is accepted for any order    *)
(* that has not ended ("the OMS must still be able to converge").          *)
THEOREM OrdersCanEnd == Spec => []CanAlwaysEnd
<1>1. ASSUME OrderInv, order.status \notin Terminal, NEW r \in Cancellations, ~Known(r)
      PROVE  Acceptable(r)
  <2>1. /\ order.filled \in 0..Requested /\ order.updated \in Nat /\ Len(history) \in Nat
        /\ order.status \in Statuses /\ Requested \in Nat /\ Expires \in Nat
    BY <1>1, OrderAssumption DEF OrderInv, TypeOK
  <2>2. /\ r.status = "CANCELLED" /\ r.at \in order.updated..(Expires + 1)
        /\ r.sequence = Len(history) + 1 /\ r.quantity = 0 /\ r.price = 0
        /\ r.kind = "STATUS_TRANSITION" /\ r.event \in VenueEvents /\ r.reason = NoReason
    BY DEF Cancellations
  <2>3. r \in Result
    <3>1. "CANCELLED" \in Statuses \ {"CREATED"} /\ "STATUS_TRANSITION" \in Kinds
      BY DEF Statuses, Terminal, Matchable, Kinds
    <3>2. r.at \in Nat
      BY <2>1, <2>2
    <3>3. r = [event |-> r.event, kind |-> r.kind, status |-> r.status, at |-> r.at,
               sequence |-> r.sequence, quantity |-> r.quantity, price |-> r.price,
               reason |-> r.reason]
      BY DEF Cancellations
    <3> QED BY <2>1, <2>2, <3>1, <3>2, <3>3 DEF Result
  <2>4. Contiguous(r) /\ Quantities(r) /\ InWindow(r) /\ r.at >= order.updated
    BY <2>1, <2>2 DEF Contiguous, Quantities, InWindow, WindowStatuses, FillStatuses
  <2>5. Permitted(r)
    BY <1>1, <2>1, <2>2
       DEF Permitted, Successors, Transitions, Statuses, Matchable, Terminal, FillStatuses
  <2>6. Replays(r)
    BY <1>1, <2>2, <2>3, NothingFilledReplays
  <2> QED BY <1>1, <2>4, <2>5, <2>6 DEF Acceptable, Legal
<1>2. OrderInv => CanAlwaysEnd
  BY <1>1 DEF CanAlwaysEnd
<1> QED BY <1>2, OrderInvariant, PTL
=============================================================================
