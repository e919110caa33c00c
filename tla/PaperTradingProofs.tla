------------------------- MODULE PaperTradingProofs -------------------------
(***************************************************************************)
(* Proofs about PaperTrading, for any orders, quotes, ticks and decisions. *)
(***************************************************************************)
EXTENDS PaperTrading, SequenceTheorems, FiniteSetTheorems, WellFoundedInduction, TLAPS

-----------------------------------------------------------------------------
(* Sums.  The community modules define them by recursion over finite sets  *)
(* with a choice of the next element; SumWithout says that the choice does *)
(* not matter.  The induction is that a set of finite sets has a minimal   *)
(* member.                                                                 *)

Some(s) == CHOOSE x \in s : TRUE
Rest(s) == s \ {Some(s)}
IsSum(g, U, w) ==
  g = [s \in SUBSET U |-> IF s = {} THEN 0 ELSE w[Some(s)] + g[Rest(s)]]
Sum(w, S) == (CHOOSE g : IsSum(g, S, w))[S]

LEMMA Minimal ==
  ASSUME NEW S, IsFiniteSet(S), NEW T \in SUBSET SUBSET S, T # {}
  PROVE  \E U \in T : \A V \in T : ~(V \subseteq U /\ V # U)
<1>1. IsWellFoundedOn(StrictSubsetOrdering(S), SUBSET S)
  BY FS_StrictSubsetOrderingWellFounded, FS_FiniteSubsetsOfFinite
<1>2. \E U \in T : \A V \in T : <<V, U>> \notin StrictSubsetOrdering(S)
  BY <1>1, WFMin
<1> QED BY <1>2 DEF StrictSubsetOrdering

LEMMA SumUnique ==
  ASSUME NEW U, NEW V, NEW W, IsFiniteSet(W), W \subseteq U, W \subseteq V,
         NEW w, NEW g, NEW h, IsSum(g, U, w), IsSum(h, V, w)
  PROVE  g[W] = h[W]
<1> DEFINE T == {s \in SUBSET W : g[s] # h[s]}
<1>1. SUFFICES ASSUME T # {} PROVE FALSE
  OBVIOUS
<1>2. PICK s \in T : \A r \in T : ~(r \subseteq s /\ r # s)
  <2>1. T \in SUBSET SUBSET W
    OBVIOUS
  <2> HIDE DEF T
  <2> QED BY <1>1, <2>1, Minimal
<1>3. s \in SUBSET U /\ s \in SUBSET V
  OBVIOUS
<1>4. s # {}
  BY <1>2, <1>3 DEF IsSum
<1>5. Some(s) \in s
  BY <1>4 DEF Some
<1>6. g[Rest(s)] = h[Rest(s)]
  BY <1>2, <1>5 DEF Rest
<1>7. g[s] = w[Some(s)] + g[Rest(s)]
  BY <1>3, <1>4 DEF IsSum
<1>8. h[s] = w[Some(s)] + h[Rest(s)]
  BY <1>3, <1>4 DEF IsSum
<1> QED BY <1>2, <1>6, <1>7, <1>8

LEMMA SumExists ==
  ASSUME NEW S, IsFiniteSet(S), NEW w
  PROVE  \E g : IsSum(g, S, w)
<1> DEFINE Of(s) == CHOOSE g : IsSum(g, s, w)
           T == {U \in SUBSET S : ~ \E g : IsSum(g, U, w)}
<1>1. SUFFICES ASSUME T # {} PROVE FALSE
  OBVIOUS
<1>2. PICK U \in T : \A V \in T : ~(V \subseteq U /\ V # U)
  <2>1. T \in SUBSET SUBSET S
    OBVIOUS
  <2> HIDE DEF T
  <2> QED BY <1>1, <2>1, Minimal
<1>3. U \in SUBSET S /\ \A V \in SUBSET U : V # U => \E g : IsSum(g, V, w)
  BY <1>2
<1> DEFINE v == [s \in SUBSET U |-> IF s = {} THEN 0 ELSE w[Some(s)] + Of(Rest(s))[Rest(s)]]
<1>4. ASSUME NEW s \in SUBSET U, s # {}
      PROVE  Rest(s) \in SUBSET U /\ IsSum(Of(Rest(s)), Rest(s), w)
  <2>1. Some(s) \in s
    BY <1>4 DEF Some
  <2>2. Rest(s) \in SUBSET U /\ Rest(s) # U
    BY <2>1 DEF Rest
  <2>3. \E g : IsSum(g, Rest(s), w)
    BY <1>3, <2>2
  <2> HIDE DEF T
  <2> QED BY <2>2, <2>3
<1>5. ASSUME NEW s \in SUBSET U, s # {}
      PROVE  v[Rest(s)] = Of(Rest(s))[Rest(s)]
  <2> DEFINE r == Rest(s)
  <2>1. IsSum(Of(r), r, w) /\ r \in SUBSET U
    BY <1>4, <1>5
  <2>2. CASE r = {}
    <3>1. Of(r)[r] = 0
      <4> HIDE DEF Of, r, T
      <4> QED BY <2>1, <2>2 DEF IsSum
    <3>2. v[r] = 0
      BY <2>1, <2>2
    <3> QED BY <3>1, <3>2
  <2>3. CASE r # {}
    <3>1. IsSum(Of(Rest(r)), Rest(r), w)
      <4> HIDE DEF Of, r, T
      <4> QED BY <2>1, <2>3, <1>4
    <3>2. Rest(r) \subseteq r /\ Rest(r) \subseteq Rest(r)
      BY DEF Rest
    <3>3. Of(r)[Rest(r)] = Of(Rest(r))[Rest(r)]
      <4>1. IsFiniteSet(Rest(r))
        <5>1. Rest(r) \in SUBSET S
          BY <2>1, <3>2, <1>3
        <5> HIDE DEF r, Of
        <5> QED BY <5>1, FS_Subset
      <4> DEFINE q == Rest(r)
      <4>2. /\ IsSum(Of(r), r, w) /\ IsSum(Of(q), q, w)
            /\ q \subseteq r /\ q \subseteq q /\ IsFiniteSet(q)
        BY <2>1, <3>1, <3>2, <4>1
      <4> HIDE DEF Of, r, T, q
      <4>3. Of(r)[q] = Of(q)[q]
        BY <4>2, SumUnique
      <4> QED BY <4>3 DEF q
    <3>4. Of(r)[r] = w[Some(r)] + Of(r)[Rest(r)]
      <4> HIDE DEF Of, r, T
      <4> QED BY <2>1, <2>3 DEF IsSum
    <3>5. v[r] = w[Some(r)] + Of(Rest(r))[Rest(r)]
      <4> HIDE DEF Of, r, T
      <4> QED BY <2>1, <2>3
    <3> QED BY <3>3, <3>4, <3>5
  <2> QED BY <2>2, <2>3
<1>6. IsSum(v, U, w)
  <2>1. ASSUME NEW s \in SUBSET U
        PROVE  v[s] = IF s = {} THEN 0 ELSE w[Some(s)] + v[Rest(s)]
    <3> HIDE DEF Of, T
    <3> QED BY <1>5
  <2>2. v = [s \in SUBSET U |-> v[s]]
    OBVIOUS
  <2> HIDE DEF v
  <2> QED BY <2>1, <2>2 DEF IsSum
<1> QED BY <1>2, <1>6

(* What any function of this form is. *)
LEMMA SumIs ==
  ASSUME NEW U, NEW S, IsFiniteSet(S), S \subseteq U, NEW w, NEW g, IsSum(g, U, w)
  PROVE  Sum(w, S) = g[S]
<1> DEFINE f == CHOOSE h : IsSum(h, S, w)
<1>1. IsSum(f, S, w)
  BY SumExists
<1>2. Sum(w, S) = f[S]
  BY DEF Sum
<1> HIDE DEF f
<1>3. f[S] = g[S]
  <2>1. S \subseteq S
    OBVIOUS
  <2> QED BY <1>1, <2>1, SumUnique
<1> QED BY <1>2, <1>3

LEMMA SumEmpty ==
  ASSUME NEW w
  PROVE  Sum(w, {}) = 0
<1>1. IsFiniteSet({})
  BY FS_EmptySet
<1>2. PICK g : IsSum(g, {}, w)
  BY <1>1, SumExists
<1>3. Sum(w, {}) = g[{}]
  BY <1>1, <1>2, SumIs
<1> QED BY <1>2, <1>3 DEF IsSum

LEMMA SumStep ==
  ASSUME NEW S, IsFiniteSet(S), S # {}, NEW w
  PROVE  Some(S) \in S /\ Sum(w, S) = w[Some(S)] + Sum(w, Rest(S))
<1>1. Some(S) \in S
  BY DEF Some
<1>2. PICK g : IsSum(g, S, w)
  BY SumExists
<1>3. Sum(w, S) = g[S]
  BY <1>2, SumIs
<1>4. Rest(S) \subseteq S /\ IsFiniteSet(Rest(S))
  BY FS_Subset DEF Rest
<1>5. Sum(w, Rest(S)) = g[Rest(S)]
  BY <1>2, <1>4, SumIs
<1>6. g[S] = w[Some(S)] + g[Rest(S)]
  BY <1>2 DEF IsSum
<1> QED BY <1>1, <1>3, <1>5, <1>6

LEMMA SumInt ==
  ASSUME NEW S, IsFiniteSet(S), NEW w, \A x \in S : w[x] \in Int
  PROVE  Sum(w, S) \in Int
<1> DEFINE T == {s \in SUBSET S : Sum(w, s) \notin Int}
<1>1. SUFFICES ASSUME T # {} PROVE FALSE
  <2>1. S \in SUBSET S
    OBVIOUS
  <2> QED BY <2>1
<1>2. PICK s \in T : \A r \in T : ~(r \subseteq s /\ r # s)
  <2>1. T \in SUBSET SUBSET S
    OBVIOUS
  <2> HIDE DEF T
  <2> QED BY <1>1, <2>1, Minimal
<1>3. IsFiniteSet(s)
  BY FS_Subset
<1>4. s # {}
  <2>1. Sum(w, s) \notin Int
    BY <1>2
  <2> QED BY <2>1, SumEmpty
<1>5. Some(s) \in s /\ Sum(w, s) = w[Some(s)] + Sum(w, Rest(s))
  BY <1>3, <1>4, SumStep
<1>6. Sum(w, Rest(s)) \in Int
  BY <1>2, <1>5 DEF Rest
<1> QED BY <1>2, <1>5, <1>6

(* Any element may be taken first. *)
LEMMA SumWithout ==
  ASSUME NEW S, IsFiniteSet(S), NEW w, \A x \in S : w[x] \in Int, NEW e \in S
  PROVE  Sum(w, S) = w[e] + Sum(w, S \ {e})
<1> DEFINE T == {s \in SUBSET S : \E x \in s : Sum(w, s) # w[x] + Sum(w, s \ {x})}
<1>1. SUFFICES ASSUME T # {} PROVE FALSE
  <2>1. S \in SUBSET S
    OBVIOUS
  <2> QED BY <2>1
<1>2. PICK s \in T : \A r \in T : ~(r \subseteq s /\ r # s)
  <2>1. T \in SUBSET SUBSET S
    OBVIOUS
  <2> HIDE DEF T
  <2> QED BY <1>1, <2>1, Minimal
<1>3. PICK x \in s : Sum(w, s) # w[x] + Sum(w, s \ {x})
  BY <1>2
<1>4. IsFiniteSet(s) /\ s \in SUBSET S
  BY FS_Subset
<1> DEFINE c == Some(s)
           t == (s \ {x}) \ {c}
<1>5. c \in s /\ Sum(w, s) = w[c] + Sum(w, s \ {c})
  BY <1>3, <1>4, SumStep DEF Rest
<1>6. c # x
  BY <1>3, <1>5
<1> HIDE DEF c
<1>7. Sum(w, s \ {c}) = w[x] + Sum(w, (s \ {c}) \ {x})
  <2>1. s \ {c} \in SUBSET S /\ s \ {c} \subseteq s /\ s \ {c} # s /\ x \in s \ {c}
    BY <1>4, <1>5, <1>6
  <2> QED BY <1>2, <2>1
<1>8. Sum(w, s \ {x}) = w[c] + Sum(w, t)
  <2>1. s \ {x} \in SUBSET S /\ s \ {x} \subseteq s /\ s \ {x} # s /\ c \in s \ {x}
    BY <1>4, <1>5, <1>6
  <2> QED BY <1>2, <2>1
<1>9. (s \ {c}) \ {x} = t
  OBVIOUS
<1>10. Sum(w, t) \in Int /\ w[c] \in Int /\ w[x] \in Int
  <2>1. t \in SUBSET S /\ IsFiniteSet(t)
    <3>1. t \in SUBSET S
      BY <1>4
    <3> QED BY <3>1, FS_Subset
  <2> HIDE DEF t
  <2>2. \A y \in t : w[y] \in Int
    BY <2>1
  <2> QED BY <1>4, <1>5, <2>1, <2>2, SumInt
<1>11. Sum(w, s \ {c}) = w[x] + Sum(w, t)
  BY <1>7, <1>9
<1> HIDE DEF t
<1>12. Sum(w, s) = w[c] + (w[x] + Sum(w, t)) /\ Sum(w, s) # w[x] + (w[c] + Sum(w, t))
  BY <1>3, <1>5, <1>8, <1>11
<1> QED BY <1>10, <1>12

(* One more element. *)
LEMMA SumAdd ==
  ASSUME NEW S, IsFiniteSet(S), NEW w, NEW e, e \notin S, \A x \in S \cup {e} : w[x] \in Int
  PROVE  Sum(w, S \cup {e}) = w[e] + Sum(w, S)
<1>1. IsFiniteSet(S \cup {e})
  BY FS_AddElement
<1>2. (S \cup {e}) \ {e} = S
  OBVIOUS
<1> QED BY <1>1, <1>2, SumWithout

(* Weights that agree on a set give it the same sum, smaller ones a        *)
(* smaller sum; and so does a part of the set when no weight is negative.  *)
LEMMA SumSame ==
  ASSUME NEW S, IsFiniteSet(S), NEW v, NEW w, \A x \in S : v[x] = w[x]
  PROVE  Sum(v, S) = Sum(w, S)
<1> DEFINE T == {s \in SUBSET S : Sum(v, s) # Sum(w, s)}
<1>1. SUFFICES ASSUME T # {} PROVE FALSE
  <2>1. S \in SUBSET S
    OBVIOUS
  <2> QED BY <2>1
<1>2. PICK s \in T : \A r \in T : ~(r \subseteq s /\ r # s)
  <2>1. T \in SUBSET SUBSET S
    OBVIOUS
  <2> HIDE DEF T
  <2> QED BY <1>1, <2>1, Minimal
<1>3. IsFiniteSet(s)
  BY FS_Subset
<1>4. s # {}
  BY <1>2, SumEmpty
<1>5. /\ Some(s) \in s /\ Sum(v, s) = v[Some(s)] + Sum(v, Rest(s))
      /\ Sum(w, s) = w[Some(s)] + Sum(w, Rest(s))
  BY <1>3, <1>4, SumStep
<1>6. Sum(v, Rest(s)) = Sum(w, Rest(s))
  BY <1>2, <1>5 DEF Rest
<1> QED BY <1>2, <1>5, <1>6

LEMMA SumNat ==
  ASSUME NEW S, IsFiniteSet(S), NEW w, \A x \in S : w[x] \in Nat
  PROVE  Sum(w, S) \in Nat
<1> DEFINE T == {s \in SUBSET S : Sum(w, s) \notin Nat}
<1>1. SUFFICES ASSUME T # {} PROVE FALSE
  <2>1. S \in SUBSET S
    OBVIOUS
  <2> QED BY <2>1
<1>2. PICK s \in T : \A r \in T : ~(r \subseteq s /\ r # s)
  <2>1. T \in SUBSET SUBSET S
    OBVIOUS
  <2> HIDE DEF T
  <2> QED BY <1>1, <2>1, Minimal
<1>3. IsFiniteSet(s)
  BY FS_Subset
<1>4. s # {}
  <2>1. Sum(w, s) \notin Nat
    BY <1>2
  <2> QED BY <2>1, SumEmpty
<1>5. Some(s) \in s /\ Sum(w, s) = w[Some(s)] + Sum(w, Rest(s))
  BY <1>3, <1>4, SumStep
<1>6. Sum(w, Rest(s)) \in Nat
  BY <1>2, <1>5 DEF Rest
<1> QED BY <1>2, <1>5, <1>6

LEMMA SumPart ==
  ASSUME NEW S, IsFiniteSet(S), NEW w, \A x \in S : w[x] \in Nat, NEW R, R \subseteq S
  PROVE  Sum(w, R) <= Sum(w, S)
<1> DEFINE T == {s \in SUBSET S : R \subseteq s /\ ~(Sum(w, R) <= Sum(w, s))}
<1>1. SUFFICES ASSUME T # {} PROVE FALSE
  <2>1. S \in SUBSET S
    OBVIOUS
  <2> QED BY <2>1
<1>2. PICK s \in T : \A r \in T : ~(r \subseteq s /\ r # s)
  <2>1. T \in SUBSET SUBSET S
    OBVIOUS
  <2> HIDE DEF T
  <2> QED BY <1>1, <2>1, Minimal
<1>3. IsFiniteSet(s) /\ IsFiniteSet(R) /\ \A x \in s : w[x] \in Nat /\ w[x] \in Int
  BY FS_Subset
<1>4. Sum(w, R) \in Nat
  BY <1>3, SumNat
<1>5. s # R
  BY <1>2, <1>4
<1>6. PICK x \in s : x \notin R
  BY <1>2, <1>5
<1>7. Sum(w, s) = w[x] + Sum(w, s \ {x})
  BY <1>3, SumWithout
<1>8. Sum(w, R) <= Sum(w, s \ {x})
  BY <1>2, <1>6
<1>9. Sum(w, s \ {x}) \in Nat
  <2>1. IsFiniteSet(s \ {x})
    BY <1>3, FS_RemoveElement
  <2> QED BY <1>3, <2>1, SumNat
<1>10. w[x] \in Nat
  BY <1>3
<1> QED BY <1>2, <1>4, <1>7, <1>8, <1>9, <1>10

(* Elements may be renamed. *)
LEMMA SumMoved ==
  ASSUME NEW S, IsFiniteSet(S), NEW f, \A x, y \in S : f[x] = f[y] => x = y,
         NEW v, NEW w, \A x \in S : v[f[x]] = w[x] /\ w[x] \in Int
  PROVE  IsFiniteSet({f[x] : x \in S}) /\ Sum(v, {f[x] : x \in S}) = Sum(w, S)
<1> DEFINE Moved(s) == {f[x] : x \in s}
           T == {s \in SUBSET S : ~(IsFiniteSet(Moved(s)) /\ Sum(v, Moved(s)) = Sum(w, s))}
<1>1. SUFFICES ASSUME T # {} PROVE FALSE
  <2>1. S \in SUBSET S
    OBVIOUS
  <2> QED BY <2>1
<1>2. PICK s \in T : \A r \in T : ~(r \subseteq s /\ r # s)
  <2>1. T \in SUBSET SUBSET S
    OBVIOUS
  <2> HIDE DEF T
  <2> QED BY <1>1, <2>1, Minimal
<1>3. IsFiniteSet(s) /\ s \in SUBSET S
  BY FS_Subset
<1>4. s # {}
  <2>1. SUFFICES ASSUME s = {} PROVE FALSE
    OBVIOUS
  <2>2. Moved(s) = {}
    BY <2>1
  <2>3. IsFiniteSet(Moved(s)) /\ Sum(v, Moved(s)) = 0 /\ Sum(w, s) = 0
    BY <2>1, <2>2, SumEmpty, FS_EmptySet
  <2> HIDE DEF Moved
  <2> QED BY <1>2, <2>3
<1>5. PICK c \in s : TRUE
  BY <1>4
<1> DEFINE r == s \ {c}
<1>6. IsFiniteSet(Moved(r)) /\ Sum(v, Moved(r)) = Sum(w, r)
  <2>1. r \in SUBSET S /\ r \subseteq s /\ r # s
    BY <1>3, <1>5
  <2> HIDE DEF Moved, r
  <2> QED BY <1>2, <2>1
<1>7. Moved(s) = Moved(r) \cup {f[c]} /\ f[c] \notin Moved(r)
  BY <1>3, <1>5
<1>8. \A y \in Moved(r) \cup {f[c]} : v[y] \in Int
  BY <1>3, <1>5
<1>9. Sum(w, s) = w[c] + Sum(w, r)
  <2>1. \A x \in s : w[x] \in Int
    BY <1>3
  <2> QED BY <1>3, <1>5, <2>1, SumWithout
<1>10. v[f[c]] = w[c]
  BY <1>3, <1>5
<1> HIDE DEF Moved, r
<1>11. Sum(v, Moved(s)) = v[f[c]] + Sum(v, Moved(r))
  BY <1>6, <1>7, <1>8, SumAdd
<1>12. IsFiniteSet(Moved(s))
  BY <1>6, <1>7, FS_AddElement
<1> QED BY <1>2, <1>6, <1>9, <1>10, <1>11, <1>12

(* The sums of the model in these terms.                                   *)
LeftSum(q, S) == MapThenSumSet(LAMBDA n : q[n].left, S)
LEMMA LeftSumIs ==
  ASSUME NEW q, NEW S, IsFiniteSet(S), NEW w, \A n \in S : w[n] = q[n].left
  PROVE  LeftSum(q, S) = Sum(w, S)
<1> DEFINE F(h) == [s \in SUBSET S |-> IF s = {} THEN 0 ELSE q[Some(s)].left + h[Rest(s)]]
           g == CHOOSE h : h = F(h)
<1>1. \A s \in SUBSET S : s # {} => w[Some(s)] = q[Some(s)].left
  BY DEF Some
<1>2. ASSUME NEW h PROVE h = F(h) <=> IsSum(h, S, w)
  BY <1>1 DEF IsSum
<1>3. \E h : h = F(h)
  BY <1>2, SumExists
<1>4. LeftSum(q, S) = g[S]
  BY DEF LeftSum, MapThenSumSet, MapThenFoldSet, Some, Rest
<1> HIDE DEF F
<1>5. g = F(g)
  BY <1>3
<1> HIDE DEF g
<1>6. IsSum(g, S, w) /\ S \subseteq S
  BY <1>2, <1>5
<1> QED BY <1>4, <1>6, SumIs

QuantitySum(S) == MapThenSumSet(LAMBDA f : f.quantity, S)
LEMMA QuantitySumIs ==
  ASSUME NEW S, IsFiniteSet(S), NEW w, \A f \in S : w[f] = f.quantity
  PROVE  QuantitySum(S) = Sum(w, S)
<1> DEFINE F(h) == [s \in SUBSET S |-> IF s = {} THEN 0 ELSE Some(s).quantity + h[Rest(s)]]
           g == CHOOSE h : h = F(h)
<1>1. \A s \in SUBSET S : s # {} => w[Some(s)] = Some(s).quantity
  BY DEF Some
<1>2. ASSUME NEW h PROVE h = F(h) <=> IsSum(h, S, w)
  BY <1>1 DEF IsSum
<1>3. \E h : h = F(h)
  BY <1>2, SumExists
<1>4. QuantitySum(S) = g[S]
  BY DEF QuantitySum, MapThenSumSet, MapThenFoldSet, Some, Rest
<1> HIDE DEF F
<1>5. g = F(g)
  BY <1>3
<1> HIDE DEF g
<1>6. IsSum(g, S, w) /\ S \subseteq S
  BY <1>2, <1>5
<1> QED BY <1>4, <1>6, SumIs

Signed(o, F) == IF o \in Buys THEN FillsOf(o, F) ELSE -FillsOf(o, F)
PositionSum(S, F) ==
  MapThenSumSet(LAMBDA o : IF o \in Buys THEN FillsOf(o, F) ELSE -FillsOf(o, F), S)
LEMMA PositionSumIs ==
  ASSUME NEW S, IsFiniteSet(S), NEW F, NEW w, \A o \in S : w[o] = Signed(o, F)
  PROVE  PositionSum(S, F) = Sum(w, S)
<1> DEFINE G(h) == [s \in SUBSET S |-> IF s = {} THEN 0 ELSE Signed(Some(s), F) + h[Rest(s)]]
           g == CHOOSE h : h = G(h)
<1>1. \A s \in SUBSET S : s # {} => w[Some(s)] = Signed(Some(s), F)
  BY DEF Some
<1>2. ASSUME NEW h PROVE h = G(h) <=> IsSum(h, S, w)
  BY <1>1 DEF IsSum
<1>3. \E h : h = G(h)
  BY <1>2, SumExists
<1>4. PositionSum(S, F) = g[S]
  BY DEF PositionSum, Signed, MapThenSumSet, MapThenFoldSet, Some, Rest
<1> HIDE DEF G
<1>5. g = G(g)
  BY <1>3
<1> HIDE DEF g
<1>6. IsSum(g, S, w) /\ S \subseteq S
  BY <1>2, <1>5
<1> QED BY <1>4, <1>6, SumIs

LEMMA TotalIs ==
  ASSUME NEW q, IsFiniteSet(DOMAIN q), NEW w, \A n \in DOMAIN q : w[n] = q[n].amount
  PROVE  Total(q) = Sum(w, DOMAIN q)
<1> DEFINE S == DOMAIN q
           F(h) == [s \in SUBSET S |-> IF s = {} THEN 0 ELSE q[Some(s)].amount + h[Rest(s)]]
           g == CHOOSE h : h = F(h)
<1>1. \A s \in SUBSET S : s # {} => w[Some(s)] = q[Some(s)].amount
  BY DEF Some
<1>2. ASSUME NEW h PROVE h = F(h) <=> IsSum(h, S, w)
  BY <1>1 DEF IsSum
<1>3. \E h : h = F(h)
  BY <1>2, SumExists
<1>4. Total(q) = g[S]
  BY DEF Total, FoldSeq, FoldFunction, FoldFunctionOnSet, MapThenFoldSet, Some, Rest
<1> HIDE DEF F
<1>5. g = F(g)
  BY <1>3
<1> HIDE DEF g
<1>6. IsSum(g, S, w) /\ S \subseteq S
  BY <1>2, <1>5
<1> QED BY <1>4, <1>6, SumIs

-----------------------------------------------------------------------------
(* The inductive invariant *)

Entry == [amount : Int, after : Int, at : Moments]
Lot == [stock : Stocks, opened : Nat, settles : Nat, left : Nat]

Rows == ledger \in Seq(Entry) /\ lots \in Seq(Lot) /\ IsFiniteSet(fills)

(* A tick that does anything was started on a day of trading.              *)
Started ==
  /\ clock >= DayLength
  /\ \A p \in Ticks \cup {Desk} :
       procs[p].stage \in {"swept", "listed"} => p # Desk /\ procs[p].now >= DayLength

OrderStates ==
  \A o \in Orders :
    /\ Unwritten(o) => orders[o].filled = 0
    /\ orders[o].status = "PARTIALLY_FILLED" => orders[o].filled > 0
    /\ o \in V3Orders /\ Unwritten(o) => plans[o] = None

(* What a plan's state says of its order, whether the plan has it already  *)
(* or a process has read it and not written it yet.                        *)
Says(o, state) ==
  LET filled == orders[o].filled > 0  status == orders[o].status
  IN  /\ state = "PAPER_FILLED" => status = "FILLED"
      /\ state = "PAPER_PARTIALLY_FILLED" => filled
      /\ state = "PAPER_PARTIAL_CANCELLED" => status = "CANCELLED" /\ filled
      /\ state = "PAPER_PARTIAL_EXPIRED" => status = "EXPIRED" /\ filled
      /\ state = "EXPIRED" => status = "EXPIRED" /\ ~filled
PlansSay == \A o \in V3Orders : Says(o, plans[o])
ReadStatesSay == \A p \in Ticks \cup {Desk} : \A e \in procs[p].seen : Says(e[1], e[2])

(* The fills of an order from snapshots are within the volume of one of    *)
(* them.                                                                   *)
FromSnapshots(o) == {f \in fills : f.order = o /\ f.event \in Snapshots}
WithinSnapshot ==
  \A o \in Orders : FromSnapshots(o) # {} =>
    \E f \in FromSnapshots(o) : FillsOf(o, FromSnapshots(o)) <= Volume[f.event]

-----------------------------------------------------------------------------
(* What the operators of the model give *)

LEMMA LeastOfTwo ==
  ASSUME NEW a \in Int, NEW b \in Int
  PROVE  /\ Min({a, b}) \in {a, b} /\ Min({a, b}) <= a /\ Min({a, b}) <= b
         /\ Max({a, b}) \in {a, b} /\ Max({a, b}) >= a /\ Max({a, b}) >= b
<1>1. \E x \in {a, b} : \A y \in {a, b} : x <= y
  OBVIOUS
<1>2. \E x \in {a, b} : \A y \in {a, b} : x >= y
  OBVIOUS
<1>3. Min({a, b}) \in {a, b} /\ \A y \in {a, b} : Min({a, b}) <= y
  BY <1>1 DEF Min
<1>4. Max({a, b}) \in {a, b} /\ \A y \in {a, b} : Max({a, b}) >= y
  BY <1>2 DEF Max
<1> QED BY <1>3, <1>4

LEMMA LeastOfThree ==
  ASSUME NEW a \in Int, NEW b \in Int, NEW c \in Int
  PROVE  /\ Min({a, b, c}) \in {a, b, c}
         /\ Min({a, b, c}) <= a /\ Min({a, b, c}) <= b /\ Min({a, b, c}) <= c
<1>1. \E x \in {a, b, c} : \A y \in {a, b, c} : x <= y
  OBVIOUS
<1>2. Min({a, b, c}) \in {a, b, c} /\ \A y \in {a, b, c} : Min({a, b, c}) <= y
  BY <1>1 DEF Min
<1> QED BY <1>2

(* A finite set of numbers has a greatest one. *)
LEMMA GreatestOf ==
  ASSUME NEW S, IsFiniteSet(S), S \subseteq Int, S # {}
  PROVE  Max(S) \in S /\ \A y \in S : Max(S) >= y
<1> DEFINE T == {U \in SUBSET S : U # {} /\ ~ \E x \in U : \A y \in U : x >= y}
<1>1. SUFFICES ASSUME T # {} PROVE FALSE
  <2>1. \E x \in S : \A y \in S : x >= y
    OBVIOUS
  <2> QED BY <2>1 DEF Max
<1>2. PICK U \in T : \A V \in T : ~(V \subseteq U /\ V # U)
  <2>1. T \in SUBSET SUBSET S
    OBVIOUS
  <2>2. T # {}
    BY <1>1
  <2>3. IsFiniteSet(S)
    OBVIOUS
  <2> HIDE DEF T
  <2> QED BY ONLY <2>1, <2>2, <2>3, Minimal
<1>3. PICK e \in U : TRUE
  OBVIOUS
<1>4. U \ {e} \in SUBSET S /\ U \ {e} \subseteq U /\ U \ {e} # U /\ U \in SUBSET Int
  BY <1>3
<1>5. U \ {e} # {}
  <2>1. SUFFICES ASSUME U \ {e} = {} PROVE FALSE
    OBVIOUS
  <2>2. \A y \in U : e >= y
    BY <1>3, <1>4, <2>1
  <2> QED BY <1>2, <1>3, <2>2
<1>6. PICK x \in U \ {e} : \A y \in U \ {e} : x >= y
  BY <1>2, <1>4, <1>5
<1>7. CASE x >= e
  BY <1>2, <1>3, <1>4, <1>6, <1>7
<1>8. CASE ~(x >= e)
  <2>1. \A y \in U : e >= y
    BY <1>3, <1>4, <1>6, <1>8
  <2> QED BY <1>2, <1>3, <2>1
<1> QED BY <1>7, <1>8

(* A row inserted moves the rows behind it by one. *)
LEMMA InsertedIs ==
  ASSUME NEW S, NEW seq \in Seq(S), NEW e \in S, NEW k \in 1..(Len(seq) + 1)
  PROVE  LET t == InsertAt(seq, k, e)
         IN  /\ t \in Seq(S) /\ Len(t) = Len(seq) + 1
             /\ \A n \in 1..(Len(seq) + 1) :
                  t[n] = IF n < k THEN seq[n] ELSE IF n = k THEN e ELSE seq[n - 1]
<1> DEFINE a == SubSeq(seq, 1, k - 1)
           b == SubSeq(seq, k, Len(seq))
<1>1. /\ Len(seq) \in Nat /\ k \in Int /\ k - 1 \in Int /\ 1 \in Int
      /\ \A i \in 1..Len(seq) : seq[i] \in S
  BY LenProperties, ElementOfSeq
<1>2. /\ a \in Seq(S) /\ Len(a) = k - 1
      /\ \A i \in 1..(k - 1) : a[i] = seq[i]
  <2>1. \A i \in 1..(k - 1) : seq[i] \in S
    BY <1>1
  <2>2. /\ a \in Seq(S) /\ Len(a) = IF 1 <= k - 1 THEN (k - 1) - 1 + 1 ELSE 0
        /\ \A i \in 1..((k - 1) - 1 + 1) : a[i] = seq[1 + i - 1]
    BY <1>1, <2>1, SubSeqProperties
  <2> QED BY <1>1, <2>2
<1>3. /\ b \in Seq(S) /\ Len(b) = Len(seq) - k + 1
      /\ \A i \in 1..(Len(seq) - k + 1) : b[i] = seq[k + i - 1]
  <2>1. \A i \in k..Len(seq) : seq[i] \in S
    BY <1>1
  <2>2. /\ b \in Seq(S) /\ Len(b) = IF k <= Len(seq) THEN Len(seq) - k + 1 ELSE 0
        /\ \A i \in 1..(Len(seq) - k + 1) : b[i] = seq[k + i - 1]
    BY <1>1, <2>1, SubSeqProperties
  <2> QED BY <1>1, <2>2
<1>4. <<e>> \in Seq(S) /\ Len(<<e>>) = 1 /\ <<e>>[1] = e
  OBVIOUS
<1>5. InsertAt(seq, k, e) = a \o <<e>> \o b
  BY DEF InsertAt
<1> HIDE DEF a, b
<1>6. /\ a \o <<e>> \in Seq(S) /\ Len(a \o <<e>>) = k
      /\ \A i \in 1..k : (a \o <<e>>)[i] = IF i <= k - 1 THEN a[i] ELSE <<e>>[i - (k - 1)]
  <2>1. /\ a \o <<e>> \in Seq(S) /\ Len(a \o <<e>>) = Len(a) + Len(<<e>>)
        /\ \A i \in 1..(Len(a) + Len(<<e>>)) :
             (a \o <<e>>)[i] = IF i <= Len(a) THEN a[i] ELSE <<e>>[i - Len(a)]
    BY <1>2, <1>4, ConcatProperties
  <2> QED BY <1>1, <1>2, <1>4, <2>1
<1> DEFINE c == a \o <<e>>
<1>7. \A i \in 1..k : c[i] = IF i < k THEN seq[i] ELSE e
  BY <1>1, <1>2, <1>4, <1>6
<1>8. c \in Seq(S) /\ Len(c) = k
  BY <1>6
<1> HIDE DEF c
<1>9. /\ c \o b \in Seq(S) /\ Len(c \o b) = Len(c) + Len(b)
      /\ \A i \in 1..(Len(c) + Len(b)) :
           (c \o b)[i] = IF i <= Len(c) THEN c[i] ELSE b[i - Len(c)]
  BY <1>3, <1>8, ConcatProperties
<1>10. Len(c) + Len(b) = Len(seq) + 1
  BY <1>1, <1>3, <1>8
<1>11. ASSUME NEW n \in 1..(Len(seq) + 1)
       PROVE  (c \o b)[n] = IF n < k THEN seq[n] ELSE IF n = k THEN e ELSE seq[n - 1]
  <2>1. CASE n <= k
    <3>1. (c \o b)[n] = c[n]
      BY <1>8, <1>9, <1>10, <2>1
    <3> QED BY <1>1, <1>7, <2>1, <3>1
  <2>2. CASE n > k
    <3>1. (c \o b)[n] = b[n - k]
      BY <1>1, <1>8, <1>9, <1>10, <2>2
    <3>2. n - k \in 1..(Len(seq) - k + 1) /\ k + (n - k) - 1 = n - 1
      BY <1>1, <2>2
    <3>3. b[n - k] = seq[n - 1]
      BY <1>3, <3>2
    <3> QED BY <1>1, <2>2, <3>1, <3>3
  <2>3. n <= k \/ n > k
    BY <1>1
  <2> QED BY <2>1, <2>2, <2>3
<1>12. InsertAt(seq, k, e) = c \o b
  BY <1>5 DEF c
<1> QED BY <1>9, <1>10, <1>11, <1>12

InsertedAt(t, S, seq, e, k) ==
  /\ t \in Seq(S) /\ Len(t) = Len(seq) + 1
  /\ \A n \in 1..(Len(seq) + 1) :
       t[n] = IF n < k THEN seq[n] ELSE IF n = k THEN e ELSE seq[n - 1]
LEMMA InsertionIs ==
  ASSUME NEW S, NEW seq \in Seq(S), NEW e \in S, NEW by, NEW t \in Insertions(seq, e, by)
  PROVE  \E k \in 1..(Len(seq) + 1) : InsertedAt(t, S, seq, e, k)
<1>1. PICK k \in 1..(Len(seq) + 1) : t = InsertAt(seq, k, e)
  BY DEF Insertions
<1>2. LET u == InsertAt(seq, k, e)
      IN  /\ u \in Seq(S) /\ Len(u) = Len(seq) + 1
          /\ \A n \in 1..(Len(seq) + 1) :
               u[n] = IF n < k THEN seq[n] ELSE IF n = k THEN e ELSE seq[n - 1]
  BY ONLY seq \in Seq(S), e \in S, k \in 1..(Len(seq) + 1), InsertedIs
<1>3. InsertedAt(InsertAt(seq, k, e), S, seq, e, k)
  BY ONLY <1>2 DEF InsertedAt
<1> QED BY <1>1, <1>3

LEMMA InsertionsIn ==
  ASSUME NEW S, NEW seq \in Seq(S), NEW e \in S, NEW by, NEW t \in Insertions(seq, e, by)
  PROVE  t \in Seq(S)
<1>1. PICK k \in 1..(Len(seq) + 1) : InsertedAt(t, S, seq, e, k)
  BY InsertionIs
<1> QED BY <1>1 DEF InsertedAt

(* The weights of the lots. *)
Left == [n \in DOMAIN lots |-> lots[n].left]
SettledLots(s, day) == {n \in DOMAIN lots : Settled(lots[n], s, day)}
LotsOf(s) == {n \in DOMAIN lots : lots[n].stock = s}

LEMMA LotSums ==
  ASSUME lots \in Seq(Lot)
  PROVE  /\ IsFiniteSet(DOMAIN lots) /\ DOMAIN lots = 1..Len(lots) /\ Len(lots) \in Nat
         /\ \A n \in DOMAIN lots : lots[n] \in Lot /\ Left[n] \in Nat /\ Left[n] \in Int
         /\ \A S \in SUBSET DOMAIN lots :
              IsFiniteSet(S) /\ LeftSum(lots, S) = Sum(Left, S) /\ Sum(Left, S) \in Nat
         /\ \A s, day : AvailableToSell(s, day) = Sum(Left, SettledLots(s, day))
         /\ \A s : Held(s) = Sum(Left, LotsOf(s))
<1>1. DOMAIN lots = 1..Len(lots) /\ Len(lots) \in Nat
  BY LenProperties
<1>2. IsFiniteSet(DOMAIN lots)
  BY <1>1, FS_Interval
<1>3. \A n \in DOMAIN lots : lots[n] \in Lot /\ Left[n] \in Nat /\ Left[n] \in Int
  <2>1. ASSUME NEW n \in DOMAIN lots PROVE lots[n] \in Lot
    BY <1>1, ElementOfSeq
  <2>2. ASSUME NEW n \in DOMAIN lots PROVE Left[n] = lots[n].left
    BY DEF Left
  <2>3. ASSUME NEW lot \in Lot PROVE lot.left \in Nat /\ lot.left \in Int
    BY DEF Lot
  <2> QED BY <2>1, <2>2, <2>3
<1>4. ASSUME NEW S \in SUBSET DOMAIN lots
      PROVE  IsFiniteSet(S) /\ LeftSum(lots, S) = Sum(Left, S) /\ Sum(Left, S) \in Nat
  <2>1. IsFiniteSet(S)
    BY <1>2, FS_Subset
  <2>2. \A n \in S : Left[n] = lots[n].left /\ Left[n] \in Nat
    BY <1>3 DEF Left
  <2> QED BY <2>1, <2>2, LeftSumIs, SumNat
<1>5. ASSUME NEW s, NEW day
      PROVE  /\ AvailableToSell(s, day) = Sum(Left, SettledLots(s, day))
             /\ Held(s) = Sum(Left, LotsOf(s))
  <2>1. /\ AvailableToSell(s, day) = LeftSum(lots, SettledLots(s, day))
        /\ Held(s) = LeftSum(lots, LotsOf(s))
    BY DEF AvailableToSell, Held, LeftSum, SettledLots, LotsOf
  <2>2. SettledLots(s, day) \in SUBSET DOMAIN lots /\ LotsOf(s) \in SUBSET DOMAIN lots
    BY DEF SettledLots, LotsOf
  <2> QED BY <1>4, <2>1, <2>2
<1> QED BY <1>1, <1>2, <1>3, <1>4, <1>5

(* What a sale takes from a lot. *)
Earlier(s, day, n) == {m \in SettledLots(s, day) : Precedes(m, n)}
Taken(s, day, quantity, n) ==
  IF n \in SettledLots(s, day)
  THEN Min({lots[n].left, Max({0, quantity - Sum(Left, Earlier(s, day, n))})}) ELSE 0

LEMMA AfterSaleIs ==
  ASSUME lots \in Seq(Lot), NEW s, NEW day, NEW quantity \in Int
  PROVE  /\ AfterSale(s, day, quantity) =
              [n \in DOMAIN lots |->
                 [lots[n] EXCEPT !.left = lots[n].left - Taken(s, day, quantity, n)]]
         /\ \A n \in DOMAIN lots : Taken(s, day, quantity, n) \in 0..lots[n].left
         /\ \A n \in SettledLots(s, day) :
              LET rest == quantity - Sum(Left, Earlier(s, day, n))
              IN  Taken(s, day, quantity, n) =
                    IF rest <= 0 THEN 0
                    ELSE IF rest <= lots[n].left THEN rest ELSE lots[n].left
<1>1. ASSUME NEW n \in DOMAIN lots
      PROVE  /\ Earlier(s, day, n) \in SUBSET DOMAIN lots
             /\ LeftSum(lots, Earlier(s, day, n)) = Sum(Left, Earlier(s, day, n))
             /\ Sum(Left, Earlier(s, day, n)) \in Nat
             /\ lots[n].left \in Nat
  <2>1. Earlier(s, day, n) \in SUBSET DOMAIN lots
    BY DEF Earlier, SettledLots
  <2>2. lots[n].left \in Nat
    BY LotSums DEF Lot
  <2> QED BY <2>1, <2>2, LotSums
<1>2. ASSUME NEW n \in SettledLots(s, day)
      PROVE  LET rest == quantity - Sum(Left, Earlier(s, day, n))
             IN  Taken(s, day, quantity, n) =
                   IF rest <= 0 THEN 0
                   ELSE IF rest <= lots[n].left THEN rest ELSE lots[n].left
  <2> DEFINE rest == quantity - Sum(Left, Earlier(s, day, n))
             most == Max({0, rest})
  <2>1. n \in DOMAIN lots
    BY DEF SettledLots
  <2>2. rest \in Int /\ lots[n].left \in Nat
    BY <1>1, <2>1
  <2>3. Taken(s, day, quantity, n) = Min({lots[n].left, most})
    BY DEF Taken
  <2> HIDE DEF rest
  <2>4. most \in {0, rest} /\ most >= 0 /\ most >= rest
    <3>1. 0 \in Int /\ rest \in Int
      BY <2>2
    <3> QED BY ONLY <3>1, LeastOfTwo
  <2> HIDE DEF most
  <2>5. /\ Min({lots[n].left, most}) \in {lots[n].left, most}
        /\ Min({lots[n].left, most}) <= lots[n].left /\ Min({lots[n].left, most}) <= most
    <3> DEFINE here == lots[n].left
    <3>1. here \in Int /\ most \in Int
      BY <2>2, <2>4
    <3> HIDE DEF here
    <3>2. /\ Min({here, most}) \in {here, most}
          /\ Min({here, most}) <= here /\ Min({here, most}) <= most
      BY ONLY <3>1, LeastOfTwo
    <3> QED BY <3>2 DEF here
  <2>6. Taken(s, day, quantity, n) =
          IF rest <= 0 THEN 0 ELSE IF rest <= lots[n].left THEN rest ELSE lots[n].left
    BY <2>2, <2>3, <2>4, <2>5
  <2> QED BY <2>6 DEF rest
<1>3. ASSUME NEW n \in DOMAIN lots
      PROVE  Taken(s, day, quantity, n) \in 0..lots[n].left
  <2>1. CASE n \in SettledLots(s, day)
    BY <1>1, <1>2, <2>1
  <2>2. CASE n \notin SettledLots(s, day)
    BY <1>1, <2>2 DEF Taken
  <2> QED BY <2>1, <2>2
<1>4. AfterSale(s, day, quantity) =
        [n \in DOMAIN lots |->
           [lots[n] EXCEPT !.left = lots[n].left - Taken(s, day, quantity, n)]]
  <2> DEFINE taken(n) == IF n \in SettledLots(s, day)
               THEN Min({lots[n].left, Max({0, quantity - LeftSum(lots, Earlier(s, day, n))})})
               ELSE 0
  <2>1. AfterSale(s, day, quantity) =
          [n \in DOMAIN lots |-> [lots[n] EXCEPT !.left = lots[n].left - taken(n)]]
    BY DEF AfterSale, SettledLots, Earlier, LeftSum
  <2>2. \A n \in DOMAIN lots : taken(n) = Taken(s, day, quantity, n)
    BY <1>1 DEF Taken
  <2> HIDE DEF taken
  <2> QED BY <2>1, <2>2
<1> QED BY <1>2, <1>3, <1>4

LEMMA AfterSaleIn ==
  ASSUME lots \in Seq(Lot), NEW s, NEW day, NEW quantity \in Int
  PROVE  /\ AfterSale(s, day, quantity) \in Seq(Lot)
         /\ DOMAIN AfterSale(s, day, quantity) = DOMAIN lots
         /\ Len(AfterSale(s, day, quantity)) = Len(lots)
<1> DEFINE t == AfterSale(s, day, quantity)
<1>1. ASSUME NEW n \in DOMAIN lots
      PROVE  [lots[n] EXCEPT !.left = lots[n].left - Taken(s, day, quantity, n)] \in Lot
  <2>1. lots[n] \in Lot /\ Taken(s, day, quantity, n) \in 0..lots[n].left
    BY LotSums, AfterSaleIs
  <2>2. lots[n].left \in Nat
    BY <2>1 DEF Lot
  <2>3. lots[n].left - Taken(s, day, quantity, n) \in Nat
    BY <2>1, <2>2
  <2> QED BY <2>1, <2>3 DEF Lot
<1>2. t \in [1..Len(lots) -> Lot]
  BY <1>1, LotSums, AfterSaleIs
<1> HIDE DEF t
<1>3. t \in Seq(Lot)
  BY <1>2, LotSums
<1>4. DOMAIN t = DOMAIN lots /\ Len(t) = Len(lots)
  BY <1>2, <1>3, LotSums, LenProperties
<1> QED BY <1>3, <1>4 DEF t

LEMMA DayType ==
  ASSUME NEW t \in Nat
  PROVE  Day(t) \in Nat
BY PaperAssumption DEF Day

LEMMA MatchIs ==
  ASSUME TypeOK, Rows, NEW o \in Orders, NEW q \in Quotes, NEW now
  PROVE  /\ MatchQuantity(o, q, now) \in Int
         /\ MatchQuantity(o, q, now) <= Remaining(o)
         /\ MatchQuantity(o, q, now) <= Liquidity(o, q)
         /\ o \notin Buys => MatchQuantity(o, q, now) <= AvailableToSell(StockOf[o], Day(now))
<1> DEFINE a == Remaining(o)
           b == Liquidity(o, q)
           c == AvailableToSell(StockOf[o], Day(now))
<1>1. orders[o].filled \in Nat /\ Quantity[o] \in Nat /\ Volume[q] \in Nat
  BY PaperAssumption DEF TypeOK
<1>2. a \in Int /\ b \in Int
  BY <1>1 DEF Remaining, Liquidity
<1>3. c \in Int
  <2>1. lots \in Seq(Lot)
    BY DEF Rows
  <2>2. SettledLots(StockOf[o], Day(now)) \in SUBSET DOMAIN lots
    BY DEF SettledLots
  <2>3. c \in Nat
    BY <2>1, <2>2, LotSums
  <2> QED BY <2>3
<1>4. CASE o \in Buys
  <2>1. MatchQuantity(o, q, now) = Min({a, b})
    <3>1. {a, b} \cup {} = {a, b}
      OBVIOUS
    <3> HIDE DEF a, b
    <3>2. MatchQuantity(o, q, now) = Min({a, b} \cup {})
      BY <1>4 DEF MatchQuantity, a, b
    <3> QED BY <3>1, <3>2
  <2> HIDE DEF a, b, c
  <2>2. MatchQuantity(o, q, now) \in Int /\ MatchQuantity(o, q, now) <= a
        /\ MatchQuantity(o, q, now) <= b
    BY <1>2, <2>1, LeastOfTwo
  <2> QED BY <1>4, <2>2 DEF a, b
<1>5. CASE o \notin Buys
  <2>1. MatchQuantity(o, q, now) = Min({a, b, c})
    <3>1. {a, b} \cup {c} = {a, b, c}
      OBVIOUS
    <3> HIDE DEF a, b, c
    <3>2. MatchQuantity(o, q, now) = Min({a, b} \cup {c})
      BY <1>5 DEF MatchQuantity, a, b, c
    <3> QED BY <3>1, <3>2
  <2> HIDE DEF a, b, c
  <2>2. MatchQuantity(o, q, now) \in Int /\ MatchQuantity(o, q, now) <= a
        /\ MatchQuantity(o, q, now) <= b /\ MatchQuantity(o, q, now) <= c
    <3>1. Min({a, b, c}) \in {a, b, c} /\ Min({a, b, c}) <= a
          /\ Min({a, b, c}) <= b /\ Min({a, b, c}) <= c
      BY ONLY <1>2, <1>3, LeastOfThree
    <3> QED BY <1>2, <1>3, <2>1, <3>1
  <2> QED BY <2>2 DEF a, b, c
<1> QED BY <1>4, <1>5

-----------------------------------------------------------------------------
(* Types *)

OrderRow == [status : Statuses, filled : Nat, created : Moments]
AccountRow == [cash : Int, status : {"ACTIVE", "RECONCILIATION_BLOCKED"}]
FillRow == [order : Orders, event : Quotes, quantity : Nat \ {0}, at : Moments]
Proc == [stage : {"idle", "swept", "listed", "executed", "read", "synced"},
         now : Moments, todo : SUBSET Orders,
         seen : SUBSET (V3Orders \X (ActivePlan \cup EndedPlan))]

TableTypes ==
  /\ orders \in [Orders -> OrderRow] /\ account \in AccountRow
  /\ fills \subseteq FillRow /\ Rows
  /\ plans \in [V3Orders -> ActivePlan \cup EndedPlan \cup {None}]
ProcTypes ==
  /\ clock \in Moments /\ crashes \in 0..MaxCrashes /\ Started
  /\ DOMAIN procs = Ticks \cup {Desk} /\ \A p \in Ticks \cup {Desk} : procs[p] \in Proc
Types == TableTypes /\ ProcTypes

LEMMA TypesGiveTypeOK == TableTypes /\ ProcTypes => TypeOK
<1> SUFFICES ASSUME TableTypes, ProcTypes PROVE TypeOK
  OBVIOUS
<1>1. \A n \in DOMAIN ledger : ledger[n] \in [amount : Int, after : Int, at : Moments]
  <2>1. ledger \in Seq(Entry)
    BY DEF TableTypes, Rows
  <2>2. \A n \in DOMAIN ledger : ledger[n] \in Entry
    BY <2>1, LenProperties, ElementOfSeq
  <2> QED BY <2>2 DEF Entry
<1>2. \A n \in DOMAIN lots :
        lots[n] \in [stock : Stocks, opened : Nat, settles : Nat, left : Nat]
  <2>1. lots \in Seq(Lot)
    BY DEF TableTypes, Rows
  <2>2. \A n \in DOMAIN lots : lots[n] \in Lot
    BY <2>1, LenProperties, ElementOfSeq
  <2> QED BY <2>2 DEF Lot
<1>3. /\ orders \in [Orders -> [status : Statuses, filled : Nat, created : Moments]]
      /\ account \in [cash : Int, status : {"ACTIVE", "RECONCILIATION_BLOCKED"}]
      /\ fills \subseteq [order : Orders, event : Quotes, quantity : Nat \ {0}, at : Moments]
      /\ plans \in [V3Orders -> ActivePlan \cup EndedPlan \cup {None}]
  BY DEF TableTypes, OrderRow, AccountRow, FillRow
<1>4. /\ clock \in Moments /\ crashes \in 0..MaxCrashes
      /\ \A p \in Ticks \cup {Desk} :
           procs[p] \in [stage : {"idle", "swept", "listed", "executed", "read", "synced"},
                         now : Moments, todo : SUBSET Orders,
                         seen : SUBSET (V3Orders \X (ActivePlan \cup EndedPlan))]
  BY DEF ProcTypes, Proc
<1> QED BY <1>1, <1>2, <1>3, <1>4 DEF TypeOK

LEMMA StatusNames ==
  /\ Active \cup Terminal \cup {None} \subseteq Statuses
  /\ Active \cap Terminal = {} /\ None \notin Active \cup Terminal
BY DEF Statuses, Active, Terminal, None

LEMMA SetStatusTypes ==
  ASSUME TableTypes, NEW o \in Orders, NEW status \in Statuses, SetStatus(o, status)
  PROVE  orders' \in [Orders -> OrderRow]
<1>1. orders \in [Orders -> OrderRow]
  BY DEF TableTypes
<1>2. [orders[o] EXCEPT !.status = status] \in OrderRow
  BY <1>1 DEF OrderRow
<1> QED BY <1>1, <1>2 DEF SetStatus

(* What a fill does, with its quantity typed. *)
LEMMA FillIs ==
  ASSUME Types, NEW o \in Orders, NEW q \in Quotes, NEW now \in Moments, Fill(o, q, now)
  PROVE  LET quantity == MatchQuantity(o, q, now)
             net == IF o \in Buys THEN -(quantity * PriceOf[q]) ELSE quantity * PriceOf[q]
         IN  /\ quantity \in Nat \ {0} /\ quantity * PriceOf[q] \in Nat /\ net \in Int
             /\ quantity <= Remaining(o) /\ quantity <= Liquidity(o, q)
             /\ o \notin Buys => quantity <= AvailableToSell(StockOf[o], Day(now))
             /\ Working(o, now) /\ Affordable(o, quantity * PriceOf[q]) /\ ~FilledBy(o, q)
             /\ fills' = fills \cup
                  {[order |-> o, event |-> q, quantity |-> quantity, at |-> now]}
             /\ ledger' \in Insertions(ledger,
                  [amount |-> net, after |-> account.cash + net, at |-> now], "at")
             /\ account' = [account EXCEPT !.cash = account.cash + net]
             /\ o \in Buys => lots' \in Insertions(lots,
                  [stock |-> StockOf[o], opened |-> Day(now),
                   settles |-> Day(now) + SettlementDays, left |-> quantity], "opened")
             /\ o \notin Buys => lots' = AfterSale(StockOf[o], Day(now), quantity)
             /\ orders' = [orders EXCEPT ![o].filled = @ + quantity,
                                         ![o].status = NextStatus(o, quantity)]
             /\ plans' = plans
<1> DEFINE quantity == MatchQuantity(o, q, now)
<1>1. TypeOK /\ Rows
  BY TypesGiveTypeOK DEF Types, TableTypes
<1>2. /\ quantity \in Int /\ quantity <= Remaining(o) /\ quantity <= Liquidity(o, q)
      /\ o \notin Buys => quantity <= AvailableToSell(StockOf[o], Day(now))
  BY <1>1, MatchIs
<1>3. quantity > 0
  BY DEF Fill
<1>4. PriceOf[q] \in Nat
  BY PaperAssumption
<1>5. quantity \in Nat \ {0} /\ quantity * PriceOf[q] \in Nat /\ -(quantity * PriceOf[q]) \in Int
  <2> HIDE DEF quantity
  <2>1. quantity \in Nat \ {0}
    BY <1>2, <1>3
  <2>2. quantity * PriceOf[q] \in Nat
    BY <1>4, <2>1
  <2> QED BY <2>1, <2>2
<1> QED BY <1>2, <1>5 DEF Fill, FreshKey

LEMMA FillTypes ==
  ASSUME Types, NEW o \in Orders, NEW q \in Quotes, NEW now \in Moments, Fill(o, q, now)
  PROVE  TableTypes'
<1> DEFINE quantity == MatchQuantity(o, q, now)
           net == IF o \in Buys THEN -(quantity * PriceOf[q]) ELSE quantity * PriceOf[q]
           fill == [order |-> o, event |-> q, quantity |-> quantity, at |-> now]
           entry == [amount |-> net, after |-> account.cash + net, at |-> now]
           lot == [stock |-> StockOf[o], opened |-> Day(now),
                   settles |-> Day(now) + SettlementDays, left |-> quantity]
<1>1. /\ quantity \in Nat \ {0} /\ net \in Int
      /\ fills' = fills \cup {fill}
      /\ ledger' \in Insertions(ledger, entry, "at")
      /\ account' = [account EXCEPT !.cash = account.cash + net]
      /\ o \in Buys => lots' \in Insertions(lots, lot, "opened")
      /\ o \notin Buys => lots' = AfterSale(StockOf[o], Day(now), quantity)
      /\ orders' = [orders EXCEPT ![o].filled = @ + quantity,
                                  ![o].status = NextStatus(o, quantity)]
      /\ plans' = plans
  BY FillIs
<1>2. /\ orders \in [Orders -> OrderRow] /\ account \in AccountRow /\ fills \subseteq FillRow
      /\ ledger \in Seq(Entry) /\ lots \in Seq(Lot) /\ IsFiniteSet(fills)
      /\ plans \in [V3Orders -> ActivePlan \cup EndedPlan \cup {None}]
  BY DEF Types, TableTypes, Rows
<1> HIDE DEF quantity, net
<1>3. orders' \in [Orders -> OrderRow]
  <2>1. NextStatus(o, quantity) \in Statuses
    BY DEF NextStatus, Statuses, Active, Terminal
  <2>3. orders[o] \in OrderRow /\ orders[o].filled + quantity \in Nat
    <3>1. orders[o] \in OrderRow
      BY <1>2
    <3>2. orders[o].filled \in Nat
      BY <3>1 DEF OrderRow
    <3> QED BY <1>1, <3>1, <3>2
  <2>2. [orders[o] EXCEPT !.filled = @ + quantity, !.status = NextStatus(o, quantity)] \in OrderRow
    BY <2>1, <2>3 DEF OrderRow
  <2> QED BY <1>1, <1>2, <2>2
<1>4. account' \in AccountRow
  BY <1>1, <1>2 DEF AccountRow
<1>5. fills' \subseteq FillRow /\ IsFiniteSet(fills')
  <2>1. fill \in FillRow
    BY <1>1 DEF FillRow
  <2> HIDE DEF fill
  <2> QED BY <1>1, <1>2, <2>1, FS_AddElement
<1>6. ledger' \in Seq(Entry)
  <2>1. entry \in Entry
    BY <1>1, <1>2 DEF Entry, AccountRow
  <2> HIDE DEF entry
  <2> QED BY <1>1, <1>2, <2>1, InsertionsIn
<1>7. lots' \in Seq(Lot)
  <2>1. CASE o \in Buys
    <3>1. now \in Nat /\ SettlementDays \in Nat
      BY PaperAssumption DEF Moments
    <3>2. Day(now) \in Nat
      BY <3>1, DayType
    <3>3. lot \in Lot
      BY <1>1, <3>1, <3>2 DEF Lot, Stocks
    <3> HIDE DEF lot
    <3> QED BY <1>1, <1>2, <2>1, <3>3, InsertionsIn
  <2>2. CASE o \notin Buys
    <3>1. quantity \in Int
      BY <1>1
    <3> QED BY <1>1, <1>2, <2>2, <3>1, AfterSaleIn
  <2> QED BY <2>1, <2>2
<1> QED BY <1>1, <1>2, <1>3, <1>4, <1>5, <1>6, <1>7 DEF TableTypes, Rows

LEMMA ExecuteOneTypes ==
  ASSUME Types, NEW o \in Orders, NEW now \in Moments, ExecuteOne(o, now)
  PROVE  TableTypes'
<1>0. TableTypes
  BY DEF Types
<1>1. CASE Pass(o, now)
  BY <1>0, <1>1 DEF Pass, tables, TableTypes, Rows
<1>2. ASSUME NEW status \in Statuses, SetStatus(o, status),
             UNCHANGED <<account, fills, ledger, lots, plans>>
      PROVE  TableTypes'
  <2>1. orders' \in [Orders -> OrderRow]
    BY <1>0, <1>2, SetStatusTypes
  <2> QED BY <1>0, <1>2, <2>1 DEF TableTypes, Rows
<1>3. {"EXPIRED", "CANCELLED", WaitingStatus(o)} \subseteq Statuses
  BY DEF WaitingStatus, Statuses, Active, Terminal
<1>4. CASE Expire(o, now) \/ Wait(o, now) \/ CancelRemainder(o, now)
  BY <1>2, <1>3, <1>4 DEF Expire, Wait, CancelRemainder
<1>5. ASSUME NEW q \in Quotes, Fill(o, q, now) PROVE TableTypes'
  BY <1>5, FillTypes
<1> QED BY <1>1, <1>4, <1>5 DEF ExecuteOne

LEMMA PlanStateIn ==
  \A o : PlanState(o) \in ActivePlan \cup EndedPlan
BY DEF PlanState, ActivePlan, EndedPlan

LEMMA AfterCancelIn ==
  ASSUME TableTypes, NEW o \in Orders, NEW run
  PROVE  AfterCancel(o, run) \in OrderRow
<1>1. orders[o] \in OrderRow
  BY DEF TableTypes
<1>2. [orders[o] EXCEPT !.status = "CANCELLED"] \in OrderRow
  BY <1>1 DEF OrderRow, Statuses, Terminal
<1> QED BY <1>1, <1>2 DEF AfterCancel

LEMMA PlanAfterCancelIn ==
  ASSUME TableTypes, NEW o \in V3Orders, NEW run
  PROVE  PlanAfterCancel(o, run) \in ActivePlan \cup EndedPlan \cup {None}
<1>1. plans[o] \in ActivePlan \cup EndedPlan \cup {None}
  BY DEF TableTypes
<1>2. {"PAPER_PARTIAL_CANCELLED", "CANCELLED"} \subseteq EndedPlan
  BY DEF EndedPlan
<1> QED BY <1>1, <1>2 DEF PlanAfterCancel

LEMMA WrittenIn ==
  ASSUME clock \in Moments, NEW status \in Statuses
  PROVE  Written(status) \in OrderRow
BY DEF Written, OrderRow

LEMMA TypesInit == Init => Types
<1> SUFFICES ASSUME Init PROVE Types
  OBVIOUS
<1>1. /\ DayLength \in Moments /\ 0 \in Moments /\ 0 \in 0..MaxCrashes
      /\ Deposit \in Int /\ DayLength >= DayLength
  BY PaperAssumption DEF Moments
<1>2. [status |-> None, filled |-> 0, created |-> 0] \in OrderRow
  BY <1>1 DEF OrderRow, Statuses
<1>3. ledger \in Seq(Entry)
  <2>1. [amount |-> Deposit, after |-> Deposit, at |-> 0] \in Entry
    BY <1>1 DEF Entry
  <2> QED BY <2>1 DEF Init
<1>4. lots \in Seq(Lot) /\ IsFiniteSet(fills)
  BY FS_EmptySet DEF Init
<1>5. TableTypes
  <2>1. account \in AccountRow /\ orders \in [Orders -> OrderRow] /\ fills \subseteq FillRow
    BY <1>1, <1>2 DEF Init, AccountRow
  <2>2. plans \in [V3Orders -> ActivePlan \cup EndedPlan \cup {None}]
    BY DEF Init
  <2> QED BY <1>3, <1>4, <2>1, <2>2 DEF TableTypes, Rows
<1>6. ProcTypes
  <2>1. Idle \in Proc
    BY <1>1 DEF Idle, Proc
  <2>2. \A p \in Ticks \cup {Desk} : procs[p] = Idle
    BY DEF Init
  <2>3. Idle.stage \notin {"swept", "listed"}
    BY DEF Idle
  <2>4. Started
    BY <1>1, <2>2, <2>3 DEF Started, Init
  <2> QED BY <1>1, <2>1, <2>4 DEF ProcTypes, Init
<1> QED BY <1>5, <1>6 DEF Types

(* A process that moves on and leaves the clock alone.                     *)
LEMMA ProcMoves ==
  ASSUME ProcTypes, NEW p \in Ticks \cup {Desk}, NEW r \in Proc,
         r.stage \in {"swept", "listed"} => p # Desk /\ r.now >= DayLength,
         procs' = [procs EXCEPT ![p] = r], clock' = clock, crashes' \in 0..MaxCrashes
  PROVE  ProcTypes'
<1>1. \A x \in Ticks \cup {Desk} : procs'[x] = IF x = p THEN r ELSE procs[x]
  BY DEF ProcTypes
<1>2. \A x \in Ticks \cup {Desk} : procs'[x] \in Proc
  BY <1>1 DEF ProcTypes
<1>3. DOMAIN procs' = Ticks \cup {Desk}
  BY DEF ProcTypes
<1>4. Started'
  BY <1>1 DEF Started, ProcTypes
<1> QED BY <1>2, <1>3, <1>4 DEF ProcTypes

LEMMA TypesNext == Types /\ [Next]_vars => Types'
<1> SUFFICES ASSUME Types, [Next]_vars PROVE Types'
  OBVIOUS
<1>0. TableTypes /\ ProcTypes
  BY DEF Types
<1>1. /\ orders \in [Orders -> OrderRow] /\ account \in AccountRow /\ fills \subseteq FillRow
      /\ Rows /\ plans \in [V3Orders -> ActivePlan \cup EndedPlan \cup {None}]
  BY <1>0 DEF TableTypes
<1>2. /\ clock \in Moments /\ crashes \in 0..MaxCrashes /\ clock >= DayLength
      /\ \A p \in Ticks \cup {Desk} : procs[p] \in Proc
  BY <1>0 DEF ProcTypes, Started
<1>3. ASSUME UNCHANGED tables PROVE TableTypes'
  BY <1>0, <1>3 DEF tables, TableTypes, Rows
<1>4. ASSUME UNCHANGED <<clock, procs, crashes>> PROVE ProcTypes'
  BY <1>0, <1>4 DEF ProcTypes, Started
<1>5. ASSUME orders' \in [Orders -> OrderRow],
             UNCHANGED <<account, fills, ledger, lots>>,
             plans' \in [V3Orders -> ActivePlan \cup EndedPlan \cup {None}]
      PROVE  TableTypes'
  BY <1>1, <1>5 DEF TableTypes, Rows
<1>6. Idle \in Proc /\ Idle.stage = "idle"
  BY PaperAssumption DEF Idle, Proc, Moments
<1>7. ASSUME NEW p \in Ticks \cup {Desk}, SyncRead(p) PROVE Types'
  <2> DEFINE r == [procs[p] EXCEPT !.stage = "read",
                     !.seen = {<<o, PlanState(o)>> : o \in {b \in Joined : PlanState(b) # plans[b]}}]
  <2>1. {<<o, PlanState(o)>> : o \in {b \in Joined : PlanState(b) # plans[b]}}
          \in SUBSET (V3Orders \X (ActivePlan \cup EndedPlan))
    BY PlanStateIn DEF Joined
  <2>2. r \in Proc /\ r.stage = "read"
    BY <1>2, <2>1 DEF Proc
  <2>3. procs' = [procs EXCEPT ![p] = r] /\ clock' = clock /\ crashes' \in 0..MaxCrashes
    BY <1>2, <1>7 DEF SyncRead
  <2> HIDE DEF r
  <2>4. ProcTypes'
    BY <1>0, <2>2, <2>3, ProcMoves
  <2>5. TableTypes'
    BY <1>3, <1>7 DEF SyncRead
  <2> QED BY <2>4, <2>5 DEF Types
<1>8. ASSUME NEW p \in Ticks \cup {Desk}, SyncWrite(p) PROVE Types'
  <2> DEFINE r == IF p = Desk THEN [Idle EXCEPT !.stage = "synced"] ELSE Idle
             of(o) == CHOOSE e \in procs[p].seen : e[1] = o
  <2>1. r \in Proc /\ r.stage \notin {"swept", "listed"}
    BY <1>6 DEF Proc
  <2>2. procs' = [procs EXCEPT ![p] = r] /\ clock' = clock /\ crashes' \in 0..MaxCrashes
    BY <1>2, <1>8 DEF SyncWrite
  <2>3. ASSUME NEW o \in V3Orders, \E e \in procs[p].seen : e[1] = o
        PROVE  of(o)[2] \in ActivePlan \cup EndedPlan \cup {None}
    <3>1. of(o) \in procs[p].seen
      BY <2>3
    <3>2. procs[p].seen \subseteq V3Orders \X (ActivePlan \cup EndedPlan)
      BY <1>2 DEF Proc
    <3> HIDE DEF of
    <3> QED BY <3>1, <3>2
  <2>4. plans' = [o \in V3Orders |->
          IF Writable(o) /\ \E e \in procs[p].seen : e[1] = o THEN of(o)[2] ELSE plans[o]]
    BY <1>8 DEF SyncWrite
  <2> HIDE DEF r, of
  <2>5. plans' \in [V3Orders -> ActivePlan \cup EndedPlan \cup {None}]
    BY <1>1, <2>3, <2>4
  <2>6. TableTypes'
    BY <1>1, <1>5, <1>8, <2>5 DEF SyncWrite
  <2>7. ProcTypes'
    BY <1>0, <2>1, <2>2, ProcMoves
  <2> QED BY <2>6, <2>7 DEF Types
<1>9. ASSUME NEW t \in Ticks, TickStep(t) PROVE Types'
  <2>0. t \in Ticks \cup {Desk} /\ t # Desk /\ procs[t] \in Proc
    BY <1>2, PaperAssumption
  <2>1. CASE Sweep(t)
    <3> DEFINE r == [Idle EXCEPT !.stage = IF SessionOpen(clock) THEN "swept" ELSE "executed",
                                 !.now = clock]
    <3>1. r \in Proc /\ r.now = clock
      BY <1>2, <1>6 DEF Proc
    <3>2. procs' = [procs EXCEPT ![t] = r] /\ clock' = clock /\ crashes' \in 0..MaxCrashes
      BY <1>2, <2>1 DEF Sweep
    <3> HIDE DEF r
    <3>3. ProcTypes'
      BY <1>0, <1>2, <2>0, <3>1, <3>2, ProcMoves
    <3>4. \A o \in Orders : [orders[o] EXCEPT !.status = "EXPIRED"] \in OrderRow
      BY <1>1 DEF OrderRow, Statuses, Terminal
    <3>5. orders' \in [Orders -> OrderRow]
      BY <1>1, <2>1, <3>4 DEF Sweep
    <3>6. TableTypes'
      BY <1>1, <1>5, <2>1, <3>5 DEF Sweep
    <3> QED BY <3>3, <3>6 DEF Types
  <2>2. CASE List(t)
    <3> DEFINE r == [procs[t] EXCEPT !.stage = "listed", !.todo = {o \in Orders : IsActive(o)}]
    <3>1. r \in Proc /\ r.now >= DayLength
      BY <1>0, <2>0, <2>2 DEF List, Proc, ProcTypes, Started
    <3>2. procs' = [procs EXCEPT ![t] = r] /\ clock' = clock /\ crashes' \in 0..MaxCrashes
      BY <1>2, <2>2 DEF List
    <3> HIDE DEF r
    <3>3. ProcTypes'
      BY <1>0, <2>0, <3>1, <3>2, ProcMoves
    <3>4. TableTypes'
      BY <1>3, <2>2 DEF List
    <3> QED BY <3>3, <3>4 DEF Types
  <2>3. CASE Execute(t)
    <3>1. PICK o \in Oldest(procs[t].todo) :
            /\ ExecuteOne(o, procs[t].now)
            /\ procs' = [procs EXCEPT ![t].todo = @ \ {o}]
      BY <2>3 DEF Execute
    <3> DEFINE r == [procs[t] EXCEPT !.todo = @ \ {o}]
    <3>2. o \in Orders /\ procs[t].now \in Moments
      BY <2>0, <3>1 DEF Oldest, Proc
    <3>3. r \in Proc /\ r.now = procs[t].now /\ procs[t].now >= DayLength
      BY <1>0, <2>0, <2>3 DEF Execute, Proc, ProcTypes, Started
    <3>4. procs' = [procs EXCEPT ![t] = r] /\ clock' = clock /\ crashes' \in 0..MaxCrashes
      BY <1>2, <2>3, <3>1 DEF Execute
    <3> HIDE DEF r
    <3>5. ProcTypes'
      BY <1>0, <2>0, <3>3, <3>4, ProcMoves
    <3>6. TableTypes'
      BY <3>1, <3>2, ExecuteOneTypes
    <3> QED BY <3>5, <3>6 DEF Types
  <2>4. CASE SyncRead(t) \/ SyncWrite(t)
    BY <1>7, <1>8, <2>0, <2>4
  <2> QED BY <1>9, <2>1, <2>2, <2>3, <2>4 DEF TickStep
<1>10. ASSUME NEW p \in Ticks \cup {Desk}, Crash(p) PROVE Types'
  <2>1. crashes' \in 0..MaxCrashes
    BY <1>2, <1>10, PaperAssumption DEF Crash
  <2>2. ProcTypes'
    BY <1>0, <1>6, <1>10, <2>1, ProcMoves DEF Crash
  <2> QED BY <1>3, <1>10, <2>2 DEF Crash, Types
<1>11. CASE DeskStart
  <2> DEFINE r == [procs[Desk] EXCEPT !.stage = "executed"]
  <2>1. r \in Proc /\ r.stage = "executed"
    BY <1>2 DEF Proc
  <2>2. procs' = [procs EXCEPT ![Desk] = r] /\ clock' = clock /\ crashes' \in 0..MaxCrashes
    BY <1>2, <1>11 DEF DeskStart, Goes
  <2> HIDE DEF r
  <2>3. ProcTypes'
    BY <1>0, <2>1, <2>2, ProcMoves
  <2> QED BY <1>3, <1>11, <2>3 DEF DeskStart, Types
<1>12. CASE Freeze
  <2>1. orders' \in [Orders -> OrderRow]
    BY <1>0, <1>12, AfterCancelIn DEF Freeze
  <2>2. plans' \in [V3Orders -> ActivePlan \cup EndedPlan \cup {None}]
    BY <1>0, <1>12, PlanAfterCancelIn DEF Freeze
  <2> QED BY <1>4, <1>5, <1>12, <2>1, <2>2 DEF Freeze, Types
<1>13. ASSUME NEW status \in {"QUEUED", "RISK_APPROVED"} PROVE Written(status) \in OrderRow
  BY <1>2, WrittenIn DEF Statuses, Active
<1>14. ASSUME NEW run, Materialize(run) PROVE Types'
  <2>1. PICK S \in SUBSET V3Orders :
          /\ orders' = [o \in Orders |->
               IF o \notin S THEN AfterCancel(o, run)
               ELSE Written(IF o \in Buys THEN "QUEUED" ELSE "RISK_APPROVED")]
          /\ plans' = [o \in V3Orders |-> IF o \in S THEN "PAPER_QUEUED"
                                                     ELSE PlanAfterCancel(o, run)]
    BY <1>14 DEF Materialize
  <2>2. orders' \in [Orders -> OrderRow]
    BY <1>0, <1>13, <2>1, AfterCancelIn
  <2>3. plans' \in [V3Orders -> ActivePlan \cup EndedPlan \cup {None}]
    <3>1. "PAPER_QUEUED" \in ActivePlan
      BY DEF ActivePlan
    <3> QED BY <1>0, <2>1, <3>1, PlanAfterCancelIn
  <2>4. TableTypes'
    BY <1>5, <1>14, <2>2, <2>3 DEF Materialize
  <2>5. ProcTypes'
    <3>1. procs' = [procs EXCEPT ![Desk] = Idle] /\ clock' = clock /\ crashes' \in 0..MaxCrashes
      BY <1>2, <1>14 DEF Materialize
    <3> QED BY <1>0, <1>6, <3>1, ProcMoves
  <2> QED BY <2>4, <2>5 DEF Types
<1>15. ASSUME NEW o \in Orders, Place(o) PROVE Types'
  <2>1. orders' \in [Orders -> OrderRow]
    BY <1>1, <1>13, <1>15 DEF Place
  <2> QED BY <1>1, <1>4, <1>5, <1>15, <2>1 DEF Place, Types
<1>16. ASSUME NEW day, Reconcile(day) PROVE Types'
  <2>1. account' \in AccountRow
    BY <1>1, <1>16 DEF Reconcile, AccountRow
  <2>2. TableTypes'
    BY <1>1, <1>16, <2>1 DEF Reconcile, TableTypes, Rows
  <2> QED BY <1>4, <1>16, <2>2 DEF Reconcile, Types
<1>17. CASE Tick
  <2>1. clock' \in Moments /\ clock' >= DayLength
    BY <1>2, <1>17, PaperAssumption DEF Tick, Moments
  <2>2. ProcTypes'
    BY <1>0, <1>17, <2>1 DEF Tick, ProcTypes, Started
  <2> QED BY <1>3, <1>17, <2>2 DEF Tick, Types
<1>18. CASE UNCHANGED vars
  BY <1>3, <1>4, <1>18 DEF vars, tables, Types
<1>19. Desk \in Ticks \cup {Desk}
  OBVIOUS
<1> QED
  BY <1>7, <1>8, <1>9, <1>10, <1>11, <1>12, <1>14, <1>15, <1>16, <1>17, <1>18, <1>19 DEF Next

(* Every row and everything a process keeps has its type, whichever ticks  *)
(* overlap or die (execution.py, ledger.py, paper_execution.py).           *)
THEOREM PaperTypes == Spec => []TypeOK
<1>1. Types => TypeOK
  BY TypesGiveTypeOK DEF Types
<1> QED BY <1>1, TypesInit, TypesNext, PTL DEF Spec

-----------------------------------------------------------------------------
(* What one step may do to an order and to its plan                        *)

Ended(o) == \E status \in {"EXPIRED", "CANCELLED"} :
              orders'[o] = [orders[o] EXCEPT !.status = status]
Waits(o) == orders'[o] = [orders[o] EXCEPT !.status = WaitingStatus(o)]
Filled(o) == \E n \in Nat \ {0} :
  orders'[o] = [orders[o] EXCEPT !.filled = @ + n, !.status = NextStatus(o, n)]
IsPlaced(o) == \E status \in {"QUEUED", "RISK_APPROVED"} : orders'[o] = Written(status)

OrderChange(o) ==
  \/ orders'[o] = orders[o]
  \/ IsActive(o) /\ (Ended(o) \/ Waits(o) \/ Filled(o))
  \/ Unwritten(o) /\ IsPlaced(o)

PlanChange(o) ==
  \/ plans'[o] = plans[o]
  \/ /\ plans[o] \in ActivePlan /\ orders' = orders
     /\ \E p \in Ticks \cup {Desk} : \E e \in procs[p].seen : e[1] = o /\ plans'[o] = e[2]
  \/ /\ plans[o] \in ActivePlan
     /\ \/ plans'[o] = "CANCELLED"
        \/ /\ plans'[o] = "PAPER_PARTIAL_CANCELLED"
           /\ orders[o].filled > 0 /\ orders'[o] = [orders[o] EXCEPT !.status = "CANCELLED"]
  \/ Unwritten(o) /\ IsPlaced(o) /\ plans'[o] = "PAPER_QUEUED"

LEMMA AfterCancelIs ==
  ASSUME NEW o \in Orders, NEW run, orders'[o] = AfterCancel(o, run)
  PROVE  OrderChange(o)
BY DEF AfterCancel, CancelledBy, OrderChange, Ended

LEMMA ExecuteOneChanges ==
  ASSUME Types, NEW o \in Orders, NEW now \in Moments, ExecuteOne(o, now)
  PROVE  (\A x \in Orders : OrderChange(x)) /\ plans' = plans
<1>1. orders \in [Orders -> OrderRow]
  BY DEF Types, TableTypes
<1>2. CASE Pass(o, now)
  BY <1>2 DEF Pass, tables, OrderChange
<1>3. ASSUME NEW status, status \in {"EXPIRED", "CANCELLED"} \/ status = WaitingStatus(o),
             SetStatus(o, status), StillActive(o)
      PROVE  \A x \in Orders : OrderChange(x)
  <2>1. \A x \in Orders : x # o => orders'[x] = orders[x]
    BY <1>1, <1>3 DEF SetStatus
  <2>2. orders'[o] = [orders[o] EXCEPT !.status = status]
    BY <1>1, <1>3 DEF SetStatus
  <2>3. Ended(o) \/ Waits(o)
    BY <1>3, <2>2 DEF Ended, Waits
  <2> QED BY <1>3, <2>1, <2>3 DEF OrderChange, StillActive, IsActive
<1>4. CASE Expire(o, now) \/ Wait(o, now) \/ CancelRemainder(o, now)
  BY <1>3, <1>4 DEF Expire, Wait, CancelRemainder, Working
<1>5. ASSUME NEW q \in Quotes, Fill(o, q, now)
      PROVE  (\A x \in Orders : OrderChange(x)) /\ plans' = plans
  <2> DEFINE n == MatchQuantity(o, q, now)
  <2>1. /\ n \in Nat \ {0} /\ Working(o, now) /\ plans' = plans
        /\ orders' = [orders EXCEPT ![o].filled = @ + n, ![o].status = NextStatus(o, n)]
    <3>1. Fill(o, q, now)
      BY <1>5
    <3>2. n \in Nat \ {0}
      BY <3>1, FillIs
    <3> QED BY <3>1, <3>2 DEF Fill
  <2> HIDE DEF n
  <2>2. \A x \in Orders : x # o => orders'[x] = orders[x]
    BY <1>1, <2>1
  <2>3. orders'[o] = [orders[o] EXCEPT !.filled = @ + n, !.status = NextStatus(o, n)]
    BY <1>1, <2>1
  <2>4. Filled(o)
    BY <2>1, <2>3 DEF Filled
  <2> QED BY <2>1, <2>2, <2>4 DEF OrderChange, Working, StillActive, IsActive
<1>6. CASE Expire(o, now) \/ Wait(o, now) \/ CancelRemainder(o, now)
  BY <1>4, <1>6 DEF Expire, Wait, CancelRemainder
<1> QED BY <1>2, <1>4, <1>5, <1>6 DEF ExecuteOne

LEMMA PlanAfterCancelIs ==
  ASSUME TableTypes, NEW o \in V3Orders, NEW run,
         orders'[o] = AfterCancel(o, run), plans'[o] = PlanAfterCancel(o, run)
  PROVE  PlanChange(o)
BY DEF PlanAfterCancel, PlanChange, AfterCancel

LEMMA Changes ==
  ASSUME Types, [Next]_vars
  PROVE  (\A o \in Orders : OrderChange(o)) /\ (\A o \in V3Orders : PlanChange(o))
<1>0. V3Orders \subseteq Orders /\ Desk \notin Ticks
  BY PaperAssumption
<1>1. /\ orders \in [Orders -> OrderRow] /\ TableTypes
      /\ \A p \in Ticks \cup {Desk} : procs[p] \in Proc
  BY DEF Types, TableTypes, ProcTypes
<1> DEFINE OrdersChange == \A o \in Orders : OrderChange(o)
           PlansChange == \A o \in V3Orders : PlanChange(o)
<1>2. ASSUME orders' = orders PROVE OrdersChange
  BY <1>2 DEF OrderChange
<1>3. ASSUME plans' = plans PROVE PlansChange
  BY <1>3 DEF PlanChange
<1> HIDE DEF OrdersChange, PlansChange
<1>4. ASSUME NEW p \in Ticks \cup {Desk}, SyncWrite(p) PROVE OrdersChange /\ PlansChange
  <2>1. ASSUME NEW o \in V3Orders PROVE PlanChange(o)
    <3> DEFINE of == CHOOSE e \in procs[p].seen : e[1] = o
    <3>1. plans'[o] = IF Writable(o) /\ \E e \in procs[p].seen : e[1] = o THEN of[2] ELSE plans[o]
      BY <1>4 DEF SyncWrite
    <3>2. CASE Writable(o) /\ \E e \in procs[p].seen : e[1] = o
      <4>1. of \in procs[p].seen /\ of[1] = o
        BY <3>2
      <4> HIDE DEF of
      <4>2. plans'[o] = of[2] /\ plans[o] \in ActivePlan /\ orders' = orders
        BY <1>4, <3>1, <3>2 DEF SyncWrite, Writable
      <4> QED BY <4>1, <4>2 DEF PlanChange
    <3>3. CASE ~(Writable(o) /\ \E e \in procs[p].seen : e[1] = o)
      BY <3>1, <3>3 DEF PlanChange
    <3> QED BY <3>2, <3>3
  <2> QED BY <1>2, <1>4, <2>1 DEF SyncWrite, PlansChange
<1>5. ASSUME NEW p \in Ticks \cup {Desk}, SyncRead(p) PROVE OrdersChange /\ PlansChange
  BY <1>2, <1>3, <1>5 DEF SyncRead, tables
<1>6. ASSUME NEW t \in Ticks, TickStep(t) PROVE OrdersChange /\ PlansChange
  <2>0. t \in Ticks \cup {Desk}
    OBVIOUS
  <2>1. CASE Sweep(t)
    <3>1. \A o \in Orders : orders'[o] = IF Due(o, clock)
            THEN [orders[o] EXCEPT !.status = "EXPIRED"] ELSE orders[o]
      BY <2>1 DEF Sweep
    <3>2. OrdersChange
      BY <3>1 DEF OrdersChange, OrderChange, Ended, Due
    <3> QED BY <1>3, <2>1, <3>2 DEF Sweep
  <2>2. CASE List(t)
    BY <1>2, <1>3, <2>2 DEF List, tables
  <2>3. CASE Execute(t)
    <3>1. PICK o \in Oldest(procs[t].todo) : ExecuteOne(o, procs[t].now)
      BY <2>3 DEF Execute
    <3>2. o \in Orders /\ procs[t].now \in Moments
      BY <1>1, <2>0, <3>1 DEF Oldest, Proc
    <3> QED BY <1>3, <3>1, <3>2, ExecuteOneChanges DEF OrdersChange
  <2> QED BY <1>4, <1>5, <1>6, <2>0, <2>1, <2>2, <2>3 DEF TickStep
<1>7. ASSUME Freeze PROVE OrdersChange /\ PlansChange
  <2>1. \A o \in Orders : orders'[o] = AfterCancel(o, NoRun)
    BY <1>7 DEF Freeze
  <2>2. \A o \in V3Orders : plans'[o] = PlanAfterCancel(o, NoRun)
    BY <1>7 DEF Freeze
  <2>3. OrdersChange
    BY <2>1, AfterCancelIs DEF OrdersChange
  <2>4. PlansChange
    BY <1>0, <1>1, <2>1, <2>2, PlanAfterCancelIs DEF PlansChange
  <2> QED BY <2>3, <2>4
<1>8. ASSUME NEW run, Materialize(run) PROVE OrdersChange /\ PlansChange
  <2>1. PICK S \in SUBSET V3Orders :
          /\ \A o \in S : Unwritten(o)
          /\ orders' = [o \in Orders |->
               IF o \notin S THEN AfterCancel(o, run)
               ELSE Written(IF o \in Buys THEN "QUEUED" ELSE "RISK_APPROVED")]
          /\ plans' = [o \in V3Orders |-> IF o \in S THEN "PAPER_QUEUED"
                                                     ELSE PlanAfterCancel(o, run)]
    BY <1>8 DEF Materialize
  <2>2. ASSUME NEW o \in S PROVE Unwritten(o) /\ IsPlaced(o) /\ plans'[o] = "PAPER_QUEUED"
    BY <1>0, <2>1 DEF IsPlaced
  <2>3. \A o \in Orders \ S : orders'[o] = AfterCancel(o, run)
    BY <2>1
  <2>4. \A o \in V3Orders \ S : plans'[o] = PlanAfterCancel(o, run)
    BY <2>1
  <2>5. OrdersChange
    <3>1. \A o \in S : OrderChange(o)
      BY <2>2 DEF OrderChange
    <3>2. \A o \in Orders \ S : OrderChange(o)
      BY <2>3, AfterCancelIs
    <3> QED BY <3>1, <3>2 DEF OrdersChange
  <2>6. PlansChange
    <3>1. \A o \in S : PlanChange(o)
      BY <2>2 DEF PlanChange
    <3>2. \A o \in V3Orders \ S : PlanChange(o)
      BY <1>0, <1>1, <2>3, <2>4, PlanAfterCancelIs
    <3> QED BY <3>1, <3>2 DEF PlansChange
  <2> QED BY <2>5, <2>6
<1>9. ASSUME NEW o \in Orders, Place(o) PROVE OrdersChange /\ PlansChange
  <2>1. \A x \in Orders : orders'[x] = IF x = o THEN Written("RISK_APPROVED") ELSE orders[x]
    BY <1>1, <1>9 DEF Place
  <2>2. Unwritten(o)
    BY <1>9 DEF Place
  <2>3. OrdersChange
    BY <2>1, <2>2 DEF OrdersChange, OrderChange, IsPlaced
  <2> QED BY <1>3, <1>9, <2>3 DEF Place
<1>10. ASSUME \/ Tick \/ DeskStart \/ UNCHANGED vars
              \/ \E p \in Ticks \cup {Desk} : Crash(p)
              \/ \E day \in 1..Day(Horizon) : Reconcile(day)
       PROVE  OrdersChange /\ PlansChange
  BY <1>2, <1>3, <1>10 DEF Tick, DeskStart, Crash, Reconcile, vars, tables
<1>11. Desk \in Ticks \cup {Desk}
  OBVIOUS
<1>12. OrdersChange /\ PlansChange
  BY <1>4, <1>5, <1>6, <1>7, <1>8, <1>9, <1>10, <1>11 DEF Next
<1> QED BY <1>12 DEF OrdersChange, PlansChange

(* What follows from that for one order.                                   *)
LEMMA OrderFacts ==
  ASSUME Types, OrderStates, NEW o \in Orders, OrderChange(o)
  PROVE  /\ orders[o].status \in Terminal => orders'[o] = orders[o]
         /\ orders'[o].filled >= orders[o].filled
         /\ \/ orders'[o].status = orders[o].status
            \/ orders'[o].status \in Transitions[orders[o].status]
            \/ \E via \in Transitions[orders[o].status] :
                 orders'[o].status \in Transitions[via]
         /\ orders'[o].status = None => orders'[o].filled = 0 /\ Unwritten(o)
         /\ orders'[o].status = "PARTIALLY_FILLED" => orders'[o].filled > 0
<1> DEFINE row == orders[o]
           new == orders'[o]
<1>1. row \in OrderRow
  BY DEF Types, TableTypes
<1>2. row.filled \in Nat /\ row.status \in Statuses
  BY <1>1 DEF OrderRow
<1>3. /\ row.status = None => row.filled = 0
      /\ row.status = "PARTIALLY_FILLED" => row.filled > 0
  BY DEF OrderStates, Unwritten
<1>4. /\ Transitions[None] = {"RISK_APPROVED", "QUEUED"}
      /\ Transitions["RISK_APPROVED"] = {"QUEUED", "CANCELLED", "EXPIRED"}
      /\ Transitions["QUEUED"] = {"PARTIALLY_FILLED"} \cup Terminal
      /\ Transitions["PARTIALLY_FILLED"] = {"PARTIALLY_FILLED"} \cup Terminal
  BY DEF Transitions, Active, Terminal, None
<1>5. CASE new = row
  BY <1>2, <1>3, <1>5 DEF Unwritten
<1>6. CASE IsActive(o) /\ Ended(o)
  <2>1. PICK status \in {"EXPIRED", "CANCELLED"} : new = [row EXCEPT !.status = status]
    BY <1>6 DEF Ended
  <2>2. new.status = status /\ new.filled = row.filled
    BY <1>1, <2>1 DEF OrderRow
  <2>3. row.status \in Active /\ status \in Transitions[row.status]
    BY <1>4, <1>6, <2>1 DEF IsActive, Active, Terminal
  <2> QED BY <1>2, <2>1, <2>2, <2>3 DEF Active, Terminal, None
<1>7. CASE IsActive(o) /\ Waits(o)
  <2>1. new.status = WaitingStatus(o) /\ new.filled = row.filled
    BY <1>1, <1>7 DEF Waits, OrderRow
  <2>2. row.status \in Active
    BY <1>7 DEF IsActive
  <2>3. CASE row.filled > 0
    <3>1. new.status = "PARTIALLY_FILLED"
      BY <2>1, <2>3 DEF WaitingStatus
    <3>2. \/ row.status = "RISK_APPROVED"
          \/ "PARTIALLY_FILLED" \in Transitions[row.status]
      BY <1>4, <2>2 DEF Active
    <3>3. "QUEUED" \in Transitions["RISK_APPROVED"]
          /\ "PARTIALLY_FILLED" \in Transitions["QUEUED"]
      BY <1>4
    <3> QED BY <1>2, <2>1, <2>2, <2>3, <3>1, <3>2, <3>3 DEF Active, Terminal, None
  <2>4. CASE ~(row.filled > 0)
    <3>1. new.status = "QUEUED"
      BY <2>1, <2>4 DEF WaitingStatus
    <3>2. row.status \in {"RISK_APPROVED", "QUEUED"}
      BY <1>3, <2>2, <2>4 DEF Active
    <3> QED BY <1>2, <1>4, <2>1, <2>2, <3>1, <3>2 DEF Active, Terminal, None
  <2> QED BY <2>3, <2>4
<1>8. CASE IsActive(o) /\ Filled(o)
  <2>1. PICK n \in Nat \ {0} :
          new = [row EXCEPT !.filled = @ + n, !.status = NextStatus(o, n)]
    BY <1>8 DEF Filled
  <2>2. /\ new.status = NextStatus(o, n) /\ new.filled = row.filled + n
        /\ new.status \in {"FILLED", "PARTIALLY_FILLED"}
    BY <1>1, <2>1 DEF OrderRow, NextStatus
  <2>3. row.status \in Active
    BY <1>8 DEF IsActive
  <2>4. \/ row.status = "RISK_APPROVED"
        \/ new.status \in Transitions[row.status]
    BY <1>4, <2>2, <2>3 DEF Active, Terminal
  <2>5. "QUEUED" \in Transitions["RISK_APPROVED"] /\ new.status \in Transitions["QUEUED"]
    BY <1>4, <2>2 DEF Terminal
  <2>6. new.filled > 0 /\ new.filled >= row.filled /\ new.status # None
    BY <1>2, <2>1, <2>2 DEF None
  <2> QED BY <2>3, <2>4, <2>5, <2>6 DEF Active, Terminal, None
<1>9. CASE Unwritten(o) /\ IsPlaced(o)
  <2>1. new.status \in {"QUEUED", "RISK_APPROVED"} /\ new.filled = 0
    BY <1>9 DEF IsPlaced, Written
  <2>2. row.status = None /\ row.filled = 0
    BY <1>3, <1>9 DEF Unwritten
  <2> QED BY <1>4, <2>1, <2>2 DEF Terminal, None
<1> QED BY <1>5, <1>6, <1>7, <1>8, <1>9 DEF OrderChange

LEMMA OrderStatesNext == Types /\ OrderStates /\ [Next]_vars => OrderStates'
<1> SUFFICES ASSUME Types, OrderStates, [Next]_vars PROVE OrderStates'
  OBVIOUS
<1>1. (\A o \in Orders : OrderChange(o)) /\ (\A o \in V3Orders : PlanChange(o))
  BY Changes
<1>2. ASSUME NEW o \in Orders
      PROVE  /\ Unwritten(o)' => orders'[o].filled = 0 /\ Unwritten(o)
             /\ orders'[o].status = "PARTIALLY_FILLED" => orders'[o].filled > 0
  BY <1>1, OrderFacts DEF Unwritten
<1>3. ASSUME NEW o \in Orders, o \in V3Orders, Unwritten(o)' PROVE plans'[o] = None
  <2>1. Unwritten(o) /\ plans[o] = None
    BY <1>2, <1>3 DEF OrderStates
  <2>2. plans[o] \notin ActivePlan
    BY <2>1 DEF ActivePlan, None
  <2>3. ~IsPlaced(o)
    BY <1>3 DEF IsPlaced, Written, Unwritten, None
  <2> QED BY <1>1, <1>3, <2>1, <2>2, <2>3 DEF PlanChange
<1> QED BY <1>2, <1>3 DEF OrderStates

(* What is said of an order stays true: orders that ended stay, and a      *)
(* filled quantity never shrinks.                                          *)
LEMMA SaysStays ==
  ASSUME Types, OrderStates, [Next]_vars, NEW o \in V3Orders, NEW state, Says(o, state)
  PROVE  Says(o, state)'
<1>1. o \in Orders
  BY PaperAssumption
<1>2. OrderChange(o)
  BY <1>1, Changes
<1>3. /\ orders[o].status \in Terminal => orders'[o] = orders[o]
      /\ orders'[o].filled >= orders[o].filled
  BY <1>1, <1>2, OrderFacts
<1>4. orders[o].filled \in Nat /\ orders'[o].filled \in Nat
  <2>1. orders \in [Orders -> OrderRow] /\ orders' \in [Orders -> OrderRow]
    BY TypesNext DEF Types, TableTypes
  <2> QED BY <1>1, <2>1 DEF OrderRow
<1>5. /\ state \in {"PAPER_FILLED", "PAPER_PARTIAL_CANCELLED", "PAPER_PARTIAL_EXPIRED", "EXPIRED"}
           => orders[o].status \in Terminal
  BY DEF Says, Terminal
<1>6. CASE state \in {"PAPER_FILLED", "PAPER_PARTIAL_CANCELLED", "PAPER_PARTIAL_EXPIRED", "EXPIRED"}
  BY <1>3, <1>5, <1>6 DEF Says
<1>7. CASE state = "PAPER_PARTIALLY_FILLED"
  BY <1>3, <1>4, <1>7 DEF Says
<1>8. CASE state \notin {"PAPER_FILLED", "PAPER_PARTIAL_CANCELLED", "PAPER_PARTIAL_EXPIRED",
                         "EXPIRED", "PAPER_PARTIALLY_FILLED"}
  BY <1>8 DEF Says
<1> QED BY <1>6, <1>7, <1>8

LEMMA PlanStateSays ==
  ASSUME Types, OrderStates, NEW o \in Orders
  PROVE  Says(o, PlanState(o))
<1>1. orders[o].filled \in Nat
  BY DEF Types, TableTypes, OrderRow
<1>2. orders[o].status = "PARTIALLY_FILLED" => orders[o].filled > 0
  BY DEF OrderStates
<1> QED BY <1>1, <1>2 DEF Says, PlanState

PlanInv == Types /\ OrderStates /\ PlansSay /\ ReadStatesSay

LEMMA PlansSayNext == PlanInv /\ [Next]_vars => PlansSay'
<1> SUFFICES ASSUME PlanInv, [Next]_vars, NEW o \in V3Orders PROVE Says(o, plans[o])'
  BY DEF PlansSay
<1>1. Types /\ OrderStates /\ PlansSay /\ ReadStatesSay
  BY DEF PlanInv
<1>2. o \in Orders /\ orders[o] \in OrderRow
  BY <1>1, PaperAssumption DEF Types, TableTypes
<1>3. Says(o, plans[o])
  BY <1>1 DEF PlansSay
<1>4. CASE plans'[o] = plans[o]
  <2>1. Says(o, plans[o]) => \A state : state = plans[o] => Says(o, state)'
    BY <1>1, SaysStays
  <2> QED BY <1>3, <1>4, <2>1 DEF Says
<1>5. ASSUME NEW p \in Ticks \cup {Desk}, NEW e \in procs[p].seen,
             orders' = orders, e[1] = o, plans'[o] = e[2]
      PROVE  Says(o, plans[o])'
  BY <1>1, <1>5 DEF ReadStatesSay, Says
<1>6. CASE plans'[o] = "CANCELLED" \/ plans'[o] = "PAPER_QUEUED"
  BY <1>6 DEF Says
<1>7. CASE /\ plans'[o] = "PAPER_PARTIAL_CANCELLED" /\ orders[o].filled > 0
           /\ orders'[o] = [orders[o] EXCEPT !.status = "CANCELLED"]
  <2>1. orders'[o].status = "CANCELLED" /\ orders'[o].filled > 0
    BY <1>2, <1>7 DEF OrderRow
  <2> QED BY <1>7, <2>1 DEF Says
<1>8. PlanChange(o)
  BY <1>1, Changes
<1> QED BY <1>4, <1>5, <1>6, <1>7, <1>8 DEF PlanChange

(* What a process keeps of the plans: what it reads now, or what it had.   *)
LEMMA SeenChanges ==
  ASSUME Types, [Next]_vars, NEW p \in Ticks \cup {Desk}, NEW e \in procs'[p].seen
  PROVE  \/ e \in procs[p].seen
         \/ \E o \in V3Orders : e = <<o, PlanState(o)>> /\ orders' = orders
<1>1. DOMAIN procs = Ticks \cup {Desk} /\ procs[p] \in Proc
  BY DEF Types, ProcTypes
<1>2. \A x : Idle.seen = {} /\ [Idle EXCEPT !.stage = x].seen = {}
  BY DEF Idle
<1>3. ASSUME NEW x \in Ticks \cup {Desk}, SyncRead(x)
      PROVE  \/ e \in procs[p].seen
             \/ \E o \in V3Orders : e = <<o, PlanState(o)>> /\ orders' = orders
  BY <1>1, <1>3 DEF SyncRead, Joined, tables, Proc
<1>4. ASSUME NEW x \in Ticks \cup {Desk}, SyncWrite(x) \/ Crash(x) PROVE e \in procs[p].seen
  BY <1>1, <1>2, <1>4 DEF SyncWrite, Crash
<1>5. ASSUME NEW t \in Ticks, Sweep(t) PROVE e \in procs[p].seen
  BY <1>1, <1>5 DEF Sweep, Idle
<1>6. ASSUME NEW t \in Ticks, List(t) \/ Execute(t) PROVE e \in procs[p].seen
  BY <1>1, <1>6 DEF List, Execute, Proc
<1>7. ASSUME NEW run, Materialize(run) PROVE e \in procs[p].seen
  BY <1>1, <1>2, <1>7 DEF Materialize
<1>8. CASE DeskStart
  BY <1>1, <1>8 DEF DeskStart, Goes, Proc
<1>9. CASE \/ Tick \/ Freeze \/ UNCHANGED vars
           \/ \E o \in Orders : Place(o)
           \/ \E day \in 1..Day(Horizon) : Reconcile(day)
  BY <1>9 DEF Tick, Freeze, Place, Reconcile, vars
<1>10. Desk \in Ticks \cup {Desk} /\ Ticks \subseteq Ticks \cup {Desk}
  OBVIOUS
<1> QED
  BY <1>3, <1>4, <1>5, <1>6, <1>7, <1>8, <1>9, <1>10 DEF Next, TickStep

LEMMA ReadStatesSayNext == PlanInv /\ [Next]_vars => ReadStatesSay'
<1> SUFFICES ASSUME PlanInv, [Next]_vars, NEW p \in Ticks \cup {Desk}, NEW e \in procs'[p].seen
             PROVE  Says(e[1], e[2])'
  BY DEF ReadStatesSay
<1>1. Types /\ OrderStates /\ ReadStatesSay
  BY DEF PlanInv
<1>2. CASE e \in procs[p].seen
  <2>1. Says(e[1], e[2])
    BY <1>1, <1>2 DEF ReadStatesSay
  <2>2. e[1] \in V3Orders
    BY <1>1, <1>2 DEF Types, ProcTypes, Proc
  <2>3. \A o \in V3Orders : \A state : Says(o, state) => Says(o, state)'
    BY <1>1, SaysStays
  <2> QED BY <2>1, <2>2, <2>3 DEF Says
<1>3. ASSUME NEW o \in V3Orders, e = <<o, PlanState(o)>>, orders' = orders
      PROVE  Says(e[1], e[2])'
  <2>1. Says(o, PlanState(o))
    BY <1>1, PaperAssumption, PlanStateSays
  <2>2. e[1] = o /\ e[2] = PlanState(o)
    BY <1>3
  <2> QED BY <1>3, <2>1, <2>2 DEF Says
<1> QED BY <1>1, <1>2, <1>3, SeenChanges

LEMMA PlanInvAlways == Spec => []PlanInv
<1>1. Init => PlanInv
  <2> SUFFICES ASSUME Init PROVE PlanInv
    OBVIOUS
  <2>1. Types
    BY TypesInit
  <2>2. OrderStates /\ PlansSay
    BY PaperAssumption DEF Init, OrderStates, PlansSay, Unwritten, Says, None
  <2>3. ReadStatesSay
    BY DEF Init, ReadStatesSay, Idle
  <2> QED BY <2>1, <2>2, <2>3 DEF PlanInv
<1>2. PlanInv /\ [Next]_vars => PlanInv'
  BY TypesNext, OrderStatesNext, PlansSayNext, ReadStatesSayNext DEF PlanInv
<1> QED BY <1>1, <1>2, PTL DEF Spec

(* No plan says of its order what is not so (_v3_plan_state and what       *)
(* paper_execution.py writes), however the projections race with the desk  *)
(* and with each other.                                                    *)
THEOREM PlansTellTheTruth == Spec => []PlansAreTrue
<1>1. PlanInv => PlansAreTrue
  BY DEF PlanInv, PlansSay, PlansAreTrue, Says
<1> QED BY <1>1, PlanInvAlways, PTL

(* Orders follow oms.py, and what ended is never touched again, neither an *)
(* order nor a plan.                                                       *)
THEOREM EndsStay == Spec => EndsAreFinal
<1> DEFINE Step ==
      /\ \A o \in Orders :
           LET old == orders[o].status  new == orders'[o].status
           IN  /\ old \in Terminal => orders'[o] = orders[o]
               /\ orders'[o].filled >= orders[o].filled
               /\ \/ new = old
                  \/ new \in Transitions[old]
                  \/ \E via \in Transitions[old] : new \in Transitions[via]
      /\ \A o \in V3Orders : plans[o] \in EndedPlan => plans'[o] = plans[o]
<1>1. PlanInv /\ [Next]_vars => Step
  <2> SUFFICES ASSUME PlanInv, [Next]_vars PROVE Step
    OBVIOUS
  <2>1. Types /\ OrderStates
    BY DEF PlanInv
  <2>2. (\A o \in Orders : OrderChange(o)) /\ (\A o \in V3Orders : PlanChange(o))
    BY <2>1, Changes
  <2>3. \A o \in Orders :
          /\ orders[o].status \in Terminal => orders'[o] = orders[o]
          /\ orders'[o].filled >= orders[o].filled
          /\ \/ orders'[o].status = orders[o].status
             \/ orders'[o].status \in Transitions[orders[o].status]
             \/ \E via \in Transitions[orders[o].status] :
                  orders'[o].status \in Transitions[via]
    BY <2>1, <2>2, OrderFacts
  <2>4. ASSUME NEW o \in V3Orders, plans[o] \in EndedPlan PROVE plans'[o] = plans[o]
    <3>1. plans[o] \notin ActivePlan /\ plans[o] # None
      BY <2>4 DEF EndedPlan, ActivePlan, None
    <3>2. ~Unwritten(o)
      BY <2>1, <3>1, PaperAssumption DEF OrderStates
    <3> QED BY <2>2, <3>1, <3>2 DEF PlanChange
  <2> QED BY <2>3, <2>4
<1>2. Spec => [][Step]_vars
  BY <1>1, PlanInvAlways, PTL DEF Spec
<1> QED BY <1>2 DEF EndsAreFinal

-----------------------------------------------------------------------------
(* One decision buys *)

LEMMA StillWorking ==
  ASSUME Types, [Next]_vars, ~ \E run : Materialize(run),
         NEW o \in V3Orders, IsActive(o)'
  PROVE  IsActive(o)
<1>1. o \in Orders
  BY PaperAssumption
<1>2. orders'[o].status \in Active /\ orders \in [Orders -> OrderRow]
  BY DEF IsActive, Types, TableTypes
<1>3. OrderChange(o)
  BY <1>1, Changes
<1>4. CASE Unwritten(o) /\ IsPlaced(o)
  <2>1. orders'[o] # orders[o]
    BY <1>2, <1>4 DEF Unwritten, Active, None
  <2>2. ASSUME NEW x \in Orders, Place(x) PROVE FALSE
    <3>1. x # o
      BY <2>2 DEF Place
    <3> QED BY <1>1, <1>2, <2>1, <2>2, <3>1 DEF Place
  <2>3. ASSUME NEW x \in Orders, NEW now \in Moments, ExecuteOne(x, now) PROVE FALSE
    <3>1. ~StillActive(o)
      BY <1>4 DEF StillActive, Unwritten, Active, None
    <3>2. CASE x = o
      BY <1>2, <2>1, <2>3, <3>1, <3>2 DEF ExecuteOne, Pass, Expire, Wait, CancelRemainder,
                                          Fill, Working, tables
    <3>3. CASE x # o
      BY <1>1, <1>2, <2>1, <2>3, <3>3 DEF ExecuteOne, Pass, Expire, Wait, CancelRemainder,
                                          Fill, SetStatus, tables
    <3> QED BY <3>2, <3>3
  <2>4. ASSUME NEW t \in Ticks, Execute(t) PROVE FALSE
    <3>1. PICK x \in Oldest(procs[t].todo) : ExecuteOne(x, procs[t].now)
      BY <2>4 DEF Execute
    <3>2. x \in Orders /\ procs[t].now \in Moments
      BY <3>1 DEF Oldest, Types, ProcTypes, Proc
    <3> QED BY <2>3, <3>1, <3>2
  <2>5. ~IsActive(o)
    BY <1>4 DEF IsActive, Unwritten, Active, None
  <2>6. ASSUME NEW t \in Ticks, Sweep(t) PROVE FALSE
    BY <1>1, <2>1, <2>5, <2>6 DEF Sweep, Due
  <2>7. ASSUME Freeze PROVE FALSE
    BY <1>1, <2>1, <2>5, <2>7 DEF Freeze, AfterCancel, CancelledBy
  <2>8. orders' # orders
    BY <2>1
  <2> QED
    BY <2>2, <2>4, <2>6, <2>7, <2>8
       DEF Next, TickStep, List, SyncRead, SyncWrite, Crash, Tick, DeskStart, Reconcile,
           vars, tables
<1> QED BY <1>2, <1>3, <1>4 DEF OrderChange, IsActive, Terminal, Active

LEMMA OneDecisionNext == Types /\ OneDecisionBuys /\ [Next]_vars => OneDecisionBuys'
<1> SUFFICES ASSUME Types, OneDecisionBuys, [Next]_vars,
                    NEW o \in V3Orders \cap Buys, NEW p \in V3Orders \cap Buys,
                    IsActive(o)', IsActive(p)'
             PROVE  RunOf[o] = RunOf[p]
  BY DEF OneDecisionBuys
<1>1. CASE ~ \E run : Materialize(run)
  <2>1. IsActive(o) /\ IsActive(p)
    BY <1>1, StillWorking
  <2> QED BY <2>1 DEF OneDecisionBuys
<1>2. ASSUME NEW run, Materialize(run), NEW x \in V3Orders \cap Buys, IsActive(x)'
      PROVE  RunOf[x] = run
  <2>1. PICK S \in SUBSET V3Orders :
          /\ \A y \in S : RunOf[y] = run
          /\ orders' = [y \in Orders |->
               IF y \notin S THEN AfterCancel(y, run)
               ELSE Written(IF y \in Buys THEN "QUEUED" ELSE "RISK_APPROVED")]
    BY <1>2 DEF Materialize
  <2>2. CASE x \in S
    BY <2>1, <2>2
  <2>3. CASE x \notin S
    <3>1. orders'[x] = AfterCancel(x, run) /\ orders[x] \in OrderRow
      BY <2>1, <2>3, PaperAssumption DEF Types, TableTypes
    <3>2. orders'[x].status \in Active
      BY <1>2 DEF IsActive
    <3>3. x \notin CancelledBy(run)
      <4>1. SUFFICES ASSUME x \in CancelledBy(run) PROVE FALSE
        OBVIOUS
      <4>2. orders'[x].status = "CANCELLED"
        BY <3>1, <4>1 DEF AfterCancel, OrderRow
      <4> QED BY <3>2, <4>2 DEF Active
    <3>4. IsActive(x)
      BY <3>1, <3>2, <3>3 DEF AfterCancel, IsActive
    <3> QED BY <3>3, <3>4 DEF CancelledBy, Stale
  <2> QED BY <2>2, <2>3
<1> QED BY <1>1, <1>2

(* The BUYs at work are those of one V3 decision                           *)
(* (_cancel_superseded_v3_buys), whatever ticks do meanwhile.              *)
THEOREM OneDecision == Spec => []OneDecisionBuys
<1>1. Init => OneDecisionBuys
  BY PaperAssumption DEF Init, OneDecisionBuys, IsActive, Active, None
<1>2. Spec => []Types
  BY TypesInit, TypesNext, PTL DEF Spec
<1> QED BY <1>1, <1>2, OneDecisionNext, PTL DEF Spec

-----------------------------------------------------------------------------
(* More about sums *)

LEMMA SumPlus ==
  ASSUME NEW S, IsFiniteSet(S), NEW u, NEW v, NEW w,
         \A x \in S : v[x] \in Int /\ w[x] \in Int /\ u[x] = v[x] + w[x]
  PROVE  Sum(u, S) = Sum(v, S) + Sum(w, S)
<1> DEFINE T == {s \in SUBSET S : Sum(u, s) # Sum(v, s) + Sum(w, s)}
<1>1. SUFFICES ASSUME T # {} PROVE FALSE
  <2>1. S \in SUBSET S
    OBVIOUS
  <2> QED BY <2>1
<1>2. PICK s \in T : \A r \in T : ~(r \subseteq s /\ r # s)
  <2>1. T \in SUBSET SUBSET S
    OBVIOUS
  <2> HIDE DEF T
  <2> QED BY <1>1, <2>1, Minimal
<1>3. IsFiniteSet(s)
  BY FS_Subset
<1>4. s # {}
  BY <1>2, SumEmpty
<1>5. /\ Some(s) \in s /\ Sum(u, s) = u[Some(s)] + Sum(u, Rest(s))
      /\ Sum(v, s) = v[Some(s)] + Sum(v, Rest(s))
      /\ Sum(w, s) = w[Some(s)] + Sum(w, Rest(s))
  BY <1>3, <1>4, SumStep
<1>6. Sum(u, Rest(s)) = Sum(v, Rest(s)) + Sum(w, Rest(s))
  BY <1>2, <1>5 DEF Rest
<1>7. Sum(v, Rest(s)) \in Int /\ Sum(w, Rest(s)) \in Int
  <2>1. Rest(s) \in SUBSET S
    BY DEF Rest
  <2>2. IsFiniteSet(Rest(s)) /\ \A x \in Rest(s) : v[x] \in Int /\ w[x] \in Int
    BY <2>1, FS_Subset
  <2> QED BY <2>2, SumInt
<1>8. /\ v[Some(s)] \in Int /\ w[Some(s)] \in Int
      /\ u[Some(s)] = v[Some(s)] + w[Some(s)]
  BY <1>5
<1>9. Sum(u, s) # Sum(v, s) + Sum(w, s)
  BY <1>2
<1> QED BY <1>5, <1>6, <1>7, <1>8, <1>9

LEMMA SumZero ==
  ASSUME NEW S, IsFiniteSet(S), NEW w, \A x \in S : w[x] = 0
  PROVE  Sum(w, S) = 0
<1>1. \A x \in S : w[x] \in Int /\ w[x] = w[x] + w[x]
  OBVIOUS
<1>2. Sum(w, S) = Sum(w, S) + Sum(w, S) /\ Sum(w, S) \in Int
  BY <1>1, SumPlus, SumInt
<1> QED BY <1>2

LEMMA SumUnion ==
  ASSUME NEW A, IsFiniteSet(A), NEW B, IsFiniteSet(B), A \cap B = {},
         NEW w, \A x \in A \cup B : w[x] \in Int
  PROVE  Sum(w, A \cup B) = Sum(w, A) + Sum(w, B)
<1> DEFINE T == {s \in SUBSET B : Sum(w, A \cup s) # Sum(w, A) + Sum(w, s)}
<1>1. SUFFICES ASSUME T # {} PROVE FALSE
  <2>1. B \in SUBSET B
    OBVIOUS
  <2> QED BY <2>1
<1>2. PICK s \in T : \A r \in T : ~(r \subseteq s /\ r # s)
  <2>1. T \in SUBSET SUBSET B
    OBVIOUS
  <2> HIDE DEF T
  <2> QED BY <1>1, <2>1, Minimal
<1>3. IsFiniteSet(s) /\ s \in SUBSET B
  BY FS_Subset
<1>4. Sum(w, A) \in Int
  BY SumInt
<1>5. s # {}
  <2>1. SUFFICES ASSUME s = {} PROVE FALSE
    OBVIOUS
  <2>2. A \cup s = A
    BY <2>1
  <2>3. Sum(w, A \cup s) # Sum(w, A) + Sum(w, s)
    BY <1>2
  <2> QED BY <1>4, <2>1, <2>2, <2>3, SumEmpty
<1>6. PICK e \in s : TRUE
  BY <1>5
<1> DEFINE r == s \ {e}
<1>7. /\ r \in SUBSET B /\ r \subseteq s /\ r # s /\ e \notin r /\ e \notin A \cup r
      /\ s = r \cup {e} /\ A \cup s = (A \cup r) \cup {e} /\ w[e] \in Int
      /\ \A x \in (A \cup r) \cup {e} : w[x] \in Int
      /\ \A x \in r \cup {e} : w[x] \in Int
  BY <1>3, <1>6
<1> HIDE DEF r
<1>8. Sum(w, A \cup r) = Sum(w, A) + Sum(w, r)
  BY <1>2, <1>7
<1>9. IsFiniteSet(r) /\ IsFiniteSet(A \cup r)
  <2>1. IsFiniteSet(r)
    BY <1>3, <1>7, FS_Subset
  <2> QED BY <2>1, FS_Union
<1>10. Sum(w, s) = w[e] + Sum(w, r)
  BY <1>7, <1>9, SumAdd
<1>11. Sum(w, A \cup s) = w[e] + Sum(w, A \cup r)
  BY <1>7, <1>9, SumAdd
<1>12. Sum(w, r) \in Int
  BY <1>7, <1>9, SumInt
<1>13. Sum(w, A \cup s) # Sum(w, A) + Sum(w, s)
  BY <1>2
<1> QED BY <1>4, <1>7, <1>8, <1>10, <1>11, <1>12, <1>13

(* A row inserted at k of a table of N rows.                               *)
Shift(k, N) == [n \in 1..N |-> IF n < k THEN n ELSE n + 1]
Moved(k, N, P) == {Shift(k, N)[n] : n \in P}
Follows(v, w, k, N, P) ==
  /\ N \in Nat /\ k \in 1..(N + 1) /\ P \in SUBSET (1..N)
  /\ \A n \in 1..N : v[Shift(k, N)[n]] = w[n] /\ w[n] \in Int

LEMMA InsertedSum ==
  ASSUME NEW N, NEW k, NEW P, NEW v, NEW w, Follows(v, w, k, N, P)
  PROVE  /\ k \notin Moved(k, N, P) /\ IsFiniteSet(Moved(k, N, P))
         /\ \A y \in Moved(k, N, P) : v[y] \in Int
         /\ Sum(v, Moved(k, N, P)) = Sum(w, P)
<1> DEFINE f == Shift(k, N)
<1>0. /\ N \in Nat /\ k \in 1..(N + 1) /\ P \in SUBSET (1..N)
      /\ \A n \in 1..N : v[f[n]] = w[n] /\ w[n] \in Int
  BY DEF Follows
<1>1. IsFiniteSet(P)
  <2>1. IsFiniteSet(1..N)
    BY <1>0, FS_Interval
  <2> QED BY <1>0, <2>1, FS_Subset
<1>2. /\ \A n \in 1..N : f[n] = IF n < k THEN n ELSE n + 1
      /\ \A n \in P : n \in 1..N
  BY <1>0 DEF Shift
<1> HIDE DEF f
<1>3. \A x, y \in P : f[x] = f[y] => x = y
  BY <1>0, <1>2
<1>4. \A x \in P : v[f[x]] = w[x] /\ w[x] \in Int
  BY <1>0, <1>2
<1>5. IsFiniteSet({f[n] : n \in P}) /\ Sum(v, {f[n] : n \in P}) = Sum(w, P)
  BY ONLY <1>1, <1>3, <1>4, SumMoved
<1>6. Moved(k, N, P) = {f[n] : n \in P}
  BY DEF Moved, f
<1>7. \A n \in P : f[n] # k
  BY <1>0, <1>2
<1>8. k \notin {f[n] : n \in P} /\ \A y \in {f[n] : n \in P} : v[y] \in Int
  BY <1>4, <1>7
<1> QED BY <1>5, <1>6, <1>8

LEMMA ShiftCovers ==
  ASSUME NEW N \in Nat, NEW k \in 1..(N + 1)
  PROVE  /\ \A n \in 1..N : Shift(k, N)[n] \in (1..(N + 1)) \ {k}
         /\ \A m \in (1..(N + 1)) \ {k} : \E n \in 1..N : Shift(k, N)[n] = m
<1>1. \A n \in 1..N : Shift(k, N)[n] = IF n < k THEN n ELSE n + 1
  BY DEF Shift
<1>2. ASSUME NEW m \in (1..(N + 1)) \ {k}
      PROVE  \E n \in 1..N : Shift(k, N)[n] = m
  <2>1. CASE m < k
    <3>1. m \in 1..N
      BY <2>1
    <3> QED BY <1>1, <2>1, <3>1
  <2>2. CASE m > k
    <3>1. m - 1 \in 1..N /\ ~(m - 1 < k) /\ (m - 1) + 1 = m
      BY <2>2
    <3> QED BY <1>1, <3>1
  <2> QED BY <2>1, <2>2
<1> QED BY <1>1, <1>2

-----------------------------------------------------------------------------
(* A sale takes its quantity, from the first settled lots.                 *)

TakenOf(s, day, quantity) == [n \in DOMAIN lots |-> Taken(s, day, quantity, n)]

LEMMA SaleTakes ==
  ASSUME lots \in Seq(Lot), NEW s, NEW day, NEW quantity \in Nat,
         quantity <= AvailableToSell(s, day)
  PROVE  Sum(TakenOf(s, day, quantity), SettledLots(s, day)) = quantity
<1> DEFINE E == SettledLots(s, day)
           w == TakenOf(s, day, quantity)
           N == Len(lots)
           Up(k) == {m \in E : m < k}
           least(a, b) == IF a <= b THEN a ELSE b
           Holds(k) == Sum(w, Up(k)) = least(Sum(Left, Up(k)), quantity)
<1>0. quantity \in Int
  OBVIOUS
<1>1. /\ N \in Nat /\ DOMAIN lots = 1..N /\ E \subseteq 1..N
      /\ \A n \in 1..N : Left[n] \in Nat /\ Left[n] \in Int /\ Left[n] = lots[n].left
  BY LotSums DEF SettledLots, Left
<1>2. \A n \in 1..N : w[n] = Taken(s, day, quantity, n) /\ w[n] \in Int
  <2>1. \A n \in DOMAIN lots : Taken(s, day, quantity, n) \in 0..lots[n].left
    BY <1>0, AfterSaleIs
  <2>2. \A n \in 1..N : Taken(s, day, quantity, n) \in Int
    BY <1>1, <2>1
  <2> QED BY <1>1, <2>2 DEF TakenOf
<1>3. \A k \in Int : Up(k) \subseteq 1..N /\ IsFiniteSet(Up(k)) /\ Sum(Left, Up(k)) \in Nat
  <2>1. \A k \in Int : Up(k) \in SUBSET DOMAIN lots
    BY <1>1
  <2> HIDE DEF Up
  <2> QED BY <1>1, <2>1, LotSums
<1>4. \A n \in E : LET rest == quantity - Sum(Left, Up(n))
                   IN  w[n] = IF rest <= 0 THEN 0 ELSE IF rest <= Left[n] THEN rest ELSE Left[n]
  <2>1. \A n \in E : Up(n) = Earlier(s, day, n)
    BY DEF Earlier, Precedes
  <2>2. \A n \in E : LET rest == quantity - Sum(Left, Earlier(s, day, n))
                     IN  Taken(s, day, quantity, n) =
                           IF rest <= 0 THEN 0
                           ELSE IF rest <= lots[n].left THEN rest ELSE lots[n].left
    BY <1>0, AfterSaleIs
  <2> HIDE DEF E, w, Up
  <2> QED BY <1>1, <1>2, <2>1, <2>2
<1> HIDE DEF w
<1>5. Holds(1)
  <2>1. Up(1) = {}
    BY <1>1
  <2>2. Sum(w, Up(1)) = 0 /\ Sum(Left, Up(1)) = 0
    BY <2>1, SumEmpty
  <2> HIDE DEF Up
  <2> QED BY <2>2
<1>6. ASSUME NEW k \in 1..N, Holds(k) PROVE Holds(k + 1)
  <2>1. CASE k \notin E
    <3>1. Up(k + 1) = Up(k)
      BY <1>1, <2>1
    <3> HIDE DEF Up
    <3> QED BY <1>6, <3>1
  <2>2. CASE k \in E
    <3>1. Up(k + 1) = Up(k) \cup {k} /\ k \notin Up(k)
      BY <1>1, <2>2
    <3>2. /\ \A x \in Up(k) \cup {k} : w[x] \in Int /\ Left[x] \in Int
          /\ IsFiniteSet(Up(k)) /\ Sum(Left, Up(k)) \in Nat
      BY <1>1, <1>2, <1>3
    <3> DEFINE b == Sum(Left, Up(k))
    <3>3. w[k] = IF quantity - b <= 0 THEN 0
                 ELSE IF quantity - b <= Left[k] THEN quantity - b ELSE Left[k]
      BY <1>4, <2>2
    <3> HIDE DEF Up
    <3>4. /\ Sum(w, Up(k + 1)) = w[k] + Sum(w, Up(k))
          /\ Sum(Left, Up(k + 1)) = Left[k] + b
      BY <3>1, <3>2, SumAdd
    <3>5. b \in Nat /\ Left[k] \in Nat /\ Sum(w, Up(k)) = least(b, quantity)
      BY <1>1, <1>6, <3>2
    <3> HIDE DEF b
    <3> QED BY <3>3, <3>4, <3>5
  <2> QED BY <2>1, <2>2
<1>7. Holds(N + 1)
  <2> DEFINE G == {k \in 1..(N + 1) : Holds(k)}
  <2>1. 1 \in G /\ G \subseteq Int
    BY <1>1, <1>5
  <2>2. IsFiniteSet(G)
    <3>1. IsFiniteSet(1..(N + 1))
      BY <1>1, FS_Interval
    <3>2. G \subseteq 1..(N + 1)
      OBVIOUS
    <3> HIDE DEF G
    <3> QED BY <3>1, <3>2, FS_Subset
  <2>3. Max(G) \in G /\ \A y \in G : Max(G) >= y
    <3>1. G # {}
      BY <2>1
    <3> HIDE DEF G
    <3> QED BY ONLY <2>1, <2>2, <3>1, GreatestOf
  <2> DEFINE g == Max(G)
  <2>4. g \in 1..(N + 1) /\ Holds(g)
    BY <2>3
  <2>5. g = N + 1
    <3>1. SUFFICES ASSUME g # N + 1 PROVE FALSE
      OBVIOUS
    <3>2. g \in 1..N /\ g + 1 \in 1..(N + 1) /\ ~(g >= g + 1)
      <4> HIDE DEF g
      <4> QED BY <1>1, <2>4, <3>1
    <3>3. Holds(g + 1)
      <4> HIDE DEF g, Holds
      <4> QED BY <1>6, <2>4, <3>2
    <3> QED BY <2>3, <3>2, <3>3
  <2> HIDE DEF Holds
  <2> QED BY <2>4, <2>5
<1>8. Up(N + 1) = E
  BY <1>1
<1>9. quantity <= Sum(Left, E) /\ Sum(Left, E) \in Nat
  <2>1. AvailableToSell(s, day) = Sum(Left, E)
    BY LotSums
  <2> HIDE DEF Up
  <2> QED BY <1>1, <1>3, <1>8, <2>1
<1>10. Sum(w, E) = least(Sum(Left, E), quantity)
  <2> HIDE DEF Up
  <2> QED BY <1>7, <1>8
<1> QED BY <1>9, <1>10 DEF w

-----------------------------------------------------------------------------
(* What a fill does to the sums the books are compared by                  *)

LEMMA TotalInserted ==
  ASSUME NEW seq \in Seq(Entry), NEW e \in Entry, NEW by, NEW t \in Insertions(seq, e, by)
  PROVE  Total(t) = Total(seq) + e.amount
<1> DEFINE N == Len(seq)
           v == [n \in DOMAIN t |-> t[n].amount]
           w == [n \in DOMAIN seq |-> seq[n].amount]
<1>1. PICK k \in 1..(Len(seq) + 1) : InsertedAt(t, Entry, seq, e, k)
  BY InsertionIs
<1>2. /\ t \in Seq(Entry) /\ Len(t) = N + 1
      /\ \A n \in 1..(N + 1) : t[n] = IF n < k THEN seq[n] ELSE IF n = k THEN e ELSE seq[n - 1]
  BY <1>1 DEF InsertedAt
<1>3. N \in Nat /\ DOMAIN seq = 1..N /\ DOMAIN t = 1..(N + 1)
  <2>1. DOMAIN t = 1..Len(t)
    BY <1>2, LenProperties
  <2> QED BY <1>2, <2>1, LenProperties
<1>4. IsFiniteSet(DOMAIN t) /\ IsFiniteSet(DOMAIN seq)
  BY <1>3, FS_Interval
<1>5. Total(t) = Sum(v, DOMAIN t) /\ Total(seq) = Sum(w, DOMAIN seq)
  <2>1. (\A n \in DOMAIN t : v[n] = t[n].amount) /\ (\A n \in DOMAIN seq : w[n] = seq[n].amount)
    OBVIOUS
  <2> HIDE DEF v, w
  <2> QED BY <1>4, <2>1, TotalIs
<1>6. /\ \A n \in 1..N : w[n] \in Int /\ w[n] = seq[n].amount
      /\ \A n \in 1..(N + 1) : v[n] = t[n].amount
  <2>1. \A n \in 1..N : seq[n] \in Entry
    BY <1>3, ElementOfSeq
  <2> QED BY <1>3, <2>1 DEF Entry
<1>7. v[k] = e.amount /\ v[k] \in Int
  <2>1. t[k] = e
    BY <1>1, <1>2
  <2> QED BY <1>1, <1>6, <2>1 DEF Entry
<1> HIDE DEF v, w, N
<1>8. ASSUME NEW n \in 1..N PROVE v[Shift(k, N)[n]] = w[n]
  <2>1. CASE n < k
    BY <1>2, <1>3, <1>6, <2>1 DEF Shift
  <2>2. CASE ~(n < k)
    <3>1. Shift(k, N)[n] = n + 1 /\ n + 1 \in 1..(N + 1)
      BY <1>3, <2>2 DEF Shift
    <3>2. ~(n + 1 < k) /\ n + 1 # k /\ (n + 1) - 1 = n
      BY <1>1, <1>3, <2>2
    <3> QED BY <1>2, <1>6, <3>1, <3>2
  <2> QED BY <2>1, <2>2
<1> DEFINE moved == Moved(k, N, 1..N)
<1>9. Sum(v, moved \cup {k}) = v[k] + Sum(w, 1..N)
  <2>1. k \in 1..(N + 1)
    BY <1>1 DEF N
  <2>2. Follows(v, w, k, N, 1..N)
    BY <1>3, <1>6, <1>8, <2>1 DEF Follows
  <2>3. /\ k \notin moved /\ IsFiniteSet(moved) /\ Sum(v, moved) = Sum(w, 1..N)
        /\ \A y \in moved : v[y] \in Int
    BY <2>2, InsertedSum
  <2> HIDE DEF moved
  <2>4. \A y \in moved \cup {k} : v[y] \in Int
    BY <1>7, <2>3
  <2> QED BY <2>3, <2>4, SumAdd
<1>10. moved \cup {k} = DOMAIN t
  <2>1. k \in 1..(N + 1)
    BY <1>1 DEF N
  <2>2. /\ \A n \in 1..N : Shift(k, N)[n] \in (1..(N + 1)) \ {k}
        /\ \A m \in (1..(N + 1)) \ {k} : \E n \in 1..N : Shift(k, N)[n] = m
    BY <1>3, <2>1, ShiftCovers
  <2> QED BY <1>3, <2>1, <2>2 DEF Moved
<1>11. Sum(w, 1..N) \in Int
  <2>1. IsFiniteSet(1..N)
    BY <1>3, <1>4
  <2> QED BY <1>6, <2>1, SumInt
<1> HIDE DEF moved
<1>12. e.amount \in Int
  BY DEF Entry
<1>13. Total(t) = e.amount + Total(seq) /\ Total(seq) \in Int
  BY <1>3, <1>5, <1>7, <1>9, <1>10, <1>11
<1> QED BY <1>12, <1>13

Weights(q) == [n \in DOMAIN q |-> q[n].left]
RowsOf(q, s) == {n \in DOMAIN q : q[n].stock = s}

LEMMA RowSums ==
  ASSUME NEW q \in Seq(Lot)
  PROVE  /\ Len(q) \in Nat /\ DOMAIN q = 1..Len(q) /\ IsFiniteSet(DOMAIN q)
         /\ \A n \in DOMAIN q : q[n] \in Lot /\ Weights(q)[n] = q[n].left /\ Weights(q)[n] \in Nat
         /\ \A S \in SUBSET DOMAIN q :
              IsFiniteSet(S) /\ LeftSum(q, S) = Sum(Weights(q), S) /\ Sum(Weights(q), S) \in Nat
<1>1. Len(q) \in Nat /\ DOMAIN q = 1..Len(q) /\ IsFiniteSet(DOMAIN q)
  <2>1. Len(q) \in Nat /\ DOMAIN q = 1..Len(q)
    BY LenProperties
  <2> QED BY <2>1, FS_Interval
<1>2. ASSUME NEW n \in DOMAIN q
      PROVE  q[n] \in Lot /\ Weights(q)[n] = q[n].left /\ Weights(q)[n] \in Nat
  <2>1. q[n] \in Lot
    BY <1>1, ElementOfSeq
  <2>2. q[n].left \in Nat
    BY <2>1 DEF Lot
  <2> QED BY <2>1, <2>2 DEF Weights
<1>3. ASSUME NEW S \in SUBSET DOMAIN q
      PROVE  IsFiniteSet(S) /\ LeftSum(q, S) = Sum(Weights(q), S) /\ Sum(Weights(q), S) \in Nat
  <2>1. IsFiniteSet(S)
    BY <1>1, FS_Subset
  <2>2. \A n \in S : Weights(q)[n] = q[n].left /\ Weights(q)[n] \in Nat
    BY <1>2
  <2> QED BY <2>1, <2>2, LeftSumIs, SumNat
<1> QED BY <1>1, <1>2, <1>3

LEMMA BoughtLot ==
  ASSUME NEW seq \in Seq(Lot), NEW e \in Lot, NEW by, NEW t \in Insertions(seq, e, by), NEW s
  PROVE  LeftSum(t, RowsOf(t, s)) =
           LeftSum(seq, RowsOf(seq, s)) + (IF e.stock = s THEN e.left ELSE 0)
<1> DEFINE N == Len(seq)
           v == Weights(t)
           w == Weights(seq)
           P == RowsOf(seq, s)
<1>1. PICK k \in 1..(Len(seq) + 1) : InsertedAt(t, Lot, seq, e, k)
  BY InsertionIs
<1>2. /\ t \in Seq(Lot) /\ Len(t) = N + 1
      /\ \A n \in 1..(N + 1) : t[n] = IF n < k THEN seq[n] ELSE IF n = k THEN e ELSE seq[n - 1]
  BY <1>1 DEF InsertedAt
<1>3. /\ N \in Nat /\ DOMAIN seq = 1..N /\ DOMAIN t = 1..(N + 1) /\ k \in 1..(N + 1)
      /\ \A n \in 1..N : w[n] = seq[n].left /\ w[n] \in Nat /\ w[n] \in Int
      /\ \A n \in 1..(N + 1) : v[n] = t[n].left
  BY <1>1, <1>2, RowSums
<1>4. LeftSum(t, RowsOf(t, s)) = Sum(v, RowsOf(t, s)) /\ LeftSum(seq, P) = Sum(w, P)
      /\ Sum(w, P) \in Nat
  <2>1. RowsOf(t, s) \in SUBSET DOMAIN t /\ P \in SUBSET DOMAIN seq
    BY DEF RowsOf
  <2> HIDE DEF P
  <2> QED BY <1>2, <2>1, RowSums
<1>5. t[k] = e /\ v[k] = e.left /\ v[k] \in Int /\ e.left \in Nat
  <2>1. t[k] = e
    BY <1>2, <1>3
  <2>2. e.left \in Nat
    BY DEF Lot
  <2> QED BY <1>3, <2>1, <2>2
<1> DEFINE f == Shift(k, N)
<1>6. ASSUME NEW n \in 1..N PROVE f[n] \in 1..(N + 1) /\ f[n] # k /\ t[f[n]] = seq[n]
  <2>1. f[n] = IF n < k THEN n ELSE n + 1
    BY DEF Shift
  <2> HIDE DEF f, N
  <2>2. CASE n < k
    BY <1>2, <1>3, <2>1, <2>2
  <2>3. CASE ~(n < k)
    <3>1. f[n] = n + 1 /\ n + 1 \in 1..(N + 1)
      BY <1>3, <2>1, <2>3
    <3>2. ~(n + 1 < k) /\ n + 1 # k /\ (n + 1) - 1 = n
      BY <1>3, <2>3
    <3> QED BY <1>2, <3>1, <3>2
  <2> QED BY <2>2, <2>3
<1> HIDE DEF N, v, w
<1>7. \A n \in 1..N : v[f[n]] = w[n]
  BY <1>3, <1>6
<1> DEFINE moved == Moved(k, N, P)
<1>8. P \in SUBSET (1..N)
  BY <1>3 DEF RowsOf
<1>9. Sum(v, moved) = Sum(w, P) /\ Sum(v, moved \cup {k}) = v[k] + Sum(w, P)
  <2> HIDE DEF P
  <2>1. Follows(v, w, k, N, P)
    BY <1>3, <1>7, <1>8 DEF Follows
  <2>2. /\ k \notin moved /\ IsFiniteSet(moved) /\ Sum(v, moved) = Sum(w, P)
        /\ \A y \in moved : v[y] \in Int
    BY <2>1, InsertedSum
  <2> HIDE DEF moved
  <2>3. \A y \in moved \cup {k} : v[y] \in Int
    BY <1>5, <2>2
  <2> QED BY <2>2, <2>3, SumAdd
<1>10. \A m \in (1..(N + 1)) \ {k} : \E n \in 1..N : f[n] = m
  <2>1. N \in Nat /\ k \in 1..(N + 1)
    BY <1>3
  <2> QED BY ONLY <2>1, ShiftCovers
<1>14. moved = {f[n] : n \in P}
  BY DEF Moved
<1> HIDE DEF f, moved
<1>11. {m \in (1..(N + 1)) \ {k} : t[m].stock = s} = moved
  <2>1. \A n \in 1..N : n \in P <=> t[f[n]].stock = s
    BY <1>3, <1>6 DEF RowsOf
  <2>2. ASSUME NEW m \in (1..(N + 1)) \ {k}, t[m].stock = s PROVE m \in moved
    <3>1. PICK n \in 1..N : f[n] = m
      BY <1>10
    <3>2. n \in P
      BY <2>1, <2>2, <3>1
    <3> HIDE DEF P
    <3> QED BY <1>14, <3>1, <3>2
  <2>3. ASSUME NEW n \in P
        PROVE  f[n] \in 1..(N + 1) /\ f[n] # k /\ t[f[n]].stock = s
    <3>1. n \in 1..N
      BY <1>8
    <3> HIDE DEF P
    <3> QED BY <1>6, <2>1, <3>1
  <2> HIDE DEF P
  <2> QED BY <1>14, <2>2, <2>3
<1>12. CASE e.stock = s
  <2>1. RowsOf(t, s) = moved \cup {k}
    BY <1>3, <1>5, <1>11, <1>12 DEF RowsOf
  <2> HIDE DEF moved, P
  <2>2. LeftSum(t, RowsOf(t, s)) = LeftSum(seq, P) + e.left
    BY <1>4, <1>5, <1>9, <2>1
  <2> QED BY <1>12, <2>2 DEF P
<1>13. CASE e.stock # s
  <2>1. RowsOf(t, s) = moved
    BY <1>3, <1>5, <1>11, <1>13 DEF RowsOf
  <2> HIDE DEF moved, P
  <2>2. LeftSum(t, RowsOf(t, s)) = LeftSum(seq, P) /\ LeftSum(seq, P) \in Nat
    BY <1>4, <1>9, <2>1
  <2> QED BY <1>13, <2>2 DEF P
<1> QED BY <1>12, <1>13

LEMMA SoldLots ==
  ASSUME lots \in Seq(Lot), NEW s, NEW day, NEW quantity \in Nat,
         quantity <= AvailableToSell(s, day), NEW x
  PROVE  LET t == AfterSale(s, day, quantity)
         IN  LeftSum(t, RowsOf(t, x)) = Held(x) - (IF x = s THEN quantity ELSE 0)
<1> DEFINE t == AfterSale(s, day, quantity)
           E == SettledLots(s, day)
           v == Weights(t)
           w == TakenOf(s, day, quantity)
           S == LotsOf(x)
<1>0. quantity \in Int
  OBVIOUS
<1>1. t \in Seq(Lot) /\ DOMAIN t = DOMAIN lots
  BY <1>0, AfterSaleIn
<1>2. ASSUME NEW n \in DOMAIN lots
      PROVE  /\ t[n].stock = lots[n].stock /\ w[n] \in Int /\ v[n] \in Int /\ Left[n] \in Int
             /\ Left[n] = v[n] + w[n] /\ (n \notin E => w[n] = 0)
  <2>1. /\ t[n] = [lots[n] EXCEPT !.left = lots[n].left - Taken(s, day, quantity, n)]
        /\ Taken(s, day, quantity, n) \in 0..lots[n].left
    BY <1>0, AfterSaleIs
  <2>2. lots[n] \in Lot /\ lots[n].left \in Nat /\ Left[n] = lots[n].left
    BY LotSums DEF Lot, Left
  <2>3. v[n] = t[n].left
    BY <1>1, RowSums
  <2>4. w[n] = Taken(s, day, quantity, n) /\ (n \notin E => w[n] = 0)
    BY DEF TakenOf, Taken
  <2> HIDE DEF t, v, w, E
  <2>5. t[n].stock = lots[n].stock /\ t[n].left = lots[n].left - Taken(s, day, quantity, n)
    BY <2>1, <2>2 DEF Lot
  <2> QED BY <2>1, <2>2, <2>3, <2>4, <2>5
<1>3. LeftSum(t, RowsOf(t, x)) = Sum(v, S)
  <2>1. RowsOf(t, x) = S /\ S \in SUBSET DOMAIN t
    BY <1>1, <1>2 DEF RowsOf, LotsOf
  <2> HIDE DEF t, S
  <2> QED BY <1>1, <2>1, RowSums
<1>4. Held(x) = Sum(Left, S)
  BY LotSums
<1>5. Sum(w, E) = quantity
  BY SaleTakes
<1>6. S \subseteq DOMAIN lots /\ IsFiniteSet(S)
  <2>1. S \in SUBSET DOMAIN lots
    BY DEF LotsOf
  <2> HIDE DEF S
  <2> QED BY <2>1, LotSums
<1>7. CASE x = s
  <2>1. E \subseteq S
    BY <1>7 DEF SettledLots, LotsOf, Settled
  <2> DEFINE O == S \ E
  <2>2. IsFiniteSet(E) /\ IsFiniteSet(O) /\ E \cap O = {} /\ S = E \cup O
    BY <1>6, <2>1, FS_Subset
  <2> HIDE DEF v, w, t, S, O
  <2>3. Sum(w, S) = Sum(w, E) + Sum(w, O)
    <3>1. \A n \in E \cup O : w[n] \in Int
      BY <1>2, <1>6, <2>2
    <3> HIDE DEF E
    <3> QED BY <2>2, <3>1, SumUnion
  <2>4. Sum(w, O) = 0
    <3>1. \A n \in O : w[n] = 0
      BY <1>2, <1>6 DEF O
    <3> QED BY <2>2, <3>1, SumZero
  <2>5. Sum(Left, S) = Sum(v, S) + Sum(w, S)
    <3>1. \A n \in S : v[n] \in Int /\ w[n] \in Int /\ Left[n] = v[n] + w[n]
      BY <1>2, <1>6
    <3> QED BY <1>6, <3>1, SumPlus
  <2>6. Sum(v, S) \in Int
    <3>1. \A n \in S : v[n] \in Int
      BY <1>2, <1>6
    <3> QED BY <1>6, <3>1, SumInt
  <2> HIDE DEF E
  <2>7. Sum(v, S) = Sum(Left, S) - quantity
    BY <1>5, <2>3, <2>4, <2>5, <2>6
  <2> QED BY <1>3, <1>4, <1>7, <2>7 DEF t
<1>8. CASE x # s
  <2>1. \A n \in S : n \in DOMAIN lots /\ n \notin E
    BY <1>8 DEF SettledLots, LotsOf, Settled
  <2> HIDE DEF v, w, t, S, E
  <2>2. \A n \in S : v[n] = Left[n] /\ v[n] \in Int
    BY <1>2, <2>1
  <2>3. Sum(v, S) = Sum(Left, S) /\ Sum(v, S) \in Int
    BY <1>6, <2>2, SumSame, SumInt
  <2> QED BY <1>3, <1>4, <1>8, <2>3 DEF t
<1> QED BY <1>7, <1>8

LEMMA FillsWith ==
  ASSUME NEW F, F \subseteq FillRow, IsFiniteSet(F), NEW f \in FillRow, f \notin F, NEW o
  PROVE  /\ FillsOf(o, F) \in Nat
         /\ FillsOf(o, F \cup {f}) = FillsOf(o, F) + (IF f.order = o THEN f.quantity ELSE 0)
<1> DEFINE w == [g \in F \cup {f} |-> g.quantity]
           S == {g \in F : g.order = o}
           T == {g \in F \cup {f} : g.order = o}
<1>1. \A g \in F \cup {f} : w[g] = g.quantity /\ w[g] \in Nat /\ w[g] \in Int
  <2>1. \A g \in F \cup {f} : g \in FillRow
    OBVIOUS
  <2>2. \A g \in FillRow : g.quantity \in Nat
    BY DEF FillRow
  <2> QED BY <2>1, <2>2
<1>2. IsFiniteSet(F \cup {f}) /\ S \subseteq F \cup {f} /\ T \subseteq F \cup {f}
  BY FS_AddElement
<1>3. IsFiniteSet(S) /\ IsFiniteSet(T)
  <2> HIDE DEF S, T
  <2> QED BY <1>2, FS_Subset
<1>4. FillsOf(o, F) = QuantitySum(S) /\ FillsOf(o, F \cup {f}) = QuantitySum(T)
  BY DEF FillsOf, QuantitySum
<1>5. (f.order = o => T = S \cup {f} /\ f \notin S) /\ (f.order # o => T = S)
  OBVIOUS
<1> HIDE DEF S, T, w
<1>6. QuantitySum(S) = Sum(w, S) /\ QuantitySum(T) = Sum(w, T) /\ Sum(w, S) \in Nat
  BY <1>1, <1>2, <1>3, QuantitySumIs, SumNat
<1>7. CASE f.order = o
  <2>1. \A g \in S \cup {f} : w[g] \in Int
    BY <1>1, <1>2
  <2>2. Sum(w, S \cup {f}) = w[f] + Sum(w, S)
    BY <1>3, <1>5, <1>7, <2>1, SumAdd
  <2>3. w[f] = f.quantity /\ w[f] \in Nat
    BY <1>1
  <2>4. QuantitySum(T) = f.quantity + QuantitySum(S) /\ QuantitySum(S) \in Nat
        /\ f.quantity \in Nat
    BY <1>5, <1>6, <1>7, <2>2, <2>3
  <2>5. QuantitySum(T) = QuantitySum(S) + f.quantity
    BY <2>4
  <2> QED BY <1>4, <1>7, <2>4, <2>5
<1>8. CASE f.order # o
  BY <1>4, <1>5, <1>6, <1>8
<1> QED BY <1>7, <1>8

LEMMA PositionWith ==
  ASSUME NEW F, F \subseteq FillRow, IsFiniteSet(F), NEW f \in FillRow, f \notin F, NEW s
  PROVE  /\ Position(s, F) \in Int
         /\ Position(s, F \cup {f}) = Position(s, F) +
              (IF StockOf[f.order] = s
               THEN IF f.order \in Buys THEN f.quantity ELSE -f.quantity ELSE 0)
<1> DEFINE G == F \cup {f}
           S == {o \in Orders : StockOf[o] = s}
           v == [o \in Orders |-> Signed(o, F)]
           w == [o \in Orders |-> Signed(o, G)]
           x == f.order
           d == IF x \in Buys THEN f.quantity ELSE -f.quantity
<1>1. x \in Orders /\ f.quantity \in Nat /\ f.quantity \in Int
  BY DEF FillRow
<1>2. \A o : FillsOf(o, F) \in Nat
        /\ FillsOf(o, G) = FillsOf(o, F) + (IF x = o THEN f.quantity ELSE 0)
  BY FillsWith
<1>3. IsFiniteSet(S) /\ S \subseteq Orders
  <2>1. S \subseteq Orders /\ IsFiniteSet(Orders)
    BY PaperAssumption
  <2> HIDE DEF S
  <2> QED BY <2>1, FS_Subset
<1>4. \A o \in Orders : v[o] \in Int /\ w[o] \in Int /\ v[o] = Signed(o, F) /\ w[o] = Signed(o, G)
  BY <1>1, <1>2 DEF Signed
<1>5. Position(s, F) = PositionSum(S, F) /\ Position(s, G) = PositionSum(S, G)
  BY DEF Position, PositionSum
<1>6. (\A o \in Orders : o # x => w[o] = v[o]) /\ w[x] = v[x] + d
  <2>1. \A o \in Orders : o # x => w[o] = v[o]
    <3>1. ASSUME NEW o \in Orders, o # x PROVE FillsOf(o, G) = FillsOf(o, F)
      <4>1. /\ FillsOf(o, F) \in Nat
            /\ FillsOf(o, G) = FillsOf(o, F) + (IF x = o THEN f.quantity ELSE 0)
        BY <1>2
      <4> HIDE DEF G, x
      <4> QED BY <3>1, <4>1
    <3> HIDE DEF G, x
    <3>2. \A o \in Orders : o # x => Signed(o, G) = Signed(o, F)
      BY <3>1 DEF Signed
    <3> HIDE DEF v, w
    <3> QED BY <1>4, <3>2
  <2>2. w[x] = v[x] + d
    <3>1. FillsOf(x, G) = FillsOf(x, F) + f.quantity /\ FillsOf(x, F) \in Nat
      BY <1>2
    <3> HIDE DEF G
    <3> QED BY <1>1, <3>1 DEF Signed
  <2> QED BY <2>1, <2>2
<1>7. d \in Int
  BY <1>1
<1> HIDE DEF v, w, S, G, d, x
<1>8. PositionSum(S, F) = Sum(v, S) /\ PositionSum(S, G) = Sum(w, S) /\ Sum(v, S) \in Int
  <2>1. \A o \in S : v[o] = Signed(o, F) /\ w[o] = Signed(o, G) /\ v[o] \in Int
    BY <1>3, <1>4
  <2> QED BY <1>3, <2>1, PositionSumIs, SumInt
<1>9. CASE x \in S
  <2> DEFINE R == S \ {x}
  <2>1. \A o \in S : v[o] \in Int /\ w[o] \in Int
    BY <1>3, <1>4
  <2>2. Sum(v, S) = v[x] + Sum(v, R) /\ Sum(w, S) = w[x] + Sum(w, R)
    BY <1>3, <1>9, <2>1, SumWithout
  <2>3. IsFiniteSet(R) /\ \A o \in R : w[o] = v[o] /\ v[o] \in Int
    BY <1>3, <1>4, <1>6, FS_Subset
  <2> HIDE DEF R
  <2>4. Sum(w, R) = Sum(v, R) /\ Sum(v, R) \in Int
    BY <2>3, SumSame, SumInt
  <2>5. v[x] \in Int
    BY <1>1, <1>4 DEF x
  <2>6. Sum(w, S) = Sum(v, S) + d
    BY <1>6, <1>7, <2>2, <2>4, <2>5
  <2> QED BY <1>5, <1>8, <1>9, <2>6 DEF S, G, d, x
<1>10. CASE x \notin S
  <2>1. \A o \in S : w[o] = v[o]
    BY <1>3, <1>6, <1>10
  <2>2. Sum(w, S) = Sum(v, S)
    BY <1>3, <2>1, SumSame
  <2>3. StockOf[x] # s
    BY <1>1, <1>10 DEF S, x
  <2> QED BY <1>5, <1>8, <2>2, <2>3 DEF G, x
<1> QED BY <1>9, <1>10

-----------------------------------------------------------------------------
(* The books *)

(* A step is a fill, or it leaves the books alone.                         *)
LEMMA BookSteps ==
  ASSUME Types, OrderStates, [Next]_vars
  PROVE  \/ /\ account'.cash = account.cash /\ UNCHANGED <<fills, ledger, lots>>
            /\ \A o \in Orders : orders'[o].filled = orders[o].filled
         \/ \E o \in Orders, q \in Quotes, now \in Moments :
              now >= DayLength /\ Fill(o, q, now)
<1> DEFINE Alone == /\ account'.cash = account.cash /\ UNCHANGED <<fills, ledger, lots>>
                    /\ \A o \in Orders : orders'[o].filled = orders[o].filled
           AFill == \E o \in Orders, q \in Quotes, now \in Moments :
                      now >= DayLength /\ Fill(o, q, now)
<1>1. orders \in [Orders -> OrderRow] /\ account \in AccountRow
  BY DEF Types, TableTypes
<1>2. ASSUME UNCHANGED <<fills, ledger, lots>>, account'.cash = account.cash,
             \A o \in Orders :
               \/ orders'[o] = orders[o]
               \/ \E status : orders'[o] = [orders[o] EXCEPT !.status = status]
               \/ Unwritten(o) /\ \E status : orders'[o] = Written(status)
      PROVE  Alone
  <2>1. ASSUME NEW o \in Orders PROVE orders'[o].filled = orders[o].filled
    <3>1. orders[o] \in OrderRow /\ (Unwritten(o) => orders[o].filled = 0)
      BY <1>1 DEF OrderStates
    <3>2. CASE Unwritten(o) /\ \E status : orders'[o] = Written(status)
      BY <3>1, <3>2 DEF Written
    <3> QED BY <1>2, <3>1, <3>2 DEF OrderRow
  <2> QED BY <1>2, <2>1
<1>3. ASSUME UNCHANGED <<account, fills, ledger, lots, orders>> PROVE Alone
  BY <1>3
<1> HIDE DEF Alone, AFill
<1>4. ASSUME NEW t \in Ticks, Execute(t) PROVE Alone \/ AFill
  <2>1. PICK o \in Oldest(procs[t].todo) : ExecuteOne(o, procs[t].now)
    BY <1>4 DEF Execute
  <2> DEFINE now == procs[t].now
  <2>2. o \in Orders /\ now \in Moments /\ now >= DayLength
    <3>1. t \in Ticks \cup {Desk} /\ procs[t].stage = "listed"
      BY <1>4 DEF Execute
    <3> QED BY <2>1, <3>1 DEF Oldest, Types, ProcTypes, Proc, Started
  <2> HIDE DEF now
  <2>3. ASSUME NEW status, SetStatus(o, status), UNCHANGED <<account, fills, ledger, lots, plans>>
        PROVE  Alone
    <3>1. \A x \in Orders : orders'[x] = IF x = o THEN [orders[o] EXCEPT !.status = status]
                                                 ELSE orders[x]
      BY <1>1, <2>3 DEF SetStatus
    <3> QED BY <1>2, <2>3, <3>1
  <2>4. CASE Pass(o, now)
    BY <1>3, <2>4 DEF Pass, tables
  <2>5. CASE Expire(o, now) \/ Wait(o, now) \/ CancelRemainder(o, now)
    BY <2>3, <2>5 DEF Expire, Wait, CancelRemainder
  <2>6. ASSUME NEW q \in Quotes, Fill(o, q, now) PROVE AFill
    BY <2>2, <2>6 DEF AFill
  <2> QED BY <2>1, <2>4, <2>5, <2>6 DEF ExecuteOne, now
<1>5. ASSUME NEW t \in Ticks, Sweep(t) PROVE Alone
  <2>1. \A o \in Orders : orders'[o] = IF Due(o, clock)
          THEN [orders[o] EXCEPT !.status = "EXPIRED"] ELSE orders[o]
    BY <1>5 DEF Sweep
  <2> QED BY <1>2, <1>5, <2>1 DEF Sweep
<1>6. ASSUME NEW run, \A o \in Orders : \/ orders'[o] = AfterCancel(o, run)
                                        \/ Unwritten(o) /\ \E status : orders'[o] = Written(status),
             UNCHANGED <<account, fills, ledger, lots>>
      PROVE  Alone
  BY <1>2, <1>6 DEF AfterCancel
<1>7. ASSUME Freeze PROVE Alone
  BY <1>6, <1>7 DEF Freeze
<1>8. ASSUME NEW run, Materialize(run) PROVE Alone
  <2>1. PICK S \in SUBSET V3Orders :
          /\ \A o \in S : Unwritten(o)
          /\ orders' = [o \in Orders |->
               IF o \notin S THEN AfterCancel(o, run)
               ELSE Written(IF o \in Buys THEN "QUEUED" ELSE "RISK_APPROVED")]
    BY <1>8 DEF Materialize
  <2>2. \A o \in Orders : \/ orders'[o] = AfterCancel(o, run)
                          \/ Unwritten(o) /\ \E status : orders'[o] = Written(status)
    BY <2>1
  <2> QED BY <1>6, <1>8, <2>2 DEF Materialize
<1>9. ASSUME NEW o \in Orders, Place(o) PROVE Alone
  <2>1. Unwritten(o) /\ \A x \in Orders :
          orders'[x] = IF x = o THEN Written("RISK_APPROVED") ELSE orders[x]
    BY <1>1, <1>9 DEF Place
  <2> QED BY <1>2, <1>9, <2>1 DEF Place
<1>10. ASSUME NEW day, Reconcile(day) PROVE Alone
  <2>1. account'.cash = account.cash
    BY <1>1, <1>10 DEF Reconcile, AccountRow
  <2> QED BY <1>2, <1>10, <2>1 DEF Reconcile
<1>11. ASSUME \/ Tick \/ DeskStart \/ UNCHANGED vars
              \/ \E p \in Ticks \cup {Desk} : Crash(p) \/ SyncRead(p) \/ SyncWrite(p)
              \/ \E t \in Ticks : List(t)
       PROVE  Alone
  BY <1>3, <1>11 DEF Tick, DeskStart, Crash, SyncRead, SyncWrite, List, vars, tables
<1>12. Desk \in Ticks \cup {Desk} /\ Ticks \subseteq Ticks \cup {Desk}
  OBVIOUS
<1>13. Alone \/ AFill
  BY <1>4, <1>5, <1>7, <1>8, <1>9, <1>10, <1>11, <1>12 DEF Next, TickStep
<1> QED BY <1>13 DEF Alone, AFill

LEMMA BooksInit == Init => BooksAgree
<1> SUFFICES ASSUME Init PROVE BooksAgree
  OBVIOUS
<1>1. account.cash = Deposit /\ fills = {} /\ lots = <<>>
      /\ ledger = <<[amount |-> Deposit, after |-> Deposit, at |-> 0]>>
      /\ \A o \in Orders : orders[o].filled = 0
  BY DEF Init
<1>2. Deposit \in Nat /\ \A o \in Orders : Quantity[o] \in Nat
  BY PaperAssumption
<1>3. Total(ledger) = Deposit
  <2> DEFINE w == [n \in {1} |-> Deposit]
  <2>1. DOMAIN ledger = {1} /\ ledger[1].amount = Deposit
    BY <1>1
  <2>2. IsFiniteSet({1})
    BY FS_Singleton
  <2>3. \A n \in {1} : w[n] = ledger[n].amount
    BY <2>1
  <2>4. w[1] = Deposit /\ \A n \in {1} : w[n] \in Int
    BY <1>2
  <2> HIDE DEF w
  <2>5. Total(ledger) = Sum(w, {1})
    BY <2>1, <2>2, <2>3, TotalIs
  <2>6. Sum(w, {1}) = w[1] + Sum(w, {1} \ {1})
    BY <2>2, <2>4, SumWithout
  <2>7. {1} \ {1} = {}
    OBVIOUS
  <2> QED BY <1>2, <2>4, <2>5, <2>6, <2>7, SumEmpty
<1>4. \A o : FillsOf(o, fills) = 0
  <2>1. ASSUME NEW o PROVE FillsOf(o, fills) = 0
    <3>1. FillsOf(o, fills) = QuantitySum({})
      <4>1. {f \in fills : f.order = o} = {}
        BY <1>1
      <4> QED BY <4>1 DEF FillsOf, QuantitySum
    <3>2. QuantitySum({}) = Sum(<<>>, {})
      <4>1. IsFiniteSet({})
        BY FS_EmptySet
      <4>2. \A f \in {} : <<>>[f] = f.quantity
        OBVIOUS
      <4> QED BY <4>1, <4>2, QuantitySumIs
    <3> QED BY <3>1, <3>2, SumEmpty
  <2> QED BY <2>1
<1>5. \A s : Held(s) = 0
  <2>1. ASSUME NEW s PROVE Held(s) = 0
    <3>1. lots \in Seq(Lot) /\ LotsOf(s) = {}
      BY <1>1 DEF LotsOf
    <3> QED BY <3>1, LotSums, SumEmpty
  <2> QED BY <2>1
<1>6. \A s : Position(s, fills) = 0
  <2>1. ASSUME NEW s PROVE Position(s, fills) = 0
    <3> DEFINE S == {o \in Orders : StockOf[o] = s}
               w == [o \in S |-> 0]
    <3>1. \A o \in S : w[o] = Signed(o, fills) /\ w[o] = 0
      BY <1>4 DEF Signed
    <3>2. IsFiniteSet(S)
      <4>1. S \subseteq Orders /\ IsFiniteSet(Orders)
        BY PaperAssumption
      <4> HIDE DEF S
      <4> QED BY <4>1, FS_Subset
    <3>3. Position(s, fills) = PositionSum(S, fills)
      BY DEF Position, PositionSum
    <3> HIDE DEF S, w
    <3>4. PositionSum(S, fills) = Sum(w, S) /\ Sum(w, S) = 0
      BY <3>1, <3>2, PositionSumIs, SumZero
    <3> QED BY <3>3, <3>4
  <2> QED BY <2>1
<1>7. \A f, g \in fills : f.order = g.order /\ f.event = g.event => f = g
  BY <1>1
<1> QED BY <1>1, <1>2, <1>3, <1>4, <1>5, <1>6, <1>7 DEF BooksAgree

LEMMA FillKeepsBooks ==
  ASSUME Types, BooksAgree, NEW o \in Orders, NEW q \in Quotes, NEW now \in Moments,
         Fill(o, q, now)
  PROVE  BooksAgree'
<1> DEFINE n == MatchQuantity(o, q, now)
           net == IF o \in Buys THEN -(n * PriceOf[q]) ELSE n * PriceOf[q]
           f == [order |-> o, event |-> q, quantity |-> n, at |-> now]
           entry == [amount |-> net, after |-> account.cash + net, at |-> now]
           lot == [stock |-> StockOf[o], opened |-> Day(now),
                   settles |-> Day(now) + SettlementDays, left |-> n]
<1>1. /\ n \in Nat \ {0} /\ n * PriceOf[q] \in Nat /\ net \in Int
      /\ n <= Remaining(o) /\ (o \notin Buys => n <= AvailableToSell(StockOf[o], Day(now)))
      /\ Affordable(o, n * PriceOf[q]) /\ ~FilledBy(o, q)
  BY FillIs
<1>2. /\ fills' = fills \cup {f} /\ ledger' \in Insertions(ledger, entry, "at")
      /\ account' = [account EXCEPT !.cash = account.cash + net]
  BY FillIs
<1>3. /\ o \in Buys => lots' \in Insertions(lots, lot, "opened")
      /\ o \notin Buys => lots' = AfterSale(StockOf[o], Day(now), n)
      /\ orders' = [orders EXCEPT ![o].filled = @ + n, ![o].status = NextStatus(o, n)]
  BY <1>1 DEF Fill
<1>4. /\ orders \in [Orders -> OrderRow] /\ account \in AccountRow /\ fills \subseteq FillRow
      /\ ledger \in Seq(Entry) /\ lots \in Seq(Lot) /\ IsFiniteSet(fills)
  BY DEF Types, TableTypes, Rows
<1>5. Affordable(o, n * PriceOf[q]) <=> (o \in Buys => n * PriceOf[q] <= account.cash)
  BY DEF Affordable
<1> HIDE DEF n
<1>6. f \in FillRow /\ f \notin fills /\ f.order = o /\ f.quantity = n
  BY <1>1 DEF FillRow, FilledBy
<1>7. account.cash \in Int /\ account'.cash = account.cash + net
  BY <1>2, <1>4 DEF AccountRow
<1>8. account'.cash = Total(ledger')
  <2>1. entry \in Entry
    BY <1>1, <1>7 DEF Entry
  <2>2. entry.amount = net
    OBVIOUS
  <2> HIDE DEF entry, net
  <2>3. Total(ledger') = Total(ledger) + entry.amount
    BY <1>2, <1>4, <2>1, TotalInserted
  <2> QED BY <1>7, <2>2, <2>3 DEF BooksAgree
<1>9. account'.cash >= 0
  <2>1. account.cash >= 0
    BY DEF BooksAgree
  <2> DEFINE amount == n * PriceOf[q]
  <2>2. amount \in Nat /\ (o \in Buys => amount <= account.cash)
        /\ net = IF o \in Buys THEN -amount ELSE amount
    BY <1>1, <1>5
  <2> HIDE DEF amount, net
  <2> QED BY <1>7, <2>1, <2>2
<1>10. ASSUME NEW s \in Stocks PROVE Held(s)' = Position(s, fills)'
  <2> DEFINE d == IF o \in Buys THEN n ELSE -n
  <2>1. Held(s) = Position(s, fills) /\ Position(s, fills) \in Int
    <3>1. Held(s) = Position(s, fills)
      BY DEF BooksAgree
    <3>2. Position(s, fills) \in Int
      BY <1>4, <1>6, PositionWith
    <3> QED BY <3>1, <3>2
  <2>2. Position(s, fills)' = Position(s, fills) + (IF StockOf[o] = s THEN d ELSE 0)
    <3>1. Position(s, fills)' = Position(s, fills \cup {f})
      BY <1>2 DEF Position, FillsOf, MapThenSumSet, MapThenFoldSet
    <3> HIDE DEF f
    <3>2. Position(s, fills \cup {f}) = Position(s, fills) +
            (IF StockOf[f.order] = s
             THEN IF f.order \in Buys THEN f.quantity ELSE -f.quantity ELSE 0)
      BY <1>4, <1>6, PositionWith
    <3> QED BY <1>6, <3>1, <3>2
  <2>3. Held(s)' = LeftSum(lots', RowsOf(lots', s)) /\ Held(s) = LeftSum(lots, RowsOf(lots, s))
    BY DEF Held, LeftSum, RowsOf, MapThenSumSet, MapThenFoldSet
  <2>4. CASE o \in Buys
    <3>1. now \in Nat /\ SettlementDays \in Nat
      BY PaperAssumption DEF Moments
    <3>2. Day(now) \in Nat
      BY <3>1, DayType
    <3>3. lot \in Lot
      BY <1>1, <3>1, <3>2 DEF Lot, Stocks
    <3>4. lot.stock = StockOf[o] /\ lot.left = n
      OBVIOUS
    <3> HIDE DEF lot
    <3>5. lots' \in Insertions(lots, lot, "opened")
      BY <1>3, <2>4
    <3>6. LeftSum(lots', RowsOf(lots', s)) =
            LeftSum(lots, RowsOf(lots, s)) + (IF lot.stock = s THEN lot.left ELSE 0)
      BY <1>4, <3>3, <3>5, BoughtLot
    <3> QED BY <1>1, <2>1, <2>2, <2>3, <2>4, <3>4, <3>6
  <2>5. CASE o \notin Buys
    <3>1. LeftSum(lots', RowsOf(lots', s)) = Held(s) - (IF s = StockOf[o] THEN n ELSE 0)
      <4>1. n \in Nat /\ n <= AvailableToSell(StockOf[o], Day(now)) /\ lots \in Seq(Lot)
        BY <1>1, <1>4, <2>5
      <4>2. lots' = AfterSale(StockOf[o], Day(now), n)
        BY <1>3, <2>5
      <4>3. LET t == AfterSale(StockOf[o], Day(now), n)
            IN  LeftSum(t, RowsOf(t, s)) = Held(s) - (IF s = StockOf[o] THEN n ELSE 0)
        BY ONLY <4>1, SoldLots
      <4> QED BY <4>2, <4>3
    <3> QED BY <1>1, <2>1, <2>2, <2>3, <2>5, <3>1
  <2> QED BY <2>4, <2>5
<1>11. ASSUME NEW x \in Orders
       PROVE  orders'[x].filled = FillsOf(x, fills)' /\ orders'[x].filled <= Quantity[x]
  <2>1. /\ orders[x].filled = FillsOf(x, fills) /\ orders[x].filled <= Quantity[x]
        /\ orders[x].filled \in Nat /\ Quantity[x] \in Nat
    BY <1>4, PaperAssumption DEF BooksAgree, OrderRow
  <2>2. orders'[x].filled = orders[x].filled + (IF x = o THEN n ELSE 0)
    <3>1. CASE x = o
      BY <1>3, <1>4, <3>1 DEF OrderRow
    <3>2. CASE x # o
      BY <1>3, <1>4, <2>1, <3>2
    <3> QED BY <3>1, <3>2
  <2>3. FillsOf(x, fills)' = FillsOf(x, fills \cup {f})
    BY <1>2 DEF FillsOf, MapThenSumSet, MapThenFoldSet
  <2> HIDE DEF f
  <2>4. FillsOf(x, fills \cup {f}) =
          FillsOf(x, fills) + (IF f.order = x THEN f.quantity ELSE 0)
    BY <1>4, <1>6, FillsWith
  <2>5. x = o => orders[x].filled + n <= Quantity[x]
    <3>1. Remaining(o) = Quantity[o] - orders[o].filled
      BY DEF Remaining
    <3>2. n \in Nat /\ n <= Remaining(o)
      BY <1>1
    <3> QED BY <2>1, <3>1, <3>2
  <2> QED BY <1>1, <1>6, <2>1, <2>2, <2>3, <2>4, <2>5
<1>12. \A g, h \in fills' : g.order = h.order /\ g.event = h.event => g = h
  <2>1. \A g \in fills : ~(g.order = o /\ g.event = q)
    BY <1>1 DEF FilledBy
  <2>2. f.order = o /\ f.event = q
    OBVIOUS
  <2> HIDE DEF f
  <2> QED BY <1>2, <2>1, <2>2 DEF BooksAgree
<1> QED BY <1>8, <1>9, <1>10, <1>11, <1>12 DEF BooksAgree

LEMMA BooksNext == Types /\ OrderStates /\ BooksAgree /\ [Next]_vars => BooksAgree'
<1> SUFFICES ASSUME Types, OrderStates, BooksAgree, [Next]_vars PROVE BooksAgree'
  OBVIOUS
<1>1. CASE /\ account'.cash = account.cash /\ UNCHANGED <<fills, ledger, lots>>
           /\ \A o \in Orders : orders'[o].filled = orders[o].filled
  <2>1. Total(ledger)' = Total(ledger)
    BY <1>1 DEF Total, FoldSeq, FoldFunction, FoldFunctionOnSet, MapThenFoldSet
  <2>2. \A s \in Stocks : Held(s)' = Held(s)
    BY <1>1 DEF Held, MapThenSumSet, MapThenFoldSet
  <2>3. \A s \in Stocks : Position(s, fills)' = Position(s, fills)
    BY <1>1 DEF Position, FillsOf, MapThenSumSet, MapThenFoldSet
  <2>4. \A o \in Orders : FillsOf(o, fills)' = FillsOf(o, fills)
    BY <1>1 DEF FillsOf, MapThenSumSet, MapThenFoldSet
  <2> QED BY <1>1, <2>1, <2>2, <2>3, <2>4 DEF BooksAgree
<1>2. CASE \E o \in Orders, q \in Quotes, now \in Moments : now >= DayLength /\ Fill(o, q, now)
  BY <1>2, FillKeepsBooks
<1> QED BY <1>1, <1>2, BookSteps

(* Cash, ledger, lots, fills and orders agree (LedgerBook.reconcile),      *)
(* whichever ticks overlap and wherever they die, for any number of orders,*)
(* fills and lots.                                                         *)
THEOREM TheBooksAgree == Spec => []BooksAgree
<1>1. PlanInv => Types /\ OrderStates
  BY DEF PlanInv
<1> QED BY <1>1, BooksInit, BooksNext, PlanInvAlways, PTL DEF Spec

-----------------------------------------------------------------------------
(* Liquidity *)

WithinVolume == \A f \in fills : f.quantity <= Volume[f.event]
VolumeInv == WithinVolume /\ WithinSnapshot

LEMMA VolumeFill ==
  ASSUME Types, BooksAgree, BooksAgree', VolumeInv, fills' \subseteq FillRow, IsFiniteSet(fills'),
         NEW o \in Orders, NEW q \in Quotes, NEW now \in Moments, Fill(o, q, now)
  PROVE  VolumeInv'
<1> DEFINE n == MatchQuantity(o, q, now)
           f == [order |-> o, event |-> q, quantity |-> n, at |-> now]
<1>0. n \in Nat \ {0} /\ n <= Liquidity(o, q)
  BY FillIs
<1>1. /\ n \in Nat \ {0} /\ n <= Liquidity(o, q) /\ fills' = fills \cup {f}
      /\ orders' = [orders EXCEPT ![o].filled = @ + n, ![o].status = NextStatus(o, n)]
  BY <1>0 DEF Fill
<1>2. /\ orders \in [Orders -> OrderRow] /\ Volume[q] \in Nat
      /\ fills \subseteq FillRow /\ IsFiniteSet(fills)
  BY PaperAssumption DEF Types, TableTypes, Rows
<1>3. f.order = o /\ f.event = q /\ f.quantity = n
  OBVIOUS
<1> HIDE DEF n, f
<1>4. orders[o].filled \in Nat /\ orders'[o].filled = orders[o].filled + n
  BY <1>1, <1>2 DEF OrderRow
<1>5. n <= Volume[q] /\ (q \in Snapshots => orders'[o].filled <= Volume[q])
  BY <1>1, <1>2, <1>4 DEF Liquidity
<1>6. WithinVolume'
  BY <1>1, <1>3, <1>5 DEF VolumeInv, WithinVolume
<1>7. ASSUME NEW x \in Orders, FromSnapshots(x)' # {}
      PROVE  (\E g \in FromSnapshots(x) : FillsOf(x, FromSnapshots(x)) <= Volume[g.event])'
  <2>1. CASE x = o /\ q \in Snapshots
    <3> DEFINE S == {g \in fills' : g.order = o /\ g.event \in Snapshots}
               T == {g \in fills' : g.order = o}
               w == [g \in fills' |-> g.quantity]
    <3>1. FromSnapshots(x)' = S /\ {g \in S : g.order = x} = S /\ S \subseteq T /\ T \subseteq fills'
          /\ f \in S
      BY <1>1, <1>3, <2>1 DEF FromSnapshots
    <3>2. FillsOf(x, S) = QuantitySum(S) /\ FillsOf(x, fills)' = QuantitySum(T)
      BY <2>1, <3>1 DEF FillsOf, QuantitySum, MapThenSumSet, MapThenFoldSet
    <3>3. IsFiniteSet(S) /\ IsFiniteSet(T)
      BY <3>1, FS_Subset
    <3>4. \A g \in T : w[g] = g.quantity /\ w[g] \in Nat
      <4>1. \A g \in FillRow : g.quantity \in Nat
        BY DEF FillRow
      <4> QED BY <4>1
    <3> HIDE DEF S, T, w
    <3>5. QuantitySum(S) = Sum(w, S) /\ QuantitySum(T) = Sum(w, T)
      BY <3>1, <3>3, <3>4, QuantitySumIs
    <3>6. Sum(w, S) <= Sum(w, T)
      BY <3>1, <3>3, <3>4, SumPart
    <3>7. FillsOf(x, fills)' = orders'[o].filled
      BY <2>1 DEF BooksAgree
    <3>8. Sum(w, S) \in Nat /\ orders'[o].filled \in Nat
      BY <1>1, <1>4, <3>1, <3>3, <3>4, SumNat
    <3>9. FillsOf(x, S) <= Volume[q]
      BY <1>2, <1>5, <2>1, <3>2, <3>5, <3>6, <3>7, <3>8
    <3>10. FillsOf(x, FromSnapshots(x))' = FillsOf(x, S)
      BY <3>1 DEF FillsOf, MapThenSumSet, MapThenFoldSet
    <3> QED BY <1>3, <3>1, <3>9, <3>10
  <2>2. CASE ~(x = o /\ q \in Snapshots)
    <3>1. FromSnapshots(x)' = FromSnapshots(x)
      BY <1>1, <1>3, <2>2 DEF FromSnapshots
    <3>2. FillsOf(x, FromSnapshots(x))' = FillsOf(x, FromSnapshots(x))
      BY <3>1 DEF FillsOf, MapThenSumSet, MapThenFoldSet
    <3>3. \E g \in FromSnapshots(x) : FillsOf(x, FromSnapshots(x)) <= Volume[g.event]
      BY <1>7, <3>1 DEF VolumeInv, WithinSnapshot
    <3> QED BY <3>1, <3>2, <3>3
  <2> QED BY <2>1, <2>2
<1>8. WithinSnapshot'
  BY <1>7 DEF WithinSnapshot
<1> QED BY <1>6, <1>8 DEF VolumeInv

LEMMA VolumeNext ==
  Types /\ Types' /\ OrderStates /\ BooksAgree /\ BooksAgree' /\ VolumeInv /\ [Next]_vars
    => VolumeInv'
<1> SUFFICES ASSUME Types, Types', OrderStates, BooksAgree, BooksAgree', VolumeInv, [Next]_vars
             PROVE  VolumeInv'
  OBVIOUS
<1>1. CASE fills' = fills
  BY <1>1 DEF VolumeInv, WithinVolume, WithinSnapshot, FromSnapshots, FillsOf, MapThenSumSet, MapThenFoldSet
<1>2. fills' \subseteq FillRow /\ IsFiniteSet(fills')
  BY DEF Types, TableTypes, Rows
<1>3. CASE \E o \in Orders, q \in Quotes, now \in Moments : now >= DayLength /\ Fill(o, q, now)
  BY <1>2, <1>3, VolumeFill
<1> QED BY <1>1, <1>3, BookSteps

(* No liquidity is used twice (_cumulative_snapshot and the volumes the    *)
(* matcher is given), for any quotes and however ticks use them.           *)
THEOREM LiquidityIsUsedOnce == Spec => []LiquidityOnce
<1>1. Types /\ VolumeInv => LiquidityOnce
  <2> SUFFICES ASSUME Types, VolumeInv PROVE LiquidityOnce
    OBVIOUS
  <2>1. ASSUME NEW o \in Orders, FromSnapshots(o) # {}
        PROVE  FillsOf(o, FromSnapshots(o)) <= Max({Volume[f.event] : f \in FromSnapshots(o)})
    <3> DEFINE V == {Volume[f.event] : f \in FromSnapshots(o)}
    <3>1. PICK f \in FromSnapshots(o) : FillsOf(o, FromSnapshots(o)) <= Volume[f.event]
      BY <2>1 DEF VolumeInv, WithinSnapshot
    <3>2. FromSnapshots(o) \subseteq fills /\ IsFiniteSet(FromSnapshots(o)) /\ fills \subseteq FillRow
      <4>1. FromSnapshots(o) \subseteq fills /\ IsFiniteSet(fills) /\ fills \subseteq FillRow
        BY DEF FromSnapshots, Types, TableTypes, Rows
      <4> QED BY <4>1, FS_Subset
    <3>3. \A g \in FromSnapshots(o) : Volume[g.event] \in Nat /\ g.quantity \in Nat
      BY <3>2, PaperAssumption DEF FillRow
    <3>4. IsFiniteSet(V)
      <4> DEFINE h == [g \in FromSnapshots(o) |-> Volume[g.event]]
      <4>1. h \in [FromSnapshots(o) -> V] /\ \A v \in V : \E g \in FromSnapshots(o) : h[g] = v
        OBVIOUS
      <4>2. h \in Surjection(FromSnapshots(o), V)
        BY <4>1 DEF Surjection
      <4> QED BY <3>2, <4>2, FS_Surjection
    <3>5. V \subseteq Int /\ V # {} /\ Volume[f.event] \in V
      BY <3>1, <3>3
    <3> HIDE DEF V
    <3>6. Max(V) \in V /\ \A y \in V : Max(V) >= y
      BY ONLY <3>4, <3>5, GreatestOf
    <3>7. FillsOf(o, FromSnapshots(o)) \in Int
      <4> DEFINE w == [g \in FromSnapshots(o) |-> g.quantity]
                 S == {g \in FromSnapshots(o) : g.order = o}
      <4>1. S = FromSnapshots(o) /\ \A g \in S : w[g] = g.quantity /\ w[g] \in Nat
        BY <3>3 DEF FromSnapshots
      <4>2. FillsOf(o, FromSnapshots(o)) = QuantitySum(S)
        BY DEF FillsOf, QuantitySum
      <4> HIDE DEF w, S
      <4>3. QuantitySum(S) = Sum(w, S) /\ Sum(w, S) \in Nat
        BY <3>2, <4>1, QuantitySumIs, SumNat
      <4> QED BY <4>2, <4>3
    <3>8. FillsOf(o, FromSnapshots(o)) <= Max(V)
      BY <3>1, <3>5, <3>6, <3>7
    <3> QED BY <3>8 DEF V
  <2>2. \A f \in fills : f.quantity <= Volume[f.event]
    BY DEF VolumeInv, WithinVolume
  <2> QED BY <2>1, <2>2 DEF LiquidityOnce, FromSnapshots
<1>2. Init => VolumeInv
  BY DEF Init, VolumeInv, WithinVolume, WithinSnapshot, FromSnapshots
<1>3. PlanInv => Types /\ OrderStates
  BY DEF PlanInv
<1> QED
  BY <1>1, <1>2, <1>3, VolumeNext, PlanInvAlways, TheBooksAgree, PTL DEF Spec

-----------------------------------------------------------------------------
(* The rules of LedgerBook *)

BookFills == {[key |-> <<f.order, f.event>>, quantity |-> f.quantity, day |-> Day(f.at)] :
                f \in fills}

LEMMA TakenSum ==
  ASSUME NEW w, NEW S, IsFiniteSet(S)
  PROVE  MapThenSumSet(LAMBDA n : w[n], S) = Sum(w, S)
<1> DEFINE F(h) == [s \in SUBSET S |-> IF s = {} THEN 0 ELSE w[Some(s)] + h[Rest(s)]]
           g == CHOOSE h : h = F(h)
<1>2. ASSUME NEW h PROVE h = F(h) <=> IsSum(h, S, w)
  BY DEF IsSum
<1>3. \E h : h = F(h)
  BY <1>2, SumExists
<1>4. MapThenSumSet(LAMBDA n : w[n], S) = g[S]
  BY DEF MapThenSumSet, MapThenFoldSet, Some, Rest
<1> HIDE DEF F
<1>5. g = F(g)
  BY <1>3
<1> HIDE DEF g
<1>6. IsSum(g, S, w) /\ S \subseteq S
  BY <1>2, <1>5
<1> QED BY <1>4, <1>6, SumIs

LEMMA DayWithin ==
  ASSUME NEW t \in Moments, t >= DayLength
  PROVE  Day(t) \in 1..Day(Horizon)
<1>1. DayLength \in Nat \ {0} /\ Horizon \in Nat /\ t \in Nat /\ t <= Horizon
  BY PaperAssumption DEF Moments
<1> DEFINE d == t \div DayLength
           e == Horizon \div DayLength
<1>2. /\ d \in Int /\ e \in Int
      /\ DayLength * d <= t /\ t < DayLength * (d + 1)
      /\ DayLength * e <= Horizon /\ Horizon < DayLength * (e + 1)
  BY <1>1
<1> HIDE DEF d, e
<1>3. d >= 1
  <2>1. SUFFICES ASSUME d + 1 <= 1 PROVE FALSE
    BY <1>2
  <2>2. DayLength * (d + 1) <= DayLength
    BY <1>1, <1>2, <2>1
  <2> QED BY <1>1, <1>2, <2>2
<1>4. d <= e
  <2>1. SUFFICES ASSUME e + 1 <= d PROVE FALSE
    BY <1>2
  <2>2. DayLength * (e + 1) <= DayLength * d
    BY <1>1, <1>2, <2>1
  <2>3. DayLength * (e + 1) \in Int /\ DayLength * d \in Int
    BY <1>1, <1>2
  <2> QED BY <1>1, <1>2, <2>2, <2>3
<1> QED BY <1>2, <1>3, <1>4 DEF Day, d, e

LEMMA WithinLargest ==
  ASSUME NEW o \in Orders, NEW n \in Nat, n <= Quantity[o]
  PROVE  n <= Largest /\ Largest \in Nat
<1> DEFINE Q == {Quantity[x] : x \in Orders}
           h == [x \in Orders |-> Quantity[x]]
<1>1. IsFiniteSet(Orders) /\ \A x \in Orders : Quantity[x] \in Nat
  BY PaperAssumption
<1>2. IsFiniteSet(Q)
  <2>1. h \in [Orders -> Q] /\ \A v \in Q : \E x \in Orders : h[x] = v
    OBVIOUS
  <2>2. h \in Surjection(Orders, Q)
    BY <2>1 DEF Surjection
  <2> QED BY <1>1, <2>2, FS_Surjection
<1>3. Q \subseteq Int /\ Q # {} /\ Quantity[o] \in Q /\ Q \subseteq Nat
  BY <1>1
<1>4. Largest = Max(Q)
  BY DEF Largest
<1> HIDE DEF Q
<1>5. Max(Q) \in Q /\ \A y \in Q : Max(Q) >= y
  BY ONLY <1>2, <1>3, GreatestOf
<1>6. Largest \in Nat /\ Quantity[o] <= Largest /\ Quantity[o] \in Nat
  BY <1>1, <1>3, <1>4, <1>5
<1> QED BY <1>6

(* A sale takes from a lot only what the settled lots before it could not  *)
(* give (_consume_sell_lots).                                              *)
LEMMA OldestFirst ==
  ASSUME lots \in Seq(Lot), NEW s, NEW day, NEW quantity \in Int,
         NEW n \in SettledLots(s, day), NEW m \in SettledLots(s, day), n < m,
         Taken(s, day, quantity, m) > 0
  PROVE  Taken(s, day, quantity, n) = lots[n].left
<1> DEFINE A == Earlier(s, day, n)
           B == Earlier(s, day, m)
<1>1. /\ n \in DOMAIN lots /\ m \in DOMAIN lots /\ DOMAIN lots \subseteq Int
      /\ A \in SUBSET DOMAIN lots /\ B \in SUBSET DOMAIN lots
  BY LotSums DEF SettledLots, Earlier
<1>2. n \notin A /\ A \cup {n} \subseteq B
  BY <1>1 DEF Earlier, Precedes
<1>3. /\ IsFiniteSet(A) /\ IsFiniteSet(B) /\ Sum(Left, A) \in Nat /\ Sum(Left, B) \in Nat
      /\ \A x \in B : Left[x] \in Nat
      /\ Left[n] \in Nat /\ Left[n] = lots[n].left /\ lots[m].left \in Nat
  <2>1. \A x \in DOMAIN lots : Left[x] \in Nat /\ Left[x] = lots[x].left
    BY LotSums DEF Left
  <2> HIDE DEF A, B
  <2> QED BY <1>1, <2>1, LotSums
<1>4. /\ Taken(s, day, quantity, m) = (IF quantity - Sum(Left, B) <= 0 THEN 0
           ELSE IF quantity - Sum(Left, B) <= lots[m].left THEN quantity - Sum(Left, B)
           ELSE lots[m].left)
      /\ Taken(s, day, quantity, n) = (IF quantity - Sum(Left, A) <= 0 THEN 0
           ELSE IF quantity - Sum(Left, A) <= lots[n].left THEN quantity - Sum(Left, A)
           ELSE lots[n].left)
  <2>1. \A x \in SettledLots(s, day) :
          LET rest == quantity - Sum(Left, Earlier(s, day, x))
          IN  Taken(s, day, quantity, x) =
                IF rest <= 0 THEN 0 ELSE IF rest <= lots[x].left THEN rest ELSE lots[x].left
    BY AfterSaleIs
  <2> QED BY <2>1
<1> HIDE DEF A, B
<1>5. Sum(Left, A \cup {n}) = Left[n] + Sum(Left, A)
  <2>1. \A x \in A \cup {n} : Left[x] \in Int
    BY <1>2, <1>3
  <2> QED BY <1>2, <1>3, <2>1, SumAdd
<1>6. Sum(Left, A \cup {n}) <= Sum(Left, B)
  BY <1>2, <1>3, SumPart
<1>7. quantity - Sum(Left, B) > 0
  BY <1>3, <1>4
<1> QED BY <1>3, <1>4, <1>5, <1>6, <1>7

LEMMA SaleIsFirstInFirstOut ==
  ASSUME lots \in Seq(Lot), NEW s, NEW day, NEW quantity \in Nat,
         quantity <= AvailableToSell(s, day), lots' = AfterSale(s, day, quantity)
  PROVE  LB!FirstInFirstOut(s, quantity, day) /\ Len(lots') = Len(lots)
<1> DEFINE w == TakenOf(s, day, quantity)
           E == SettledLots(s, day)
           taken == [n \in DOMAIN lots |-> lots[n].left - lots'[n].left]
<1>0. quantity \in Int
  OBVIOUS
<1>1. ASSUME NEW n \in DOMAIN lots
      PROVE  /\ w[n] \in 0..lots[n].left /\ lots[n].left \in Nat
             /\ lots'[n] = [lots[n] EXCEPT !.left = @ - w[n]]
             /\ lots[n].left - lots'[n].left = w[n] /\ taken[n] = w[n]
             /\ lots'[n].left = lots[n].left - w[n]
             /\ (w[n] > 0 => n \in E)
  <2>1. /\ lots'[n] = [lots[n] EXCEPT !.left = lots[n].left - Taken(s, day, quantity, n)]
        /\ Taken(s, day, quantity, n) \in 0..lots[n].left
    BY <1>0, AfterSaleIs
  <2>2. lots[n] \in Lot /\ lots[n].left \in Nat
    BY LotSums DEF Lot
  <2>3. w[n] = Taken(s, day, quantity, n) /\ (n \notin E => w[n] = 0)
    BY DEF TakenOf, Taken
  <2>4. taken[n] = lots[n].left - lots'[n].left
    OBVIOUS
  <2> HIDE DEF w, E, taken
  <2>5. lots'[n].left = lots[n].left - w[n]
    BY <2>1, <2>2, <2>3 DEF Lot
  <2> QED BY <2>1, <2>2, <2>3, <2>4, <2>5
<1>2. taken = w
  <2>1. taken = [n \in DOMAIN lots |-> taken[n]] /\ w = [n \in DOMAIN lots |-> w[n]]
    BY DEF TakenOf
  <2> HIDE DEF taken, w
  <2> QED BY <1>1, <2>1
<1>3. MapThenSumSet(LAMBDA n : taken[n], DOMAIN lots) = quantity
  <2> DEFINE D == DOMAIN lots
             O == D \ E
  <2>1. IsFiniteSet(D) /\ E \subseteq D /\ D = E \cup O /\ E \cap O = {}
    BY LotSums DEF SettledLots
  <2>2. IsFiniteSet(E) /\ IsFiniteSet(O)
    <3>1. O \subseteq D
      OBVIOUS
    <3> HIDE DEF D, E, O
    <3> QED BY <2>1, <3>1, FS_Subset
  <2>3. (\A n \in E \cup O : w[n] \in Int) /\ \A n \in O : w[n] = 0
    <3>1. \A n \in D : w[n] \in 0..lots[n].left /\ lots[n].left \in Nat /\ (w[n] > 0 => n \in E)
      BY <1>1
    <3> HIDE DEF w, E
    <3>2. \A n \in D : w[n] \in Int /\ (n \notin E => w[n] = 0)
      BY <3>1
    <3> QED BY <2>1, <3>2
  <2>4. Sum(w, E) = quantity
    BY SaleTakes
  <2>5. MapThenSumSet(LAMBDA n : taken[n], D) = Sum(taken, D)
    <3> HIDE DEF taken, D
    <3> QED BY <2>1, TakenSum
  <2> HIDE DEF w, E, O, D, taken
  <2>6. Sum(w, D) = Sum(w, E) + Sum(w, O)
    BY <2>1, <2>2, <2>3, SumUnion
  <2>7. Sum(w, O) = 0
    BY <2>2, <2>3, SumZero
  <2> QED BY <1>2, <2>4, <2>5, <2>6, <2>7 DEF D
<1>4. ASSUME NEW n \in DOMAIN lots, NEW m \in DOMAIN lots, n < m, taken[m] > 0,
             Settled(lots[n], s, day)
      PROVE  lots'[n].left = 0
  <2>1. n \in E /\ m \in E /\ w[m] > 0
    BY <1>1, <1>4 DEF SettledLots
  <2>2. Taken(s, day, quantity, m) = w[m] /\ Taken(s, day, quantity, n) = w[n]
    BY DEF TakenOf
  <2>3. w[n] = lots[n].left
    <3> HIDE DEF w
    <3> QED BY <1>0, <1>4, <2>1, <2>2, OldestFirst
  <2> HIDE DEF w
  <2>4. lots'[n].left = lots[n].left - w[n] /\ lots[n].left \in Nat
    BY <1>1
  <2> QED BY <2>3, <2>4
<1>5. \A n \in DOMAIN lots :
         /\ taken[n] \in 0..lots[n].left
         /\ lots'[n] = [lots[n] EXCEPT !.left = @ - taken[n]]
         /\ taken[n] > 0 => Settled(lots[n], s, day)
  <2>1. \A n \in E : Settled(lots[n], s, day)
    BY DEF SettledLots
  <2> HIDE DEF w, E, taken
  <2> QED BY <1>1, <2>1
<1>6. Len(lots') = Len(lots)
  BY <1>0, AfterSaleIn
<1>7. \A lot : LB!Sellable(lot, s, day) <=> Settled(lot, s, day)
  BY DEF LB!Sellable, Settled
<1>8. LB!FirstInFirstOut(s, quantity, day)
  <2>1. LB!MapThenSumSet(LAMBDA n : taken[n], DOMAIN lots) =
          MapThenSumSet(LAMBDA n : taken[n], DOMAIN lots)
    BY DEF LB!MapThenSumSet, LB!MapThenFoldSet, MapThenSumSet, MapThenFoldSet
  <2>2. LB!MapThenSumSet(LAMBDA n : taken[n], DOMAIN lots) = quantity
    BY <1>3, <2>1
  <2>3. \A n, m \in DOMAIN lots :
          n < m /\ taken[m] > 0 /\ LB!Sellable(lots[n], s, day) => lots'[n].left = 0
    BY <1>4, <1>7
  <2>4. \A n \in DOMAIN lots :
         /\ taken[n] \in 0..lots[n].left
         /\ lots'[n] = [lots[n] EXCEPT !.left = @ - taken[n]]
         /\ taken[n] > 0 => LB!Sellable(lots[n], s, day)
    BY <1>5, <1>7
  <2> QED BY <2>2, <2>3, <2>4 DEF LB!FirstInFirstOut
<1> QED BY <1>6, <1>8

LEMMA FillMaps ==
  ASSUME Types, BooksAgree, NEW o \in Orders, NEW q \in Quotes, NEW now \in Moments,
         now >= DayLength, Fill(o, q, now)
  PROVE  LB!Next
<1> DEFINE n == MatchQuantity(o, q, now)
           net == IF o \in Buys THEN -(n * PriceOf[q]) ELSE n * PriceOf[q]
           k == <<o, q>>
           day == Day(now)
           f == [order |-> o, event |-> q, quantity |-> n, at |-> now]
           lot == [stock |-> StockOf[o], opened |-> day,
                   settles |-> day + SettlementDays, left |-> n]
           price == [x \in Orders \X Quotes |-> PriceOf[x[2]]]
           stock == [x \in Orders \X Quotes |-> StockOf[x[1]]]
<1>1. /\ n \in Nat \ {0} /\ n * PriceOf[q] \in Nat /\ net \in Int
      /\ n <= Remaining(o) /\ (o \notin Buys => n <= AvailableToSell(StockOf[o], day))
      /\ Affordable(o, n * PriceOf[q]) /\ ~FilledBy(o, q)
  BY FillIs
<1>2. /\ fills' = fills \cup {f} /\ account' = [account EXCEPT !.cash = account.cash + net]
      /\ o \in Buys => lots' \in Insertions(lots, lot, "opened")
      /\ o \notin Buys => lots' = AfterSale(StockOf[o], day, n)
  BY FillIs
<1>3. /\ orders \in [Orders -> OrderRow] /\ account \in AccountRow /\ lots \in Seq(Lot)
      /\ Buys \subseteq Orders
  BY PaperAssumption DEF Types, TableTypes, Rows
<1>4. Affordable(o, n * PriceOf[q]) <=> (o \in Buys => n * PriceOf[q] <= account.cash)
  BY DEF Affordable
<1>5. day \in 1..Day(Horizon)
  BY DayWithin
<1> HIDE DEF n, day
<1>6. n \in 1..Largest
  <2>1. orders[o].filled \in Nat /\ Quantity[o] \in Nat
    BY <1>3, PaperAssumption DEF OrderRow
  <2>2. n <= Quantity[o]
    BY <1>1, <2>1 DEF Remaining
  <2>3. n <= Largest /\ Largest \in Nat
    <3>1. n \in Nat
      BY <1>1
    <3> QED BY <2>2, <3>1, WithinLargest
  <2> QED BY <1>1, <2>3
<1>7. k \in Orders \X Quotes /\ (k \in Buys \X Quotes <=> o \in Buys)
      /\ price[k] = PriceOf[q] /\ stock[k] = StockOf[o]
  OBVIOUS
<1>8. BookFills' = BookFills \cup {[key |-> k, quantity |-> n, day |-> day]}
  <2>1. /\ f.order = o /\ f.event = q /\ f.quantity = n /\ Day(f.at) = day
    BY DEF day
  <2> HIDE DEF f
  <2> QED BY <1>2, <2>1 DEF BookFills
<1>9. \A g \in BookFills : g.key # k
  <2>1. \A g \in fills : ~(g.order = o /\ g.event = q)
    BY <1>1 DEF FilledBy
  <2> QED BY <2>1 DEF BookFills
<1>10. account.cash \in Int /\ account'.cash = account.cash + net
  BY <1>2, <1>3 DEF AccountRow
<1>11. LB!Record(k, n, day) /\ LB!New(k)
  BY <1>8, <1>9 DEF LB!Record, LB!New, BookFills
<1>12. CASE o \in Buys
  <2>1. PICK p \in 1..(Len(lots) + 1) : lots' = InsertAt(lots, p, lot)
    BY <1>2, <1>12 DEF Insertions
  <2>2. \A m \in 1..(Len(lots') - 1) : lots'[m].opened <= lots'[m + 1].opened
    <3>1. \A m \in 1..(Len(lots') - 1) : lots'[m]["opened"] <= lots'[m + 1]["opened"]
      BY <1>2, <1>12 DEF Insertions
    <3> QED BY <3>1
  <2>3. account.cash >= n * price[k] /\ account'.cash = account.cash - n * price[k]
    <3> DEFINE amount == n * PriceOf[q]
    <3>1. amount \in Nat /\ amount <= account.cash /\ net = -amount
      BY <1>1, <1>4, <1>12
    <3>2. n * price[k] = amount
      BY <1>7
    <3> HIDE DEF amount, net, price
    <3> QED BY <1>10, <3>1, <3>2
  <2>4. lot = [stock |-> stock[k], opened |-> day, settles |-> day + SettlementDays, left |-> n]
    BY <1>7
  <2>5. \E m \in 1..(Len(lots) + 1) :
          lots' = LB!InsertAt(lots, m, [stock |-> stock[k], opened |-> day,
                                     settles |-> day + SettlementDays, left |-> n])
    BY <2>1, <2>4 DEF LB!InsertAt, InsertAt
  <2>6. LB!InLotOrder(lots')
    BY <2>2 DEF LB!InLotOrder
  <2>7. k \in Buys \X Quotes
    BY <1>7, <1>12
  <2>8. LB!Buy(k, n, day)
    <3> HIDE DEF lot, net, k, f
    <3> QED BY <1>11, <2>3, <2>5, <2>6, <2>7 DEF LB!Buy
  <2> HIDE DEF k
  <2> QED BY <1>5, <1>6, <1>7, <2>8 DEF LB!Next
<1>13. CASE o \notin Buys
  <2>1. n \in Nat /\ n <= AvailableToSell(StockOf[o], day) /\ lots' = AfterSale(StockOf[o], day, n)
    BY <1>1, <1>2, <1>13
  <2>2. LB!FirstInFirstOut(StockOf[o], n, day) /\ Len(lots') = Len(lots)
    BY <1>3, <2>1, SaleIsFirstInFirstOut
  <2>3. LB!Available(StockOf[o], day) = AvailableToSell(StockOf[o], day)
    BY DEF LB!Available, AvailableToSell, LB!Sellable, Settled, LB!MapThenSumSet,
           LB!MapThenFoldSet, MapThenSumSet, MapThenFoldSet
  <2>4. AvailableToSell(StockOf[o], day) \in Int
    <3>1. SettledLots(StockOf[o], day) \in SUBSET DOMAIN lots
      BY DEF SettledLots
    <3> QED BY <1>3, <3>1, LotSums
  <2>5. account'.cash = account.cash + n * price[k]
    BY <1>7, <1>10, <1>13
  <2>6. LB!Available(stock[k], day) >= n
    BY <1>7, <2>1, <2>3, <2>4
  <2>7. k \in (Orders \X Quotes) \ (Buys \X Quotes)
    BY <1>7, <1>13
  <2>8. LB!FirstInFirstOut(stock[k], n, day)
    BY <1>7, <2>2
  <2>9. LB!Sell(k, n, day)
    <3> HIDE DEF lot, net, k, f
    <3> QED BY <1>11, <2>2, <2>5, <2>6, <2>7, <2>8 DEF LB!Sell
  <2> HIDE DEF k
  <2> QED BY <1>5, <1>6, <1>7, <2>9 DEF LB!Next
<1> QED BY <1>12, <1>13

(* The five tables, whatever works on them, implement the accounting rules *)
(* shared with replay (ledger.py, LedgerBook), for all constants: cash and *)
(* lots change only by one buy or one first-in-first-out sell of settled   *)
(* lots, once for each order and quote.                                    *)
THEOREM TablesImplementLedger == Spec => ImplementsLedgerBook
<1>1. Init => LB!Init
  BY DEF Init, LB!Init
<1>2. Types /\ OrderStates /\ BooksAgree /\ [Next]_vars => [LB!Next]_(LB!book)
  <2> SUFFICES ASSUME Types, OrderStates, BooksAgree, [Next]_vars
               PROVE  LB!Next \/ UNCHANGED LB!book
    OBVIOUS
  <2>1. CASE account'.cash = account.cash /\ UNCHANGED <<fills, ledger, lots>>
    BY <2>1 DEF LB!book
  <2>2. CASE \E o \in Orders, q \in Quotes, now \in Moments : now >= DayLength /\ Fill(o, q, now)
    BY <2>2, FillMaps
  <2> QED BY <2>1, <2>2, BookSteps
<1>3. PlanInv => Types /\ OrderStates
  BY DEF PlanInv
<1>4. Spec => LB!Spec
  BY <1>1, <1>2, <1>3, PlanInvAlways, TheBooksAgree, PTL DEF Spec, LB!Spec
<1> QED BY <1>4 DEF ImplementsLedgerBook

-----------------------------------------------------------------------------
(* The reconciliation of books written in the order of time *)

(* A fill is later than every row the ledger has. *)
InTime == \A f \in fills' \ fills : \A n \in DOMAIN ledger : ledger[n].at < f.at

Chained ==
  /\ Len(ledger) > 0
  /\ \A n \in 1..Len(ledger) : ledger[n].after = Total(SubSeq(ledger, 1, n))

LEMMA FirstRows ==
  ASSUME NEW s \in Seq(Entry), NEW n \in 0..Len(s)
  PROVE  /\ SubSeq(s, 1, n) \in Seq(Entry) /\ Len(SubSeq(s, 1, n)) = n
         /\ \A i \in 1..n : SubSeq(s, 1, n)[i] = s[i]
<1>1. Len(s) \in Nat /\ n \in Nat /\ \A i \in 1..n : s[i] \in Entry
  BY LenProperties, ElementOfSeq
<1>2. /\ SubSeq(s, 1, n) \in Seq(Entry)
      /\ Len(SubSeq(s, 1, n)) = IF 1 <= n THEN n - 1 + 1 ELSE 0
      /\ \A i \in 1..(n - 1 + 1) : SubSeq(s, 1, n)[i] = s[1 + i - 1]
  BY <1>1, SubSeqProperties
<1> QED BY <1>1, <1>2

(* A row later than all others goes to the end. *)
LEMMA LastRow ==
  ASSUME NEW seq \in Seq(Entry), NEW e \in Entry, NEW t \in Insertions(seq, e, "at"),
         \A n \in 1..Len(seq) : seq[n].at < e.at
  PROVE  /\ t \in Seq(Entry) /\ Len(t) = Len(seq) + 1 /\ t[Len(seq) + 1] = e
         /\ \A n \in 1..Len(seq) : t[n] = seq[n]
<1>1. PICK k \in 1..(Len(seq) + 1) : InsertedAt(t, Entry, seq, e, k)
  BY InsertionIs
<1>2. /\ t \in Seq(Entry) /\ Len(t) = Len(seq) + 1
      /\ \A n \in 1..(Len(seq) + 1) :
           t[n] = IF n < k THEN seq[n] ELSE IF n = k THEN e ELSE seq[n - 1]
  BY <1>1 DEF InsertedAt
<1>3. Len(seq) \in Nat /\ k \in Nat
  BY LenProperties
<1>4. k = Len(seq) + 1
  <2> SUFFICES ASSUME k <= Len(seq) PROVE FALSE
    BY <1>3
  <2>1. k \in 1..(Len(t) - 1) /\ k \in 1..Len(seq) /\ k + 1 \in 1..(Len(seq) + 1)
    BY <1>2, <1>3
  <2>2. t[k].at <= t[k + 1].at
    BY <2>1 DEF Insertions
  <2>3. t[k] = e
    BY <1>2
  <2>4. t[k + 1] = seq[k]
    <3>1. ~(k + 1 < k) /\ k + 1 # k /\ (k + 1) - 1 = k
      BY <1>3
    <3> QED BY <1>2, <2>1, <3>1
  <2>5. e.at \in Int /\ seq[k].at \in Int
    <3>1. seq[k] \in Entry
      BY <2>1, ElementOfSeq
    <3> QED BY <3>1 DEF Entry, Moments
  <2>6. seq[k].at < e.at
    BY <2>1
  <2> QED BY <2>2, <2>3, <2>4, <2>5, <2>6
<1>5. t[Len(seq) + 1] = e
  BY <1>2, <1>4
<1>6. ASSUME NEW n \in 1..Len(seq) PROVE t[n] = seq[n]
  BY <1>2, <1>3, <1>4
<1> QED BY <1>2, <1>5, <1>6

LEMMA ChainedFill ==
  ASSUME Types, BooksAgree, Chained, InTime,
         NEW o \in Orders, NEW q \in Quotes, NEW now \in Moments, Fill(o, q, now)
  PROVE  Chained'
<1> DEFINE n == MatchQuantity(o, q, now)
           net == IF o \in Buys THEN -(n * PriceOf[q]) ELSE n * PriceOf[q]
           f == [order |-> o, event |-> q, quantity |-> n, at |-> now]
           entry == [amount |-> net, after |-> account.cash + net, at |-> now]
           N == Len(ledger)
<1>1. /\ net \in Int /\ ~FilledBy(o, q)
      /\ fills' = fills \cup {f} /\ ledger' \in Insertions(ledger, entry, "at")
  BY FillIs
<1>2. ledger \in Seq(Entry) /\ account.cash \in Int /\ account.cash = Total(ledger)
  BY DEF Types, TableTypes, Rows, AccountRow, BooksAgree
<1>3. N \in Nat /\ DOMAIN ledger = 1..N
  BY <1>2, LenProperties
<1>4. f \in fills' \ fills /\ f.at = now
  <2>1. f.order = o /\ f.event = q /\ f.at = now
    OBVIOUS
  <2> HIDE DEF f
  <2> QED BY <1>1, <2>1 DEF FilledBy
<1>5. \A i \in 1..N : ledger[i].at < now
  <2> HIDE DEF f, N
  <2> QED BY <1>3, <1>4 DEF InTime
<1>6. /\ entry \in Entry /\ entry.at = now /\ entry.amount = net
      /\ entry.after = account.cash + net
  BY <1>1, <1>2 DEF Entry
<1> HIDE DEF f, entry, net
<1>7. /\ ledger' \in Seq(Entry) /\ Len(ledger') = N + 1 /\ ledger'[N + 1] = entry
      /\ \A i \in 1..N : ledger'[i] = ledger[i]
  BY <1>1, <1>2, <1>5, <1>6, LastRow
<1>8. Total(ledger') = entry.after
  <2>1. Total(ledger') = Total(ledger) + entry.amount
    BY <1>1, <1>2, <1>6, TotalInserted
  <2> QED BY <1>2, <1>6, <2>1
<1> HIDE DEF N
<1>9. ASSUME NEW i \in 1..(N + 1) PROVE ledger'[i].after = Total(SubSeq(ledger', 1, i))
  <2>1. /\ SubSeq(ledger', 1, i) \in Seq(Entry) /\ Len(SubSeq(ledger', 1, i)) = i
        /\ \A j \in 1..i : SubSeq(ledger', 1, i)[j] = ledger'[j]
    <3>1. i \in 0..Len(ledger')
      BY <1>3, <1>7
    <3> QED BY <1>7, <3>1, FirstRows
  <2>2. CASE i = N + 1
    <3>1. SubSeq(ledger', 1, i) = ledger'
      BY <1>7, <2>1, <2>2, SeqEqual
    <3> QED BY <1>7, <1>8, <2>2, <3>1
  <2>3. CASE i # N + 1
    <3>1. i \in 1..N /\ i \in 0..Len(ledger)
      BY <1>3, <2>3 DEF N
    <3>2. /\ SubSeq(ledger, 1, i) \in Seq(Entry) /\ Len(SubSeq(ledger, 1, i)) = i
          /\ \A j \in 1..i : SubSeq(ledger, 1, i)[j] = ledger[j]
      BY <1>2, <3>1, FirstRows
    <3>3. \A j \in 1..i : ledger'[j] = ledger[j]
      BY <1>3, <1>7, <3>1
    <3>4. SubSeq(ledger', 1, i) = SubSeq(ledger, 1, i)
      BY <2>1, <3>2, <3>3, SeqEqual
    <3>5. ledger[i].after = Total(SubSeq(ledger, 1, i))
      BY <3>1 DEF Chained, N
    <3> QED BY <1>7, <3>1, <3>4, <3>5
  <2> QED BY <2>2, <2>3
<1>10. Len(ledger') > 0
  BY <1>3, <1>7
<1>11. (\A i \in 1..Len(ledger) : ledger[i].after = Total(SubSeq(ledger, 1, i)))'
  BY <1>7, <1>9 DEF Total, FoldSeq, FoldFunction, FoldFunctionOnSet, MapThenFoldSet
<1> QED BY <1>10, <1>11 DEF Chained

LEMMA ChainedInit == Init => Chained
<1> SUFFICES ASSUME Init PROVE Chained
  OBVIOUS
<1>1. BooksAgree /\ account.cash = Deposit
  BY BooksInit DEF Init
<1>2. /\ ledger = <<[amount |-> Deposit, after |-> Deposit, at |-> 0]>>
      /\ Len(ledger) = 1 /\ ledger[1].after = Deposit
  BY DEF Init
<1>3. ledger \in Seq(Entry)
  BY TypesInit DEF Types, TableTypes, Rows
<1>4. /\ SubSeq(ledger, 1, 1) \in Seq(Entry) /\ Len(SubSeq(ledger, 1, 1)) = 1
      /\ \A i \in 1..1 : SubSeq(ledger, 1, 1)[i] = ledger[i]
  <2>1. 1 \in 0..Len(ledger)
    BY <1>2
  <2> QED BY <1>3, <2>1, FirstRows
<1>5. SubSeq(ledger, 1, 1) = ledger
  BY <1>2, <1>3, <1>4, SeqEqual
<1>6. Total(ledger) = Deposit
  BY <1>1 DEF BooksAgree
<1>7. ASSUME NEW n \in 1..Len(ledger)
      PROVE  ledger[n].after = Total(SubSeq(ledger, 1, n))
  <2>1. n = 1
    BY <1>2
  <2> QED BY <1>2, <1>5, <1>6, <2>1
<1>8. Len(ledger) > 0
  BY <1>2
<1> QED BY <1>7, <1>8 DEF Chained

LEMMA ChainedNext ==
  Types /\ OrderStates /\ BooksAgree /\ Chained /\ [Next]_vars /\ [InTime]_vars => Chained'
<1> SUFFICES ASSUME Types, OrderStates, BooksAgree, Chained, [Next]_vars, [InTime]_vars
             PROVE  Chained'
  OBVIOUS
<1>1. CASE UNCHANGED ledger
  <2>1. (\A n \in 1..Len(ledger) : ledger[n].after = Total(SubSeq(ledger, 1, n)))'
    <3>1. \A n \in 1..Len(ledger) : ledger[n].after = Total(SubSeq(ledger, 1, n))
      BY DEF Chained
    <3>2. ASSUME NEW n PROVE Total(SubSeq(ledger, 1, n))' = Total(SubSeq(ledger, 1, n))
      <4>1. SubSeq(ledger, 1, n)' = SubSeq(ledger, 1, n)
        BY <1>1
      <4> QED BY <4>1 DEF Total, FoldSeq, FoldFunction, FoldFunctionOnSet, MapThenFoldSet
    <3> QED BY <1>1, <3>1, <3>2
  <2>2. Len(ledger') > 0
    BY <1>1 DEF Chained
  <2> QED BY <2>1, <2>2 DEF Chained
<1>2. CASE \E o \in Orders, q \in Quotes, now \in Moments : now >= DayLength /\ Fill(o, q, now)
  <2>1. CASE InTime
    BY <1>2, <2>1, ChainedFill
  <2>2. CASE UNCHANGED vars
    BY <1>1, <2>2 DEF vars
  <2> QED BY <2>1, <2>2
<1> QED BY <1>1, <1>2, BookSteps

(* What reconcile_account finds on the books as they are. *)
OrderedBooks ==
  /\ CashChains(Day(Horizon))
  /\ \A day \in Nat : IsCurrent(day) => DayReconciles(day)

LEMMA ChainedReconciles == Types /\ BooksAgree /\ Chained => OrderedBooks
<1> SUFFICES ASSUME Types, BooksAgree, Chained PROVE OrderedBooks
  OBVIOUS
<1>1. ledger \in Seq(Entry) /\ account.cash = Total(ledger)
  BY DEF Types, TableTypes, Rows, BooksAgree
<1>2. Len(ledger) \in Nat /\ DOMAIN ledger = 1..Len(ledger) /\ Len(ledger) \in 1..Len(ledger)
  BY <1>1, LenProperties DEF Chained
<1>3. \A day : \A n \in By(day) : ledger[n].after = Total(SubSeq(ledger, 1, n))
  BY <1>2 DEF By, Chained
<1>4. SubSeq(ledger, 1, Len(ledger)) = ledger
  <2>1. Len(ledger) \in 0..Len(ledger)
    BY <1>2
  <2>2. LET s == SubSeq(ledger, 1, Len(ledger))
        IN  /\ s \in Seq(Entry) /\ Len(s) = Len(ledger)
            /\ \A i \in 1..Len(ledger) : s[i] = ledger[i]
    BY <1>1, <2>1, FirstRows
  <2> QED BY <1>1, <2>2, SeqEqual
<1>5. account.cash = ledger[Len(ledger)].after
  BY <1>1, <1>2, <1>4 DEF Chained
<1>6. \A day : CashChains(day)
  BY <1>3, <1>5 DEF CashChains
<1>7. ASSUME NEW day \in Nat, IsCurrent(day) PROVE DayReconciles(day)
  <2>1. \A s \in Stocks : Held(s) = Position(s, fills)
    BY DEF BooksAgree
  <2>2. \A o \in Orders : orders[o].filled = FillsOf(o, FillsBy(day))
    BY <1>7 DEF BooksAgree, IsCurrent
  <2> QED BY <1>6, <2>1, <2>2 DEF DayReconciles
<1> QED BY <1>6, <1>7 DEF OrderedBooks

(* When every fill is later than all fills before it, the daily            *)
(* reconciliation finds what LedgerBook.reconcile finds: two fills of one  *)
(* moment, or a tick that stalled behind a later one, are all that makes   *)
(* reconcile_account see a broken chain, or any other difference, in books *)
(* that agree.                                                             *)
THEOREM OrderedBooksReconcile == Spec /\ [][InTime]_vars => []OrderedBooks
<1>1. PlanInv => Types /\ OrderStates
  BY DEF PlanInv
<1>2. Spec => [](Types /\ OrderStates /\ BooksAgree)
  BY <1>1, PlanInvAlways, TheBooksAgree, PTL
<1> QED BY <1>2, ChainedInit, ChainedNext, ChainedReconciles, PTL DEF Spec
=============================================================================
