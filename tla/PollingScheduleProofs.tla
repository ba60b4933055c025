----------------------- MODULE PollingScheduleProofs -----------------------
(***************************************************************************)
(* Theorems about the schedule for any signals, intervals and service      *)
(* times: the signals keep the relative rates that were asked for, and the *)
(* schedule fits the budget without giving more than half of it away.      *)
(*                                                                         *)
(* The rates are sums over the scheduled signals, computed by the folds of *)
(* the community modules.  The first two sections prove, by induction over *)
(* the subsets of a finite set, that these folds are sums and products and *)
(* how two sums compare; the third bounds the rates of intervals that were *)
(* stretched by a factor against the rounded rates the factor is made of.  *)
(***************************************************************************)
EXTENDS PollingSchedule, FiniteSetTheorems, TLAPS

-----------------------------------------------------------------------------
(* Induction over the subsets of a finite set, as the absence of a smallest *)
(* counterexample.                                                          *)

\* A set of subsets that holds every subset whose strict subsets it holds.
LEMMA SubsetInduction ==
  ASSUME NEW S, IsFiniteSet(S), NEW Good \in SUBSET (SUBSET S),
         \A T \in SUBSET S : (\A U \in SUBSET S : U \subseteq T /\ U # T => U \in Good) => T \in Good
  PROVE  Good = SUBSET S
  <1> DEFINE Bad == (SUBSET S) \ Good
  <1> SUFFICES ASSUME Bad # {} PROVE FALSE
    OBVIOUS
  <1>1. IsWellFoundedOn(StrictSubsetOrdering(S), SUBSET S)
    <2>1. IsWellFoundedOn(StrictSubsetOrdering(S), FiniteSubsetsOf(S))
      BY FS_StrictSubsetOrderingWellFounded
    <2>2. FiniteSubsetsOf(S) = SUBSET S
      BY FS_FiniteSubsetsOfFinite
    <2> QED
      BY <2>1, <2>2
  <1>2. PICK T \in Bad : \A U \in Bad : ~(<<U, T>> \in StrictSubsetOrdering(S))
    <2>1. Bad \subseteq SUBSET S
      OBVIOUS
    <2> HIDE DEF Bad
    <2> QED
      BY <1>1, <2>1, WFMin
  <1>3. ASSUME NEW U \in SUBSET S, U \subseteq T, U # T
        PROVE  U \in Good
    BY <1>2, <1>3 DEF StrictSubsetOrdering
  <1> QED
    BY <1>2, <1>3

Pick(s) == CHOOSE x \in s : TRUE

\* g folds f over every subset of S: with a function of two numbers, by addition
\* and by multiplication.
IsFold(g, f, S, base, op) ==
  g = [s \in SUBSET S |-> IF s = {} THEN base ELSE op[f[Pick(s)]][g[s \ {Pick(s)}]]]

IsSum(g, f, S) ==
  g = [s \in SUBSET S |-> IF s = {} THEN 0 ELSE f[Pick(s)] + g[s \ {Pick(s)}]]

IsProduct(g, f, S) ==
  g = [s \in SUBSET S |-> IF s = {} THEN 1 ELSE f[Pick(s)] * g[s \ {Pick(s)}]]

LEMMA PickIsIn ==
  ASSUME NEW S, NEW s \in SUBSET S, s # {}
  PROVE  /\ Pick(s) \in s /\ Pick(s) \in S /\ s \ {Pick(s)} \in SUBSET S
         /\ s \ {Pick(s)} \subseteq s /\ s \ {Pick(s)} # s
  <1>1. Pick(s) \in s
    BY DEF Pick
  <1> QED
    BY <1>1

\* The recursion of MapThenFoldSet has a solution on every finite set.  It is
\* built up by the size of the subsets.
LEMMA FoldExists ==
  ASSUME NEW S, IsFiniteSet(S), NEW f \in [S -> Nat], NEW base \in Nat, NEW op \in [Nat -> [Nat -> Nat]]
  PROVE  \E g \in [SUBSET S -> Nat] : IsFold(g, f, S, base, op)
  <1> DEFINE UpTo(n) == {s \in SUBSET S : Cardinality(s) <= n}
             Folds(g, n) == \A s \in UpTo(n) :
                              g[s] = IF s = {} THEN base ELSE op[f[Pick(s)]][g[s \ {Pick(s)}]]
             Good == {T \in SUBSET S : \E g \in [UpTo(Cardinality(T)) -> Nat] : Folds(g, Cardinality(T))}
  <1>1. \A s \in SUBSET S : /\ IsFiniteSet(s) /\ Cardinality(s) \in Nat
                            /\ Cardinality(s) <= Cardinality(S)
                            /\ Cardinality(s) = 0 <=> s = {}
    BY FS_Subset, FS_CardinalityType, FS_EmptySet
  <1>2. \A s \in SUBSET S : s # {} =>
           /\ Cardinality(s \ {Pick(s)}) = Cardinality(s) - 1
           /\ s \ {Pick(s)} \in SUBSET S /\ Pick(s) \in S
           /\ s \ {Pick(s)} \subseteq s /\ s \ {Pick(s)} # s
    BY <1>1, PickIsIn, FS_RemoveElement
  <1>3. ASSUME NEW T \in SUBSET S, \A U \in SUBSET S : U \subseteq T /\ U # T => U \in Good
        PROVE  T \in Good
    <2>1. CASE T = {}
      <3> DEFINE g == [s \in UpTo(Cardinality(T)) |-> base]
      <3>1. ASSUME NEW s \in UpTo(Cardinality(T)) PROVE s = {}
        <4>1. Cardinality(T) = 0 /\ Cardinality(s) \in Nat /\ Cardinality(s) <= Cardinality(T)
          BY <1>1, <2>1
        <4>2. Cardinality(s) = 0
          BY <4>1
        <4> QED
          BY <1>1, <4>2
      <3>2. g \in [UpTo(Cardinality(T)) -> Nat] /\ Folds(g, Cardinality(T))
        BY <3>1
      <3> QED
        BY <3>2
    <2>2. CASE T # {}
      <3> DEFINE n == Cardinality(T)
      <3>1. PICK h \in [UpTo(n - 1) -> Nat] : Folds(h, n - 1)
        <4>1. T \ {Pick(T)} \in Good /\ Cardinality(T \ {Pick(T)}) = n - 1
          BY <1>2, <1>3, <2>2
        <4> DEFINE k == Cardinality(T \ {Pick(T)})
        <4> HIDE DEF UpTo, Folds, n
        <4>2. \E h \in [UpTo(k) -> Nat] : Folds(h, k)
          BY <4>1
        <4>3. k = n - 1
          BY <4>1
        <4> HIDE DEF k, Good
        <4> QED
          BY <4>2, <4>3
      <3>2. n \in Nat /\ n # 0
        BY <1>1, <2>2
      <3> DEFINE g == [s \in UpTo(n) |-> IF s \in UpTo(n - 1) THEN h[s]
                                         ELSE op[f[Pick(s)]][h[s \ {Pick(s)}]]]
      <3>3. ASSUME NEW s \in UpTo(n), s # {}
            PROVE  s \ {Pick(s)} \in UpTo(n - 1) /\ s \ {Pick(s)} \in UpTo(n)
        <4> DEFINE u == s \ {Pick(s)}
        <4>1. /\ u \in SUBSET S /\ Cardinality(u) = Cardinality(s) - 1
              /\ Cardinality(s) \in Nat /\ Cardinality(s) <= n
          BY <1>1, <1>2, <3>3
        <4> HIDE DEF u, n
        <4>a. \A a, m \in Nat : a <= m => a - 1 <= m - 1 /\ a - 1 <= m
          OBVIOUS
        <4>2. Cardinality(u) <= n - 1 /\ Cardinality(u) <= n
          BY <3>2, <4>1, <4>a
        <4> QED
          BY <4>1, <4>2 DEF u
      <3>4. ASSUME NEW s \in UpTo(n), s \notin UpTo(n - 1) PROVE s # {}
        <4>1. ~(Cardinality(s) <= n - 1)
          BY <3>4
        <4> HIDE DEF n
        <4>2. Cardinality(s) # 0
          BY <3>2, <4>1
        <4> QED
          BY <1>1, <4>2
      <3>5. g \in [UpTo(n) -> Nat]
        <4>1. ASSUME NEW s \in UpTo(n) PROVE g[s] \in Nat
          <5>1. CASE s \in UpTo(n - 1)
            BY <5>1
          <5>2. CASE s \notin UpTo(n - 1)
            <6>1. f[Pick(s)] \in Nat /\ h[s \ {Pick(s)}] \in Nat
              BY <1>2, <3>3, <3>4, <5>2
            <6>2. op[f[Pick(s)]] \in [Nat -> Nat]
              BY <6>1
            <6>3. op[f[Pick(s)]][h[s \ {Pick(s)}]] \in Nat
              BY <6>1, <6>2
            <6> QED
              BY <5>2, <6>3
          <5> QED
            BY <5>1, <5>2
        <4> QED
          BY <4>1
      <3>6. ASSUME NEW s \in UpTo(n)
            PROVE  g[s] = IF s = {} THEN base ELSE op[f[Pick(s)]][g[s \ {Pick(s)}]]
        <4>1. s # {} => g[s \ {Pick(s)}] = h[s \ {Pick(s)}]
          BY <3>3
        <4>2. CASE s \in UpTo(n - 1)
          BY <3>1, <4>1, <4>2
        <4>3. CASE s \notin UpTo(n - 1)
          BY <3>4, <4>1, <4>3
        <4> QED
          BY <4>2, <4>3
      <3>7. Folds(g, n)
        BY <3>6
      <3> QED
        BY <3>5, <3>7
    <2> QED
      BY <2>1, <2>2
  <1>4. S \in Good
    <2>1. Good \in SUBSET (SUBSET S)
      OBVIOUS
    <2> HIDE DEF Good
    <2>2. Good = SUBSET S
      BY <1>3, <2>1, SubsetInduction
    <2> QED
      BY <2>2
  <1>5. PICK g \in [UpTo(Cardinality(S)) -> Nat] : Folds(g, Cardinality(S))
    BY <1>4
  <1>6. UpTo(Cardinality(S)) = SUBSET S
    BY <1>1
  <1>7. g \in [SUBSET S -> Nat] /\ IsFold(g, f, S, base, op)
    BY <1>5, <1>6 DEF IsFold
  <1> QED
    BY <1>7

LEMMA SumExists ==
  ASSUME NEW S, IsFiniteSet(S), NEW f \in [S -> Nat]
  PROVE  \E g \in [SUBSET S -> Nat] : IsSum(g, f, S)
  <1> DEFINE op == [a \in Nat |-> [b \in Nat |-> a + b]]
  <1>1. op \in [Nat -> [Nat -> Nat]] /\ \A a, b \in Nat : op[a][b] = a + b
    OBVIOUS
  <1> HIDE DEF op
  <1>n. 0 \in Nat
    OBVIOUS
  <1>2. PICK g \in [SUBSET S -> Nat] : IsFold(g, f, S, 0, op)
    BY <1>1, <1>n, FoldExists
  <1>3. ASSUME NEW s \in SUBSET S
        PROVE  g[s] = IF s = {} THEN 0 ELSE f[Pick(s)] + g[s \ {Pick(s)}]
    <2>1. CASE s = {}
      BY <1>2, <2>1 DEF IsFold
    <2>2. CASE s # {}
      <3>1. f[Pick(s)] \in Nat /\ g[s \ {Pick(s)}] \in Nat
        BY <2>2, PickIsIn
      <3>2. g[s] = op[f[Pick(s)]][g[s \ {Pick(s)}]]
        BY <1>2, <2>2 DEF IsFold
      <3> QED
        BY <1>1, <2>2, <3>1, <3>2
    <2> QED
      BY <2>1, <2>2
  <1>4. IsSum(g, f, S)
    BY <1>3 DEF IsSum
  <1> QED
    BY <1>4

LEMMA ProductExists ==
  ASSUME NEW S, IsFiniteSet(S), NEW f \in [S -> Nat]
  PROVE  \E g \in [SUBSET S -> Nat] : IsProduct(g, f, S)
  <1> DEFINE op == [a \in Nat |-> [b \in Nat |-> a * b]]
  <1>1. op \in [Nat -> [Nat -> Nat]] /\ \A a, b \in Nat : op[a][b] = a * b
    <2>1. \A a, b \in Nat : a * b \in Nat
      OBVIOUS
    <2> QED
      BY <2>1
  <1> HIDE DEF op
  <1>n. 1 \in Nat
    OBVIOUS
  <1>2. PICK g \in [SUBSET S -> Nat] : IsFold(g, f, S, 1, op)
    BY <1>1, <1>n, FoldExists
  <1>3. ASSUME NEW s \in SUBSET S
        PROVE  g[s] = IF s = {} THEN 1 ELSE f[Pick(s)] * g[s \ {Pick(s)}]
    <2>1. CASE s = {}
      BY <1>2, <2>1 DEF IsFold
    <2>2. CASE s # {}
      <3>1. f[Pick(s)] \in Nat /\ g[s \ {Pick(s)}] \in Nat
        BY <2>2, PickIsIn
      <3>2. g[s] = op[f[Pick(s)]][g[s \ {Pick(s)}]]
        BY <1>2, <2>2 DEF IsFold
      <3> QED
        BY <1>1, <2>2, <3>1, <3>2
    <2> QED
      BY <2>1, <2>2
  <1>4. IsProduct(g, f, S)
    BY <1>3 DEF IsProduct
  <1> QED
    BY <1>4

\* What one step of a sum or a product is.
LEMMA SumStep ==
  ASSUME NEW S, NEW f, NEW g, IsSum(g, f, S), NEW s \in SUBSET S
  PROVE  /\ s = {} => g[s] = 0
         /\ s # {} => g[s] = f[Pick(s)] + g[s \ {Pick(s)}]
  BY DEF IsSum

LEMMA ProductStep ==
  ASSUME NEW S, NEW f, NEW g, IsProduct(g, f, S), NEW s \in SUBSET S
  PROVE  /\ s = {} => g[s] = 1
         /\ s # {} => g[s] = f[Pick(s)] * g[s \ {Pick(s)}]
  BY DEF IsProduct

LEMMA SumType ==
  ASSUME NEW S, IsFiniteSet(S), NEW f \in [S -> Nat], NEW g, IsSum(g, f, S)
  PROVE  \A s \in SUBSET S : g[s] \in Nat
  <1> DEFINE Good == {s \in SUBSET S : g[s] \in Nat}
  <1>1. ASSUME NEW s \in SUBSET S, \A u \in SUBSET S : u \subseteq s /\ u # s => u \in Good
        PROVE  s \in Good
    <2>1. CASE s = {}
      <3>1. g[s] = 0
        BY <2>1, SumStep
      <3> QED
        BY <3>1
    <2>2. CASE s # {}
      <3>1. f[Pick(s)] \in Nat /\ g[s \ {Pick(s)}] \in Nat
        BY <1>1, <2>2, PickIsIn
      <3>2. g[s] = f[Pick(s)] + g[s \ {Pick(s)}]
        BY <2>2, SumStep
      <3> QED
        BY <3>1, <3>2
    <2> QED
      BY <2>1, <2>2
  <1>2. Good = SUBSET S
    <2>1. Good \in SUBSET (SUBSET S)
      OBVIOUS
    <2> HIDE DEF Good
    <2> QED
      BY <1>1, <2>1, SubsetInduction
  <1> QED
    BY <1>2

\* A product of positive numbers is positive, and a multiple of each.
LEMMA ProductType ==
  ASSUME NEW S, IsFiniteSet(S), NEW f \in [S -> Nat \ {0}], NEW g, IsProduct(g, f, S)
  PROVE  \A s \in SUBSET S : /\ g[s] \in Nat \ {0}
                             /\ \A x \in s : \E w \in Nat : g[s] = w * f[x]
  <1>0. \A s \in SUBSET S : /\ s = {} => g[s] = 1
                            /\ s # {} => g[s] = f[Pick(s)] * g[s \ {Pick(s)}]
    BY ProductStep
  <1> DEFINE Good == {s \in SUBSET S : /\ g[s] \in Nat \ {0}
                                       /\ \A x \in s : \E w \in Nat : g[s] = w * f[x]}
  <1>1. ASSUME NEW s \in SUBSET S, \A u \in SUBSET S : u \subseteq s /\ u # s => u \in Good
        PROVE  s \in Good
    <2>1. CASE s = {}
      <3>1. g[s] = 1
        BY <1>0, <2>1
      <3> QED
        BY <2>1, <3>1
    <2>2. CASE s # {}
      <3> DEFINE y == Pick(s)
                 u == s \ {y}
      <3>1. /\ f[y] \in Nat \ {0} /\ g[u] \in Nat \ {0} /\ u \in SUBSET S
            /\ \A x \in u : \E w \in Nat : g[u] = w * f[x]
        BY <1>1, <2>2, PickIsIn
      <3>2. g[s] = f[y] * g[u]
        BY <1>0, <2>2
      <3>p. \A a, b \in Nat \ {0} : a * b \in Nat \ {0}
        OBVIOUS
      <3>3. g[s] \in Nat \ {0}
        BY <3>1, <3>2, <3>p
      <3>4. ASSUME NEW x \in s PROVE \E w \in Nat : g[s] = w * f[x]
        <4>1. CASE x = y
          <5>1. g[s] = g[u] * f[x]
            BY <3>1, <3>2, <4>1
          <5> QED
            BY <3>1, <5>1
        <4>2. CASE x # y
          <5>1. PICK w \in Nat : g[u] = w * f[x]
            BY <3>1, <4>2
          <5>2. f[x] \in Nat
            OBVIOUS
          <5>3. \A a, b, c \in Nat : a * (b * c) = (a * b) * c /\ a * b \in Nat
            OBVIOUS
          <5>4. g[s] = (f[y] * w) * f[x] /\ f[y] * w \in Nat
            BY <3>1, <3>2, <5>1, <5>2, <5>3
          <5> QED
            BY <5>4
        <4> QED
          BY <4>1, <4>2
      <3> QED
        BY <3>3, <3>4
    <2> QED
      BY <2>1, <2>2
  <1>2. Good = SUBSET S
    <2>1. Good \in SUBSET (SUBSET S)
      OBVIOUS
    <2> HIDE DEF Good
    <2> QED
      BY <1>1, <2>1, SubsetInduction
  <1> QED
    BY <1>2

\* A bound on every term is a bound on the sums.
LEMMA SumsCompare ==
  ASSUME NEW S, IsFiniteSet(S), NEW f \in [S -> Nat], NEW e \in [S -> Nat],
         NEW g, IsSum(g, f, S), NEW h, IsSum(h, e, S), NEW a \in Nat, NEW b \in Nat, NEW c \in Nat,
         \A x \in S : a * f[x] <= b * e[x] + c
  PROVE  a * g[S] <= b * h[S] + c * Cardinality(S)
  <1> DEFINE Good == {s \in SUBSET S : a * g[s] <= b * h[s] + c * Cardinality(s)}
  <1>t. \A s \in SUBSET S : g[s] \in Nat /\ h[s] \in Nat /\ IsFiniteSet(s) /\ Cardinality(s) \in Nat
    BY SumType, FS_Subset, FS_CardinalityType
  <1>1. ASSUME NEW s \in SUBSET S, \A u \in SUBSET S : u \subseteq s /\ u # s => u \in Good
        PROVE  s \in Good
    <2>1. CASE s = {}
      <3>a. g[s] = 0
        BY <2>1, SumStep
      <3>b. h[s] = 0
        BY <2>1, SumStep
      <3>1. Cardinality(s) = 0
        BY <2>1, FS_EmptySet
      <3>2. a * g[s] <= b * h[s] + c * Cardinality(s)
        BY <3>1, <3>a, <3>b
      <3> QED
        BY <3>2
    <2>2. CASE s # {}
      <3> DEFINE y == Pick(s)
                 u == s \ {y}
      <3>1. /\ y \in S /\ u \in SUBSET S /\ f[y] \in Nat /\ e[y] \in Nat
            /\ a * g[u] <= b * h[u] + c * Cardinality(u)
            /\ a * f[y] <= b * e[y] + c
        BY <1>1, <2>2, PickIsIn
      <3>2. g[s] = f[y] + g[u] /\ h[s] = e[y] + h[u]
        <4>1. g[s] = f[y] + g[u]
          BY <2>2, SumStep
        <4>2. h[s] = e[y] + h[u]
          BY <2>2, SumStep
        <4> QED
          BY <4>1, <4>2
      <3>3. Cardinality(s) = Cardinality(u) + 1
        <4>1. Cardinality(u) = Cardinality(s) - 1
          BY <1>t, <2>2, PickIsIn, FS_RemoveElement
        <4> QED
          BY <1>t, <4>1
      <3>4. g[u] \in Nat /\ h[u] \in Nat /\ Cardinality(u) \in Nat
        BY <1>t, <3>1
      <3>5. \A p, q, v, w, n \in Nat :
              a * q <= b * w + c * n /\ a * p <= b * v + c =>
                a * (p + q) <= b * (v + w) + c * (n + 1)
        OBVIOUS
      <3>6. a * g[s] <= b * h[s] + c * Cardinality(s)
        BY <3>1, <3>2, <3>3, <3>4, <3>5
      <3> QED
        BY <3>6
    <2> QED
      BY <2>1, <2>2
  <1>2. Good = SUBSET S
    <2>1. Good \in SUBSET (SUBSET S)
      OBVIOUS
    <2> HIDE DEF Good
    <2> QED
      BY <1>1, <2>1, SubsetInduction
  <1> QED
    BY <1>2
-----------------------------------------------------------------------------
(* The rates of a set of intervals, as sums and products.                  *)

Positive == Nat \ {0}

LEMMA PositiveProduct ==
  /\ \A a, b \in Positive : a * b \in Positive
  /\ \A a, b \in Nat : a * b \in Nat
  BY DEF Positive

LEMMA CeilDivFacts ==
  ASSUME NEW a \in Nat, NEW b \in Positive
  PROVE  /\ CeilDiv(a, b) \in Nat
         /\ a <= b * CeilDiv(a, b)
         /\ b * CeilDiv(a, b) <= a + b - 1
  BY DEF CeilDiv, Positive

Rate(wanted) == [s \in DOMAIN wanted |-> CeilDiv(Second * Precision, wanted[s])]
Share(f) == [s \in DOMAIN f |-> Second * (Whole(f) \div f[s])]

LEMMA RateType ==
  ASSUME NEW D, NEW wanted \in [D -> Positive]
  PROVE  /\ Rate(wanted) \in [D -> Nat] /\ DOMAIN wanted = D
         /\ \A s \in D : Rate(wanted)[s] = CeilDiv(Second * Precision, wanted[s])
  <1>1. Second * Precision \in Nat
    BY ScheduleAssumption, PositiveProduct
  <1> QED
    BY <1>1, CeilDivFacts DEF Rate

LEMMA RateUnitsIsSum ==
  ASSUME NEW D, IsFiniteSet(D), NEW wanted \in [D -> Positive]
  PROVE  \E g : IsSum(g, Rate(wanted), D) /\ RateUnits(wanted) = g[D]
  <1> DEFINE c == Second * Precision
             it == CHOOSE iter : iter =
                     [s \in SUBSET D |->
                        IF s = {} THEN 0
                        ELSE CeilDiv(c, wanted[Pick(s)]) + iter[s \ {Pick(s)}]]
  <1>1. RateUnits(wanted) = it[D]
    BY DEF RateUnits, MapThenSumSet, MapThenFoldSet, Pick
  <1>2. PICK g : IsSum(g, Rate(wanted), D)
    BY RateType, SumExists
  <1> DEFINE Terms(k) == [s \in SUBSET D |->
                            IF s = {} THEN 0 ELSE CeilDiv(c, wanted[Pick(s)]) + k[s \ {Pick(s)}]]
  <1>3. ASSUME NEW k
        PROVE  Terms(k) = [s \in SUBSET D |->
                             IF s = {} THEN 0 ELSE Rate(wanted)[Pick(s)] + k[s \ {Pick(s)}]]
    <2>1. \A s \in SUBSET D : s # {} => Rate(wanted)[Pick(s)] = CeilDiv(c, wanted[Pick(s)])
      BY PickIsIn, RateType
    <2> QED
      BY <2>1
  <1>4. g = Terms(g)
    BY <1>2, <1>3 DEF IsSum
  <1>5. it = Terms(it)
    BY <1>4
  <1>6. IsSum(it, Rate(wanted), D)
    BY <1>3, <1>5 DEF IsSum
  <1> QED
    BY <1>1, <1>6

LEMMA WholeIsProduct ==
  ASSUME NEW D, IsFiniteSet(D), NEW f \in [D -> Positive]
  PROVE  \E g : IsProduct(g, f, D) /\ Whole(f) = g[D]
  <1> DEFINE Terms(k) == [s \in SUBSET D |-> IF s = {} THEN 1 ELSE f[Pick(s)] * k[s \ {Pick(s)}]]
             it == CHOOSE iter : iter = Terms(iter)
  <1>1. Whole(f) = it[D]
    BY DEF Whole, MapThenFoldSet, Pick
  <1>2. PICK g : g = Terms(g)
    <2>1. f \in [D -> Nat]
      BY DEF Positive
    <2>2. PICK g : IsProduct(g, f, D)
      BY <2>1, ProductExists
    <2> QED
      BY <2>2 DEF IsProduct
  <1>3. it = Terms(it)
    BY <1>2
  <1>4. IsProduct(it, f, D)
    BY <1>3 DEF IsProduct
  <1> QED
    BY <1>1, <1>4

\* The product of the intervals is a multiple of each of them.
LEMMA WholeIsMultiple ==
  ASSUME NEW D, IsFiniteSet(D), NEW f \in [D -> Positive]
  PROVE  /\ Whole(f) \in Positive
         /\ \A s \in D : Whole(f) \div f[s] \in Nat /\ Whole(f) = (Whole(f) \div f[s]) * f[s]
  <1>1. PICK g : IsProduct(g, f, D) /\ Whole(f) = g[D]
    BY WholeIsProduct
  <1>2. D \in SUBSET D /\ f \in [D -> Nat \ {0}]
    BY DEF Positive
  <1>3. \A s \in SUBSET D : /\ g[s] \in Nat \ {0}
                            /\ \A x \in s : \E w \in Nat : g[s] = w * f[x]
    BY <1>1, <1>2, ProductType
  <1>4. Whole(f) \in Positive /\ \A x \in D : \E w \in Nat : Whole(f) = w * f[x]
    BY <1>1, <1>2, <1>3 DEF Positive
  <1>5. \A w \in Nat, d \in Positive : (w * d) \div d = w
    BY DEF Positive
  <1>6. ASSUME NEW s \in D
        PROVE  Whole(f) \div f[s] \in Nat /\ Whole(f) = (Whole(f) \div f[s]) * f[s]
    <2>1. PICK w \in Nat : Whole(f) = w * f[s]
      BY <1>4
    <2>2. Whole(f) \div f[s] = w
      BY <1>5, <2>1
    <2> QED
      BY <2>1, <2>2
  <1> QED
    BY <1>4, <1>6

LEMMA ShareType ==
  ASSUME NEW D, IsFiniteSet(D), NEW f \in [D -> Positive]
  PROVE  /\ Share(f) \in [D -> Nat] /\ DOMAIN f = D
         /\ \A s \in D : Share(f)[s] = Second * (Whole(f) \div f[s])
  <1>1. \A s \in D : Whole(f) \div f[s] \in Nat
    BY WholeIsMultiple
  <1>2. \A s \in D : Second * (Whole(f) \div f[s]) \in Nat
    BY <1>1, PositiveProduct, ScheduleAssumption
  <1> QED
    BY <1>2 DEF Share

LEMMA ReadsIsSum ==
  ASSUME NEW D, IsFiniteSet(D), NEW f \in [D -> Positive]
  PROVE  \E g : IsSum(g, Share(f), D) /\ Reads(f) = g[D]
  <1> DEFINE W == Whole(f)
             Terms(k) == [s \in SUBSET D |->
                            IF s = {} THEN 0 ELSE Second * (W \div f[Pick(s)]) + k[s \ {Pick(s)}]]
             it == CHOOSE iter : iter = Terms(iter)
  <1>1. Reads(f) = it[D]
    BY DEF Reads, MapThenSumSet, MapThenFoldSet, Pick
  <1>2. PICK g : IsSum(g, Share(f), D)
    BY ShareType, SumExists
  <1>3. ASSUME NEW k
        PROVE  Terms(k) = [s \in SUBSET D |->
                             IF s = {} THEN 0 ELSE Share(f)[Pick(s)] + k[s \ {Pick(s)}]]
    <2>1. \A s \in SUBSET D : s # {} => Share(f)[Pick(s)] = Second * (W \div f[Pick(s)])
      BY PickIsIn, ShareType
    <2> QED
      BY <2>1
  <1>4. g = Terms(g)
    BY <1>2, <1>3 DEF IsSum
  <1>5. it = Terms(it)
    BY <1>4
  <1>6. IsSum(it, Share(f), D)
    BY <1>3, <1>5 DEF IsSum
  <1> QED
    BY <1>1, <1>6

LEMMA ReadsType ==
  ASSUME NEW D, IsFiniteSet(D), NEW f \in [D -> Positive]
  PROVE  Reads(f) \in Nat /\ RateUnits(f) \in Nat
  <1>1. PICK g : IsSum(g, Share(f), D) /\ Reads(f) = g[D]
    BY ReadsIsSum
  <1>2. g[D] \in Nat
    BY <1>1, ShareType, SumType
  <1>3. PICK h : IsSum(h, Rate(f), D) /\ RateUnits(f) = h[D]
    BY RateUnitsIsSum
  <1>4. h[D] \in Nat
    BY <1>3, RateType, SumType
  <1> QED
    BY <1>1, <1>2, <1>3, <1>4

\* The rates of intervals that were stretched by a factor, against the rounded
\* rates before: they are not above them, and below them by one unit a signal.
LEMMA Stretched ==
  ASSUME NEW D, IsFiniteSet(D), NEW g \in [D -> Positive], NEW k \in Positive,
         NEW f, f = [s \in D |-> g[s] * k]
  PROVE  /\ f \in [D -> Positive]
         /\ (Precision * k) * Reads(f) <= Whole(f) * RateUnits(g)
         /\ Whole(f) * RateUnits(g) <= (Precision * k) * Reads(f) + Whole(f) * Cardinality(D)
  <1>1. f \in [D -> Positive]
    BY PositiveProduct
  <1>2. PICK r : IsSum(r, Share(f), D) /\ Reads(f) = r[D]
    BY <1>1, ReadsIsSum
  <1>3. PICK u : IsSum(u, Rate(g), D) /\ RateUnits(g) = u[D]
    BY RateUnitsIsSum
  <1>w. Whole(f) \in Nat
    BY <1>1, WholeIsMultiple DEF Positive
  <1>p. Precision * k \in Nat /\ Precision \in Nat /\ Second \in Nat /\ Second * Precision \in Nat
    BY PositiveProduct, ScheduleAssumption DEF Positive
  <1>4. ASSUME NEW s \in D
        PROVE  /\ (Precision * k) * Share(f)[s] <= Whole(f) * Rate(g)[s] + 0
               /\ Whole(f) * Rate(g)[s] <= (Precision * k) * Share(f)[s] + Whole(f)
    <2> DEFINE w == Whole(f) \div f[s]
               c == CeilDiv(Second * Precision, g[s])
    <2>1. /\ w \in Nat /\ Whole(f) = w * f[s] /\ Share(f)[s] = Second * w
      BY <1>1, WholeIsMultiple, ShareType
    <2>2. /\ c \in Nat /\ Rate(g)[s] = c
          /\ Second * Precision <= g[s] * c /\ g[s] * c <= Second * Precision + g[s]
      <3>1. g[s] \in Positive
        OBVIOUS
      <3>2. c \in Nat /\ Second * Precision <= g[s] * c /\ g[s] * c <= Second * Precision + g[s] - 1
        BY <1>p, <3>1, CeilDivFacts
      <3> HIDE DEF c
      <3>3. \A x, y \in Nat, z \in Positive : x <= y + z - 1 => x <= y + z
        BY DEF Positive
      <3>4. g[s] * c \in Nat
        BY <3>1, <3>2, PositiveProduct DEF Positive
      <3>5. Rate(g)[s] = c
        BY RateType DEF c
      <3> QED
        BY <1>p, <3>1, <3>2, <3>3, <3>4, <3>5
    <2>3. f[s] = g[s] * k /\ g[s] \in Nat /\ k \in Nat
      BY DEF Positive
    <2> HIDE DEF w, c
    <2>4. ASSUME NEW S2 \in Nat, NEW P \in Nat, NEW K \in Nat, NEW G \in Nat, NEW V \in Nat, NEW C \in Nat,
                 S2 * P <= G * C, G * C <= S2 * P + G
          PROVE  /\ (P * K) * (S2 * V) <= (V * (G * K)) * C
                 /\ (V * (G * K)) * C <= (P * K) * (S2 * V) + V * (G * K)
      <3>1. V * K \in Nat
        BY PositiveProduct
      <3>2. (P * K) * (S2 * V) = (S2 * P) * (V * K)
        OBVIOUS
      <3>3. (V * (G * K)) * C = (G * C) * (V * K)
        OBVIOUS
      <3>4. V * (G * K) = G * (V * K)
        OBVIOUS
      <3>5. \A a, b, z \in Nat : a <= b => a * z <= b * z
        OBVIOUS
      <3>6. (S2 * P + G) * (V * K) = (S2 * P) * (V * K) + G * (V * K)
        OBVIOUS
      <3>7. S2 * P \in Nat /\ G * C \in Nat /\ S2 * P + G \in Nat
        BY PositiveProduct
      <3>8. (S2 * P) * (V * K) <= (G * C) * (V * K)
        BY <2>4, <3>1, <3>5, <3>7
      <3>9. (G * C) * (V * K) <= (S2 * P + G) * (V * K)
        BY <2>4, <3>1, <3>5, <3>7
      <3> QED
        BY <3>2, <3>3, <3>4, <3>6, <3>8, <3>9
    <2>5. /\ (Precision * k) * (Second * w) <= (w * (g[s] * k)) * c
          /\ (w * (g[s] * k)) * c <= (Precision * k) * (Second * w) + w * (g[s] * k)
      BY <1>p, <2>1, <2>2, <2>3, <2>4
    <2>6. (w * (g[s] * k)) * c \in Nat
      BY <2>1, <2>2, <2>3, PositiveProduct
    <2> QED
      BY <2>1, <2>2, <2>3, <2>5, <2>6
  <1>t. Share(f) \in [D -> Nat] /\ Rate(g) \in [D -> Nat]
    BY <1>1, ShareType, RateType
  <1> DEFINE a == Precision * k
             W == Whole(f)
             shares == Share(f)
             rates == Rate(g)
  <1>a. /\ a \in Nat /\ W \in Nat /\ 0 \in Nat /\ shares \in [D -> Nat] /\ rates \in [D -> Nat]
        /\ IsSum(r, shares, D) /\ IsSum(u, rates, D)
    BY <1>2, <1>3, <1>w, <1>p, <1>t
  <1>b. \A s \in D : a * shares[s] <= W * rates[s] + 0
    BY <1>4
  <1>c. \A s \in D : W * rates[s] <= a * shares[s] + W
    BY <1>4
  <1>5. a * r[D] <= W * u[D] + 0 * Cardinality(D)
    <2> HIDE DEF a, W, shares, rates
    <2> QED
      BY <1>a, <1>b, SumsCompare
  <1>6. W * u[D] <= a * r[D] + W * Cardinality(D)
    <2> HIDE DEF a, W, shares, rates
    <2> QED
      BY <1>a, <1>c, SumsCompare
  <1>7. (Precision * k) * r[D] <= Whole(f) * u[D]
    <2>1. u[D] \in Nat /\ Cardinality(D) \in Nat
      BY <1>3, <1>t, SumType, FS_CardinalityType
    <2>2. Whole(f) * u[D] + 0 * Cardinality(D) = Whole(f) * u[D]
      BY <1>w, <2>1, PositiveProduct
    <2> QED
      BY <1>5, <2>2
  <1> QED
    BY <1>1, <1>2, <1>3, <1>6, <1>7

LEMMA Cancel ==
  ASSUME NEW a \in Positive, NEW x \in Int, NEW y \in Int, a * x <= a * y
  PROVE  x <= y
  BY DEF Positive

LEMMA Multiply ==
  ASSUME NEW x \in Int, NEW y \in Int, x <= y, NEW z \in Nat
  PROVE  x * z <= y * z
  OBVIOUS

\* What scaling to a budget does: every interval by one factor, not more reads
\* than the budget, and about half of it or more if anything was stretched.
LEMMA ScaledFacts ==
  ASSUME NEW D, IsFiniteSet(D), NEW g \in [D -> Positive], NEW c \in Positive
  PROVE  /\ Scaled(g, c) \in [D -> Positive]
         /\ \E k \in Positive : Scaled(g, c) = [s \in D |-> g[s] * k]
         /\ Reads(Scaled(g, c)) <= c * Whole(Scaled(g, c))
         /\ \/ Scaled(g, c) = g
            \/ (2 * Precision) * Reads(Scaled(g, c))
                 >= (c * Precision - Cardinality(D)) * Whole(Scaled(g, c))
  <1> DEFINE P == Precision
             R == RateUnits(g)
             n == Cardinality(D)
  <1>1. P \in Positive /\ R \in Nat /\ n \in Nat
    BY ScheduleAssumption, ReadsType, FS_CardinalityType DEF Positive
  <1>2. DOMAIN g = D
    OBVIOUS
  <1>p. c * P \in Positive
    BY <1>1, PositiveProduct
  <1>3. CASE ~ExceedsBudget(g, c)
    <2>1. Scaled(g, c) = [s \in D |-> g[s]]
      BY <1>2, <1>3 DEF Scaled
    <2>2. Scaled(g, c) = g
      BY <2>1
    <2>3. g = [s \in D |-> g[s] * 1] /\ 1 \in Positive
      BY DEF Positive
    <2> DEFINE W == Whole(g)
               Q == Reads(g)
    <2>4. W \in Positive /\ Q \in Nat
      BY WholeIsMultiple, ReadsType
    <2>5. (P * 1) * Q <= W * R
      BY <2>3, Stretched
    <2>6. R <= c * P
      BY <1>1, <1>p, <1>3 DEF ExceedsBudget, Positive
    <2> HIDE DEF P, R, n, W, Q
    <2>7. P * Q <= P * (c * W)
      <3>1. R * W <= (c * P) * W
        BY <1>1, <1>p, <2>4, <2>6, Multiply DEF Positive
      <3>2. (P * 1) * Q = P * Q /\ W * R = R * W /\ (c * P) * W = P * (c * W)
        BY <1>1, <2>4 DEF Positive
      <3>3. P * Q \in Nat /\ R * W \in Nat /\ P * (c * W) \in Nat
        BY <1>1, <2>4, PositiveProduct DEF Positive
      <3> QED
        BY <2>5, <3>1, <3>2, <3>3
    <2>8. Q <= c * W
      BY <1>1, <2>4, <2>7, Cancel, PositiveProduct DEF Positive
    <2> QED
      BY <2>2, <2>3, <2>8 DEF Q, W
  <1>4. CASE ExceedsBudget(g, c)
    <2> DEFINE k == CeilDiv(R, c * P)
               f == [s \in D |-> g[s] * k]
    <2>1. Scaled(g, c) = f
      BY <1>2, <1>4 DEF Scaled, ScaleFactor
    <2>2. R > c * P
      BY <1>4 DEF ExceedsBudget
    <2>3. k \in Nat /\ R <= (c * P) * k /\ (c * P) * k <= R + c * P - 1
      BY <1>1, <1>p, CeilDivFacts
    <2> DEFINE W == Whole(f)
               Q == Reads(f)
               B == c * P
    <2>b. B \in Positive
      BY <1>p
    <2>4. k \in Nat /\ k >= 2
      <3> HIDE DEF k, R, P, B
      <3>1. R > B /\ R <= B * k
        BY <2>2, <2>3 DEF B
      <3>2. k # 0 /\ k # 1
        BY <1>1, <2>3, <2>b, <3>1 DEF Positive
      <3> QED
        BY <2>3, <3>2
    <2>5. k \in Positive
      BY <2>4 DEF Positive
    <2>6. /\ f \in [D -> Positive] /\ (P * k) * Q <= W * R
          /\ W * R <= (P * k) * Q + W * n
      BY <2>5, Stretched
    <2>7. W \in Positive /\ Q \in Nat
      BY <2>6, WholeIsMultiple, ReadsType
    <2>c. R <= B * k /\ B * k <= R + B - 1
      BY <2>3
    <2> HIDE DEF P, R, n, W, Q, B, k, f
    <2>8. Q <= c * W
      <3>1. R * W <= (B * k) * W
        BY <1>1, <2>b, <2>c, <2>4, <2>7, Multiply, PositiveProduct DEF Positive
      <3>2. (B * k) * W = (P * k) * (c * W) /\ W * R = R * W
        BY <1>1, <2>4, <2>7 DEF B, Positive
      <3>3. P * k \in Positive /\ c * W \in Nat
        BY <1>1, <2>5, <2>7, PositiveProduct DEF Positive
      <3>4. (P * k) * Q \in Nat /\ R * W \in Nat /\ (P * k) * (c * W) \in Nat
        BY <1>1, <2>7, <3>3, PositiveProduct DEF Positive
      <3>5. (P * k) * Q <= (P * k) * (c * W)
        BY <2>6, <3>1, <3>2, <3>4
      <3> QED
        BY <2>7, <3>3, <3>5, Cancel
    <2>9. (2 * P) * Q >= (B - n) * W
      <3>1. B * k <= 2 * R
        <4>1. B * (k - 1) <= R
          BY <1>1, <2>b, <2>c, <2>4 DEF Positive
        <4>2. B * k <= 2 * (B * (k - 1))
          <5>1. k <= 2 * (k - 1) /\ k \in Int /\ 2 * (k - 1) \in Int
            BY <2>4
          <5>2. k * B <= (2 * (k - 1)) * B
            BY <2>b, <5>1, Multiply DEF Positive
          <5> QED
            BY <2>b, <2>4, <5>2 DEF Positive
        <4> QED
          BY <1>1, <2>b, <2>4, <4>1, <4>2 DEF Positive
      <3>2. (B * k) * W <= (2 * R) * W
        BY <1>1, <2>b, <2>4, <2>7, <3>1, Multiply, PositiveProduct DEF Positive
      <3>3. 2 * (W * R) <= 2 * ((P * k) * Q) + 2 * (W * n)
        <4>1. W * R \in Nat /\ (P * k) * Q \in Nat /\ W * n \in Nat
          BY <1>1, <2>4, <2>7, PositiveProduct DEF Positive
        <4> QED
          BY <2>6, <4>1
      <3>4. 2 * (W * n) <= k * (W * n)
        <4>1. W * n \in Nat
          BY <1>1, <2>7, PositiveProduct DEF Positive
        <4>2. 2 \in Int /\ k \in Int
          BY <2>4
        <4> QED
          BY <2>4, <4>1, <4>2, Multiply
      <3>5. k * (B * W) <= k * ((2 * P) * Q + W * n)
        <4>1. (B * k) * W = k * (B * W) /\ (2 * R) * W = 2 * (W * R)
          BY <1>1, <2>b, <2>4, <2>7 DEF Positive
        <4>2. 2 * ((P * k) * Q) + k * (W * n) = k * ((2 * P) * Q + W * n)
          BY <1>1, <2>4, <2>7 DEF Positive
        <4>3. /\ k * (B * W) \in Nat /\ 2 * (W * R) \in Nat /\ 2 * ((P * k) * Q) \in Nat
              /\ 2 * (W * n) \in Nat /\ k * (W * n) \in Nat
          <5>1. B \in Nat /\ W \in Nat /\ P \in Nat
            BY <1>1, <2>b, <2>7 DEF Positive
          <5>2. /\ B * W \in Nat /\ W * R \in Nat /\ P * k \in Nat /\ W * n \in Nat
            BY <1>1, <2>4, <5>1, PositiveProduct
          <5>3. (P * k) * Q \in Nat
            BY <2>7, <5>2, PositiveProduct
          <5> QED
            BY <2>4, <5>2, <5>3, PositiveProduct
        <4> QED
          BY <3>2, <3>3, <3>4, <4>1, <4>2, <4>3
      <3>6. B * W <= (2 * P) * Q + W * n
        <4>1. B * W \in Int /\ (2 * P) * Q + W * n \in Int
          BY <1>1, <2>b, <2>7 DEF Positive
        <4> QED
          BY <2>5, <3>5, <4>1, Cancel
      <3>7. (B - n) * W = B * W - W * n
        BY <1>1, <2>b, <2>7 DEF Positive
      <3>8. B * W \in Int /\ (2 * P) * Q \in Int /\ W * n \in Int
        BY <1>1, <2>b, <2>7 DEF Positive
      <3> QED
        BY <3>6, <3>7, <3>8
    <2>10. \E m \in Positive : f = [s \in D |-> g[s] * m]
      BY <2>5 DEF f
    <2> QED
      BY <2>1, <2>6, <2>8, <2>9, <2>10 DEF P, n, W, Q, B
  <1> QED
    BY <1>3, <1>4
-----------------------------------------------------------------------------
(* The budget.                                                             *)

LEMMA MaxOfTwo ==
  ASSUME NEW a \in Int, NEW b \in Int
  PROVE  Max({a, b}) \in {a, b} /\ Max({a, b}) >= a /\ Max({a, b}) >= b
  <1>1. \E x \in {a, b} : \A y \in {a, b} : x >= y
    <2>1. CASE a >= b
      BY <2>1
    <2>2. CASE b >= a
      BY <2>2
    <2> QED
      BY <2>1, <2>2
  <1>2. Max({a, b}) \in {a, b} /\ \A y \in {a, b} : Max({a, b}) >= y
    BY <1>1 DEF Max
  <1> QED
    BY <1>2

LEMMA MinOfTwo ==
  ASSUME NEW a \in Int, NEW b \in Int
  PROVE  Min({a, b}) \in {a, b} /\ Min({a, b}) <= a /\ Min({a, b}) <= b
  <1>1. \E x \in {a, b} : \A y \in {a, b} : x <= y
    <2>1. CASE a <= b
      BY <2>1
    <2>2. CASE b <= a
      BY <2>2
    <2> QED
      BY <2>1, <2>2
  <1>2. Min({a, b}) \in {a, b} /\ \A y \in {a, b} : Min({a, b}) <= y
    BY <1>1 DEF Min
  <1> QED
    BY <1>2

\* A set of positive numbers has its smallest among them.
LEMMA MinIsIn ==
  ASSUME NEW S \in SUBSET Positive, S # {}
  PROVE  Min(S) \in Positive
  <1>1. PICK m \in S : TRUE
    OBVIOUS
  <1>m. m \in Nat
    BY DEF Positive
  <1> DEFINE low == 0 .. m
             Good == {T \in SUBSET low : T = {} \/ \E x \in T : \A y \in T : x <= y}
  <1>2. IsFiniteSet(low)
    BY <1>m, FS_Interval
  <1>3. ASSUME NEW T \in SUBSET low, \A U \in SUBSET low : U \subseteq T /\ U # T => U \in Good
        PROVE  T \in Good
    <2>1. CASE T = {}
      BY <2>1
    <2>2. CASE T # {}
      <3> DEFINE p == Pick(T)
                 u == T \ {p}
      <3>1. p \in T /\ u \in Good /\ \A y \in T : y \in u \/ y = p
        <4>1. p \in T /\ u \in SUBSET low /\ u \subseteq T /\ u # T
          BY <2>2, PickIsIn
        <4>2. u \in Good
          BY <1>3, <4>1
        <4> QED
          BY <4>1, <4>2
      <3>i. T \subseteq Int
        BY <1>m
      <3>2. CASE u = {}
        <4>1. \A y \in T : y = p
          BY <3>1, <3>2
        <4>2. p \in Int
          BY <3>1, <3>i
        <4>3. \A y \in T : p <= y
          BY <4>1, <4>2
        <4> QED
          BY <3>1, <4>3
      <3>3. CASE u # {}
        <4>1. PICK x \in u : \A y \in u : x <= y
          BY <3>1, <3>3
        <4>2. x \in Int /\ p \in Int /\ x \in T /\ T \subseteq Int
          BY <3>1, <3>i
        <4>3. CASE x <= p
          <5>1. \A y \in T : x <= y
            BY <3>1, <4>1, <4>3
          <5> QED
            BY <4>2, <5>1
        <4>4. CASE p <= x
          <5>1. \A y \in T : p <= y
            BY <3>1, <4>1, <4>2, <4>4
          <5> QED
            BY <3>1, <5>1
        <4> QED
          BY <4>2, <4>3, <4>4
      <3> QED
        BY <3>2, <3>3
    <2> QED
      BY <2>1, <2>2
  <1>4. Good = SUBSET low
    <2>1. Good \in SUBSET (SUBSET low)
      OBVIOUS
    <2> HIDE DEF Good, low
    <2> QED
      BY <1>2, <1>3, <2>1, SubsetInduction
  <1>5. PICK x \in S \cap low : \A y \in S \cap low : x <= y
    <2>1. S \cap low \in Good
      BY <1>4
    <2>2. m \in S \cap low
      BY <1>m
    <2> QED
      BY <2>1, <2>2
  <1>6. \A y \in S : x <= y
    <2>1. x \in Nat /\ x <= m /\ S \subseteq Nat
      BY <1>5 DEF Positive
    <2> QED
      BY <1>5, <1>m, <2>1
  <1>7. Min(S) \in S
    BY <1>5, <1>6 DEF Min
  <1> QED
    BY <1>7

LEMMA DivAntitone ==
  ASSUME NEW n \in Nat, NEW a \in Positive, NEW b \in Positive, a <= b
  PROVE  n \div a \in Nat /\ n \div b \in Nat /\ n \div b <= n \div a
  <1> DEFINE p == n \div a
             q == n \div b
  <1>1. p \in Nat /\ q \in Nat /\ n < (p + 1) * a /\ q * b <= n
    BY DEF Positive
  <1> HIDE DEF p, q
  <1>2. (p + 1) * a <= (p + 1) * b
    BY <1>1 DEF Positive
  <1>3. q * b < (p + 1) * b
    BY <1>1, <1>2 DEF Positive
  <1>4. q < p + 1
    BY <1>1, <1>3 DEF Positive
  <1> QED
    BY <1>1, <1>4 DEF p, q

\* The budget is positive, and the tightest one only shrinks as reads get slower.
LEMMA CapabilityFacts ==
  ASSUME NEW slow \in Nat
  PROVE  Capability(slow) \in Positive
  <1>1. CASE slow = 0
    BY <1>1, ScheduleAssumption DEF Capability, Positive
  <1>2. CASE slow # 0
    <2>1. Second \div slow \in Nat
      BY <1>2, ScheduleAssumption, DivAntitone DEF Positive
    <2>2. Max({1, Second \div slow}) \in {1, Second \div slow} /\ Max({1, Second \div slow}) >= 1
      BY <2>1, MaxOfTwo
    <2> QED
      BY <1>2, <2>1, <2>2 DEF Capability, RequestBudgetFor, Positive
  <1> QED
    BY <1>1, <1>2

LEMMA TightestShrinks ==
  ASSUME NEW slow \in Nat, NEW slower \in Nat, slow <= slower
  PROVE  /\ Min({DefaultBudget, Capability(slow)}) \in Positive
         /\ Min({DefaultBudget, Capability(slower)}) \in Positive
         /\ Min({DefaultBudget, Capability(slower)}) <= Min({DefaultBudget, Capability(slow)})
  <1> DEFINE a == Capability(slow)
             b == Capability(slower)
             d == DefaultBudget
  <1>1. a \in Positive /\ b \in Positive /\ d \in Positive
    BY CapabilityFacts, ScheduleAssumption DEF Positive
  <1>2. slow = 0 => a = d
    BY DEF Capability
  <1>3. slow # 0 => b <= a
    <2> SUFFICES ASSUME slow # 0 PROVE b <= a
      OBVIOUS
    <2>1. /\ Second \div slow \in Nat /\ Second \div slower \in Nat
          /\ Second \div slower <= Second \div slow
      <3>1. Second \in Nat /\ slow \in Positive /\ slower \in Positive
        BY ScheduleAssumption DEF Positive
      <3> QED
        BY <3>1, DivAntitone
    <2>2. a = Max({1, Second \div slow}) /\ b = Max({1, Second \div slower})
      BY DEF Capability, RequestBudgetFor
    <2>i. 1 \in Int /\ Second \div slow \in Int /\ Second \div slower \in Int
      BY <2>1
    <2>3. a >= 1 /\ a >= Second \div slow
      <3> HIDE DEF a
      <3> QED
        BY <2>i, <2>2, MaxOfTwo
    <2>4. b \in {1, Second \div slower}
      <3> HIDE DEF b
      <3> QED
        BY <2>i, <2>2, MaxOfTwo
    <2> HIDE DEF a, b
    <2> QED
      BY <1>1, <2>1, <2>3, <2>4 DEF Positive
  <1> HIDE DEF a, b, d
  <1>4. Min({d, a}) \in {d, a} /\ Min({d, a}) <= d /\ Min({d, a}) <= a
    BY <1>1, MinOfTwo DEF Positive
  <1>5. Min({d, b}) \in {d, b} /\ Min({d, b}) <= d /\ Min({d, b}) <= b
    BY <1>1, MinOfTwo DEF Positive
  <1>6. /\ Min({d, a}) \in Positive /\ Min({d, b}) \in Positive
        /\ Min({d, b}) <= Min({d, a})
    BY <1>1, <1>2, <1>3, <1>4, <1>5 DEF Positive
  <1> QED
    BY <1>6 DEF a, b, d
-----------------------------------------------------------------------------
(* The inductive invariant.                                                *)

\* The intervals in use and the ones asked for are those of the same signals.
Shaped ==
  /\ IsFiniteSet(DOMAIN interval)
  /\ interval \in [DOMAIN interval -> Positive] /\ requested \in [DOMAIN interval -> Positive]
  /\ slowest \in Nat

\* HalfTheBudgetIsUsed at every moment, also between a read and the reshaping.
HalfUsed(asked, f, tightest) ==
  \/ f = asked
  \/ (2 * Precision) * Reads(f) >= (tightest * Precision - Cardinality(DOMAIN f)) * Whole(f)

HalfKept == HalfUsed(requested, interval, Tightest)

Inv == Shaped /\ PrioritiesKept /\ NotOverbooked /\ HalfKept

LEMMA HalfUsedLater ==
  ASSUME NEW D, IsFiniteSet(D), NEW f \in [D -> Positive], NEW asked,
         NEW t \in Nat, NEW u \in Nat, u <= t, HalfUsed(asked, f, t)
  PROVE  HalfUsed(asked, f, u)
  <1> SUFFICES ASSUME (2 * Precision) * Reads(f) >= (t * Precision - Cardinality(D)) * Whole(f)
               PROVE  (2 * Precision) * Reads(f) >= (u * Precision - Cardinality(D)) * Whole(f)
    BY DEF HalfUsed
  <1> DEFINE P == Precision
             W == Whole(f)
             Q == Reads(f)
             n == Cardinality(D)
  <1>1. P \in Nat /\ W \in Nat /\ Q \in Nat /\ n \in Nat
    BY ScheduleAssumption, WholeIsMultiple, ReadsType, FS_CardinalityType DEF Positive
  <1>a. (2 * P) * Q >= (t * P - n) * W
    OBVIOUS
  <1> HIDE DEF P, W, Q, n
  <1>2. u * P <= t * P
    BY <1>1, Multiply
  <1>3. u * P - n <= t * P - n /\ u * P - n \in Int /\ t * P - n \in Int
    BY <1>1, <1>2
  <1>4. (u * P - n) * W <= (t * P - n) * W
    BY <1>1, <1>3, Multiply
  <1>5. (2 * P) * Q \in Int /\ (u * P - n) * W \in Int /\ (t * P - n) * W \in Int
    BY <1>1
  <1>6. (2 * P) * Q >= (u * P - n) * W
    BY <1>4, <1>5, <1>a
  <1> QED
    BY <1>6 DEF P, W, Q, n

\* Scaling keeps the relative rates, and half of the tightest budget so far.
LEMMA ScaledKeeps ==
  ASSUME NEW D, IsFiniteSet(D), NEW asked \in [D -> Positive], NEW g \in [D -> Positive],
         NEW c \in Positive, NEW t \in Nat, t <= c,
         \A s, r \in D : g[s] * asked[r] = g[r] * asked[s],
         HalfUsed(asked, g, t)
  PROVE  /\ \A s, r \in D : Scaled(g, c)[s] * asked[r] = Scaled(g, c)[r] * asked[s]
         /\ HalfUsed(asked, Scaled(g, c), t)
  <1>1. PICK k \in Positive : Scaled(g, c) = [s \in D |-> g[s] * k]
    BY ScaledFacts
  <1>2. ASSUME NEW s \in D, NEW r \in D
        PROVE  Scaled(g, c)[s] * asked[r] = Scaled(g, c)[r] * asked[s]
    <2>1. /\ Scaled(g, c)[s] = g[s] * k /\ Scaled(g, c)[r] = g[r] * k
          /\ g[s] * asked[r] = g[r] * asked[s]
      BY <1>1
    <2>2. g[s] \in Nat /\ g[r] \in Nat /\ asked[s] \in Nat /\ asked[r] \in Nat /\ k \in Nat
      BY DEF Positive
    <2>3. \A a, b, d, e, m \in Nat : a * e = b * d => (a * m) * e = (b * m) * d
      <3> TAKE a, b, d, e, m \in Nat
      <3>1. (a * m) * e = m * (a * e) /\ (b * m) * d = m * (b * d)
        OBVIOUS
      <3> QED
        BY <3>1
    <2> QED
      BY <2>1, <2>2, <2>3
  <1>3. Scaled(g, c) \in [D -> Positive]
    BY ScaledFacts
  <1>4. HalfUsed(asked, Scaled(g, c), t)
    <2>1. CASE Scaled(g, c) = g
      BY <2>1
    <2>2. CASE Scaled(g, c) # g
      <3>1. DOMAIN Scaled(g, c) = D
        BY <1>3
      <3>2. HalfUsed(asked, Scaled(g, c), c)
        BY <2>2, <3>1, ScaledFacts DEF HalfUsed
      <3> QED
        BY <1>3, <3>2, HalfUsedLater DEF Positive
    <2> QED
      BY <2>1, <2>2
  <1> QED
    BY <1>2, <1>4

\* What is asked for is positive, and about known signals only.
LEMMA MergedType ==
  ASSUME NEW requests, \A r \in requests : r.semantic \in Signals /\ r.interval \in Positive
  PROVE  /\ IsFiniteSet(DOMAIN Merged(requests))
         /\ Merged(requests) \in [DOMAIN Merged(requests) -> Positive]
  <1> DEFINE D == {r.semantic : r \in requests}
             Asked(s) == {r.interval : r \in {q \in requests : q.semantic = s}}
  <1>1. Merged(requests) = [s \in D |-> Min(Asked(s))]
    BY DEF Merged
  <1>2. D \in SUBSET Signals /\ IsFiniteSet(D)
    BY ScheduleAssumption, FS_Subset
  <1>3. ASSUME NEW s \in D PROVE Min(Asked(s)) \in Positive
    <2>1. Asked(s) \in SUBSET Positive /\ Asked(s) # {}
      OBVIOUS
    <2> HIDE DEF Asked
    <2> QED
      BY <2>1, MinIsIn
  <1> HIDE DEF Asked, D
  <1>4. DOMAIN Merged(requests) = D
    BY <1>1
  <1> QED
    BY <1>1, <1>2, <1>3, <1>4

\* The schedule starts from intervals that are in the proportions asked for.
LEMMA StartInv ==
  ASSUME NEW D, IsFiniteSet(D), NEW asked \in [D -> Positive], NEW wanted \in [D -> Positive],
         NEW signals, slowest \in Nat, Start(signals, asked, wanted),
         \A s, r \in D : wanted[s] * asked[r] = wanted[r] * asked[s],
         HalfUsed(asked, wanted, Tightest)
  PROVE  Inv'
  <1>1. /\ interval' = Scaled(wanted, Capability(slowest)) /\ requested' = asked
        /\ slowest' = slowest
    BY DEF Start
  <1>2. Capability(slowest) \in Positive
    BY CapabilityFacts
  <1>3. Tightest \in Positive /\ Tightest <= Capability(slowest)
    <2>1. Capability(slowest) \in Int /\ DefaultBudget \in Int
      BY <1>2, ScheduleAssumption DEF Positive
    <2> QED
      BY <2>1, TightestShrinks, MinOfTwo DEF Tightest
  <1>4. /\ interval' \in [D -> Positive]
        /\ Reads(interval') <= Capability(slowest) * Whole(interval')
    BY <1>1, <1>2, ScaledFacts
  <1>5. /\ \A s, r \in D : interval'[s] * asked[r] = interval'[r] * asked[s]
        /\ HalfUsed(asked, interval', Tightest)
    BY <1>1, <1>2, <1>3, ScaledKeeps DEF Positive
  <1>6. DOMAIN interval' = D
    BY <1>4
  <1>7. Shaped'
    BY <1>1, <1>4, <1>6 DEF Shaped
  <1>8. PrioritiesKept'
    BY <1>1, <1>5, <1>6 DEF PrioritiesKept
  <1>9. NotOverbooked'
    BY <1>1, <1>4 DEF NotOverbooked
  <1>10. HalfKept'
    BY <1>1, <1>5 DEF HalfKept, HalfUsed, Tightest
  <1> QED
    BY <1>7, <1>8, <1>9, <1>10 DEF Inv

\* What a plan schedules: the supported signals, with what was asked for and
\* what that is scaled to.
LEMMA PlanFacts ==
  ASSUME NEW requests, NEW supported, NEW budget
  PROVE  LET r == Restricted(Merged(requests), supported)
             p == Plan(requests, supported, budget)
         IN  /\ Scheduled(p) = DOMAIN r
             /\ [s \in Scheduled(p) |-> p[s].requested] = r
             /\ [s \in Scheduled(p) |-> p[s].effective] = Scaled(r, budget)
  <1> DEFINE m == Merged(requests)
             r == Restricted(m, supported)
             e == Scaled(r, budget)
             p == Plan(requests, supported, budget)
             D == DOMAIN m \cap supported
  <1>1. DOMAIN r = D /\ \A s \in D : r[s] = m[s]
    BY DEF Restricted
  <1>2. DOMAIN e = D /\ e = [s \in D |-> e[s]]
    <2>1. DOMAIN e = D
      BY <1>1 DEF Scaled
    <2> QED
      BY <2>1 DEF Scaled
  <1>3. p = [s \in DOMAIN m |-> IF s \in supported THEN PlanEntry(m[s], e[s]) ELSE Unsupported(m[s])]
    BY DEF Plan
  <1>r. r = [s \in D |-> m[s]]
    BY DEF Restricted
  <1> HIDE DEF m, r, e, p
  <1>4. \A s \in D : /\ p[s].requested = m[s] /\ p[s].effective = e[s]
                     /\ p[s].status # "Unsupported"
    BY <1>3 DEF PlanEntry
  <1>5. \A s \in DOMAIN m : s \notin supported => p[s].status = "Unsupported"
    BY <1>3 DEF Unsupported
  <1>6. Scheduled(p) = D
    BY <1>3, <1>4, <1>5 DEF Scheduled
  <1>7. [s \in D |-> p[s].requested] = r
    BY <1>4, <1>r
  <1>8. [s \in D |-> p[s].effective] = e
    BY <1>2, <1>4
  <1> QED
    BY <1>1, <1>6, <1>7, <1>8 DEF m, r, e, p

LEMMA StartLayoutInv ==
  ASSUME Inv, StartLayout
  PROVE  Inv'
  <1>1. PICK panels \in SUBSET [semantic : Signals, interval : Freshness] :
        \E supported \in SUBSET {r.semantic : r \in panels} :
        LET p == Plan(panels, supported, DefaultBudget)
        IN  Start(SetToSortSeq(Scheduled(p), <), [s \in Scheduled(p) |-> p[s].requested],
                  [s \in Scheduled(p) |-> p[s].effective])
    BY DEF StartLayout
  <1>2. PICK supported \in SUBSET {r.semantic : r \in panels} :
        LET p == Plan(panels, supported, DefaultBudget)
        IN  Start(SetToSortSeq(Scheduled(p), <), [s \in Scheduled(p) |-> p[s].requested],
                  [s \in Scheduled(p) |-> p[s].effective])
    BY <1>1
  <1> DEFINE m == Merged(panels)
             r == Restricted(m, supported)
             p == Plan(panels, supported, DefaultBudget)
             e == Scaled(r, DefaultBudget)
             D == DOMAIN m \cap supported
             order2 == SetToSortSeq(Scheduled(p), <)
  <1>3. \A q \in panels : q.semantic \in Signals /\ q.interval \in Positive
    BY ScheduleAssumption DEF Positive
  <1>4. IsFiniteSet(DOMAIN m) /\ m \in [DOMAIN m -> Positive]
    BY <1>3, MergedType
  <1>5. IsFiniteSet(D)
    BY <1>4, FS_Subset
  <1>6. r \in [D -> Positive]
    <2> HIDE DEF m
    <2> QED
      BY <1>4 DEF Restricted
  <1>7. /\ [s \in Scheduled(p) |-> p[s].requested] = r
        /\ [s \in Scheduled(p) |-> p[s].effective] = e
    BY PlanFacts
  <1>8. Start(order2, r, e)
    BY <1>2, <1>7
  <1>9. slowest \in Nat /\ DefaultBudget \in Positive
    BY ScheduleAssumption DEF Inv, Shaped, Positive
  <1>10. Tightest \in Nat /\ Tightest <= DefaultBudget
    <2>1. Capability(slowest) \in Int /\ DefaultBudget \in Int
      BY <1>9, CapabilityFacts DEF Positive
    <2>2. Tightest <= DefaultBudget
      BY <2>1, MinOfTwo DEF Tightest
    <2>3. Tightest \in Positive
      BY <1>9, TightestShrinks DEF Tightest
    <2> QED
      BY <2>2, <2>3 DEF Positive
  <1> HIDE DEF m, r, p, D, order2
  <1>11. \A s, t \in D : r[s] * r[t] = r[t] * r[s]
    BY <1>6 DEF Positive
  <1>12. HalfUsed(r, r, Tightest)
    BY DEF HalfUsed
  <1>13. /\ e \in [D -> Positive] /\ HalfUsed(r, e, Tightest)
         /\ \A s, t \in D : e[s] * r[t] = e[t] * r[s]
    <2>1. e \in [D -> Positive]
      BY <1>5, <1>6, <1>9, ScaledFacts
    <2>2. /\ \A s, t \in D : Scaled(r, DefaultBudget)[s] * r[t] = Scaled(r, DefaultBudget)[t] * r[s]
          /\ HalfUsed(r, Scaled(r, DefaultBudget), Tightest)
      BY <1>5, <1>6, <1>9, <1>10, <1>11, <1>12, ScaledKeeps
    <2> QED
      BY <2>1, <2>2
  <1> HIDE DEF e
  <1> QED
    BY <1>5, <1>6, <1>8, <1>9, <1>13, StartInv

LEMMA StartProfileInv ==
  ASSUME Inv, StartProfile
  PROVE  Inv'
  <1>1. PICK doc \in Profiles :
          /\ ValidProfile(doc)
          /\ Start([i \in DOMAIN doc |-> doc[i].semantic], Merged(Range(doc)), Merged(Range(doc)))
    BY DEF StartProfile
  <1> DEFINE m == Merged(Range(doc))
             D == DOMAIN m
             signals == [i \in DOMAIN doc |-> doc[i].semantic]
  <1>2. \A r \in Range(doc) : r.semantic \in Signals /\ r.interval \in Positive
    <2>1. doc \in Seq([semantic : Nat, interval : Nat])
      BY ScheduleAssumption
    <2>2. \A i \in DOMAIN doc : doc[i] \in [semantic : Nat, interval : Nat]
      <3> DEFINE Observations == [semantic : Nat, interval : Nat]
      <3>1. doc \in Seq(Observations)
        BY <2>1
      <3> HIDE DEF Observations
      <3>2. \A i \in DOMAIN doc : doc[i] \in Observations
        BY <3>1
      <3> QED
        BY <3>2 DEF Observations
    <2>3. \A i \in DOMAIN doc : doc[i].interval \in Nat
      BY <2>2
    <2>4. \A i \in DOMAIN doc : doc[i].interval > 0 /\ doc[i].semantic \in Signals
      BY <1>1 DEF ValidProfile
    <2> QED
      BY <2>3, <2>4 DEF Range, Positive
  <1>3. IsFiniteSet(D) /\ m \in [D -> Positive]
    BY <1>2, MergedType
  <1>4. Start(signals, m, m)
    BY <1>1
  <1> HIDE DEF m, D, signals
  <1>5. \A s, r \in D : m[s] * m[r] = m[r] * m[s]
    BY <1>3 DEF Positive
  <1>6. HalfUsed(m, m, Tightest) /\ slowest \in Nat
    BY DEF HalfUsed, Inv, Shaped
  <1> QED
    BY <1>3, <1>4, <1>5, <1>6, StartInv

LEMMA ReadOneInv ==
  ASSUME Inv, ReadOne
  PROVE  Inv'
  <1>1. PICK t \in ServiceTimes : slowest' = Max({slowest, t})
    BY DEF ReadOne, Observe
  <1>2. UNCHANGED <<interval, requested>> /\ phase' # "sleeping"
    BY DEF ReadOne
  <1>3. slowest \in Nat /\ t \in Nat
    BY ScheduleAssumption DEF Inv, Shaped
  <1>4. slowest' \in Nat /\ slowest <= slowest'
    BY <1>1, <1>3, MaxOfTwo
  <1>5. Shaped' /\ PrioritiesKept' /\ NotOverbooked'
    BY <1>2, <1>4 DEF Inv, Shaped, PrioritiesKept, NotOverbooked
  <1>6. Tightest \in Nat /\ Tightest' \in Nat /\ Tightest' <= Tightest
    BY <1>3, <1>4, TightestShrinks DEF Tightest, Positive
  <1>7. HalfUsed(requested, interval, Tightest')
    <2> DEFINE D == DOMAIN interval
    <2>1. IsFiniteSet(D) /\ interval \in [D -> Positive] /\ HalfUsed(requested, interval, Tightest)
      BY DEF Inv, Shaped, HalfKept
    <2> HIDE DEF D
    <2> QED
      BY <1>6, <2>1, HalfUsedLater
  <1>8. HalfKept'
    BY <1>2, <1>7 DEF HalfKept
  <1> QED
    BY <1>5, <1>8 DEF Inv

LEMMA ReshapeInv ==
  ASSUME Inv, ReshapeSchedule
  PROVE  Inv'
  <1> DEFINE D == DOMAIN interval
             c == Capability(slowest)
  <1>1. interval' = Scaled(interval, c) /\ UNCHANGED <<requested, slowest>>
    BY DEF ReshapeSchedule
  <1>2. /\ IsFiniteSet(D) /\ interval \in [D -> Positive] /\ requested \in [D -> Positive]
        /\ slowest \in Nat /\ HalfUsed(requested, interval, Tightest)
        /\ \A s, r \in D : interval[s] * requested[r] = interval[r] * requested[s]
    BY DEF Inv, Shaped, HalfKept, PrioritiesKept
  <1>3. c \in Positive /\ Tightest \in Nat /\ Tightest <= c
    <2>1. c \in Positive
      BY <1>2, CapabilityFacts
    <2>2. c \in Int /\ DefaultBudget \in Int
      BY <2>1, ScheduleAssumption DEF Positive
    <2> QED
      BY <1>2, <2>1, <2>2, TightestShrinks, MinOfTwo DEF Tightest, Positive
  <1>d. DOMAIN interval = D
    OBVIOUS
  <1> HIDE DEF D
  <1>4. interval' \in [D -> Positive] /\ Reads(interval') <= c * Whole(interval')
    BY <1>1, <1>2, <1>3, ScaledFacts
  <1>5. /\ HalfUsed(requested, interval', Tightest)
        /\ \A s, r \in D : interval'[s] * requested[r] = interval'[r] * requested[s]
    <2> HIDE DEF c
    <2> QED
      BY <1>1, <1>2, <1>3, ScaledKeeps
  <1>6. DOMAIN interval' = D
    BY <1>4
  <1>7. Shaped' /\ PrioritiesKept'
    BY <1>1, <1>2, <1>4, <1>5, <1>6 DEF Shaped, PrioritiesKept
  <1>8. NotOverbooked'
    BY <1>1, <1>4 DEF NotOverbooked
  <1>9. HalfKept'
    BY <1>1, <1>5 DEF HalfKept, Tightest
  <1> QED
    BY <1>7, <1>8, <1>9 DEF Inv

LEMMA InvKept == Inv /\ [Next]_vars => Inv'
  <1> SUFFICES ASSUME Inv, [Next]_vars PROVE Inv'
    OBVIOUS
  <1>1. CASE UNCHANGED <<interval, requested, slowest>> /\ (phase' = "sleeping" => phase = "sleeping")
    BY <1>1 DEF Inv, Shaped, PrioritiesKept, NotOverbooked, HalfKept, Tightest
  <1>2. CASE RefuseProfile
    BY <1>1, <1>2 DEF RefuseProfile
  <1>3. CASE Wake
    BY <1>1, <1>3 DEF Wake
  <1>4. CASE Done \/ UNCHANGED vars
    BY <1>1, <1>4 DEF Done, vars
  <1> QED
    BY <1>2, <1>3, <1>4, StartLayoutInv, StartProfileInv, ReadOneInv, ReshapeInv DEF Next

LEMMA InitInv == Init => Inv
  <1> SUFFICES ASSUME Init PROVE Inv
    OBVIOUS
  <1>1. /\ interval = <<>> /\ requested = <<>> /\ slowest = 0 /\ phase = "new"
    BY DEF Init
  <1>2. DOMAIN interval = {}
    BY <1>1
  <1>3. Shaped
    BY <1>1, <1>2, FS_EmptySet DEF Shaped
  <1>4. PrioritiesKept /\ NotOverbooked /\ HalfKept
    BY <1>1, <1>2 DEF PrioritiesKept, NotOverbooked, HalfKept, HalfUsed
  <1> QED
    BY <1>3, <1>4 DEF Inv

LEMMA AlwaysInv == Spec => []Inv
  BY InitInv, InvKept, PTL DEF Spec
-----------------------------------------------------------------------------
\* For any signals, intervals, service times and delays of the timer: however
\* often reshape_schedule stretches intervals that it stretched before, the
\* signals keep the relative rates that were asked for.
THEOREM RelativeRatesKept == Spec => []PrioritiesKept
  <1>1. Inv => PrioritiesKept
    BY DEF Inv
  <1> QED
    BY <1>1, AlwaysInv, PTL

\* Whatever fit_intervals rounds, a schedule that sleeps asks for no more reads
\* per second than the slowest read so far allows, and for half of them or more.
THEOREM BudgetAlwaysMet == Spec => []BudgetIsMet
  <1>1. Inv => BudgetIsMet
    BY DEF Inv, BudgetIsMet, HalfKept, HalfUsed, HalfTheBudgetIsUsed
  <1> QED
    BY <1>1, AlwaysInv, PTL
=============================================================================
