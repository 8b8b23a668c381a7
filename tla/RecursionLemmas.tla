--------------------------- MODULE RecursionLemmas ---------------------------
(***************************************************************************)
(* What the proofs about the algorithms rest on, and what the model knows  *)
(* nothing of: least elements, greatest and least numbers of a finite set, *)
(* and that an equation f = [x \in D |-> ... f[t] ...] in which f[x] looks *)
(* only at elements t of a lower rank has a solution.  TLA+ defines a      *)
(* recursive function as CHOOSE f : f = [x \in D |-> ...], so this is what *)
(* lets a proof unfold one.                                                *)
(***************************************************************************)
EXTENDS Integers, FiniteSetsExt, FiniteSetTheorems, TLAPS

(* A set of natural numbers that is not empty has a least element.         *)
LEMMA LeastNumber ==
    ASSUME NEW T, T \subseteq Nat, T # {}
    PROVE  \E n \in T : \A m \in T : n <= m
<1>1. PICK k \in T : TRUE
  OBVIOUS
<1> DEFINE B == 0..k
           R == StrictSubsetOrdering(B)
           U == {0..n : n \in T \cap B}
<1>2. IsFiniteSet(B)
  BY <1>1, FS_Interval
<1>3. IsWellFoundedOn(R, SUBSET B)
  BY <1>2, FS_StrictSubsetOrderingWellFounded, FS_FiniteSubsetsOfFinite
<1>4. U \subseteq SUBSET B /\ U # {}
  BY <1>1
<1> HIDE DEF R
<1>5. PICK X \in U : \A Y \in U : <<Y, X>> \notin R
  BY <1>3, <1>4, WFMin
<1> USE DEF R
<1>6. PICK n \in T \cap B : X = 0..n
  BY <1>5
<1>7. \A m \in T \cap B : n <= m
  <2> SUFFICES ASSUME NEW m \in T \cap B, m < n PROVE FALSE
    OBVIOUS
  <2>1. 0..m \in U /\ 0..m \subseteq 0..n /\ n \in 0..n /\ n \notin 0..m
    OBVIOUS
  <2>2. <<0..m, 0..n>> \in R
    BY <2>1, <1>4, <1>5, <1>6 DEF StrictSubsetOrdering
  <2> QED BY <2>1, <2>2, <1>5, <1>6
<1> QED BY <1>7

(* Among elements with a rank there is one of the lowest rank: what the    *)
(* proofs below use in place of an induction is a least counterexample.    *)
LEMMA LeastRank ==
    ASSUME NEW D, NEW rank \in [D -> Nat], NEW T, T \subseteq D, T # {}
    PROVE  \E x \in T : \A y \in T : rank[x] <= rank[y]
<1> DEFINE N == {rank[x] : x \in T}
<1>1. N \subseteq Nat /\ N # {}
  OBVIOUS
<1> HIDE DEF N
<1>2. PICK n \in N : \A m \in N : n <= m
  BY <1>1, LeastNumber
<1> QED BY <1>2 DEF N

(* A bounded set of integers that is not empty has a greatest and a least  *)
(* element, and they are what Max and Min choose.                          *)
LEMMA MaxOfBounded ==
    ASSUME NEW S, S \subseteq Int, S # {}, NEW b \in Int, \A x \in S : x <= b
    PROVE  Max(S) \in S /\ \A x \in S : x <= Max(S)
<1> DEFINE N == {b - x : x \in S}
<1>1. N \subseteq Nat /\ N # {}
  <2>1. \A x \in S : b - x \in Nat
    OBVIOUS
  <2> QED BY <2>1
<1> HIDE DEF N
<1>2. PICK n \in N : \A m \in N : n <= m
  BY <1>1, LeastNumber
<1>3. PICK x \in S : n = b - x
  BY <1>2 DEF N
<1>4. \A y \in S : b - x <= b - y
  BY <1>2, <1>3 DEF N
<1>5. \A y \in S : y <= x
  BY <1>4
<1> QED BY <1>5 DEF Max

(* The same for a lower bound.                                             *)
LEMMA MinOfBounded ==
    ASSUME NEW S, S \subseteq Int, S # {}, NEW b \in Int, \A x \in S : x >= b
    PROVE  Min(S) \in S /\ \A x \in S : x >= Min(S)
<1> DEFINE N == {x - b : x \in S}
<1>1. N \subseteq Nat /\ N # {}
  <2>1. \A x \in S : x - b \in Nat
    OBVIOUS
  <2> QED BY <2>1
<1> HIDE DEF N
<1>2. PICK n \in N : \A m \in N : n <= m
  BY <1>1, LeastNumber
<1>3. PICK x \in S : n = x - b
  BY <1>2 DEF N
<1>4. \A y \in S : x - b <= y - b
  BY <1>2, <1>3 DEF N
<1>5. \A y \in S : y >= x
  BY <1>4
<1> QED BY <1>5 DEF Min

(* So has a finite set of integers, bounded or not by anything known.      *)
LEMMA FiniteIsBounded ==
    ASSUME NEW S, S \subseteq Int, IsFiniteSet(S)
    PROVE  \E b \in Int : \A x \in S : -b <= x /\ x <= b
<1> DEFINE R == StrictSubsetOrdering(S)
           U == {T \in SUBSET S : ~\E b \in Int : \A x \in T : -b <= x /\ x <= b}
<1>1. IsWellFoundedOn(R, SUBSET S)
  BY FS_StrictSubsetOrderingWellFounded, FS_FiniteSubsetsOfFinite
<1> SUFFICES ASSUME U # {} PROVE FALSE
  OBVIOUS
<1> HIDE DEF R
<1>2. PICK T \in U : \A Y \in U : <<Y, T>> \notin R
  BY <1>1, WFMin
<1> USE DEF R
<1>3. CASE T = {}
  <2>1. \A x \in T : -0 <= x /\ x <= 0
    BY <1>3
  <2> QED BY <2>1
<1>4. CASE T # {}
  <2>1. PICK t \in T : TRUE
    BY <1>4
  <2>2. T \ {t} \notin U
    BY <1>2, <2>1 DEF StrictSubsetOrdering
  <2>3. PICK b \in Int : \A x \in T \ {t} : -b <= x /\ x <= b
    BY <2>2
  <2> DEFINE a == IF t >= 0 THEN t ELSE -t
             c == IF a >= b THEN a ELSE b
  <2>4. t \in Int
    OBVIOUS
  <2>5. c \in Int /\ c >= a /\ c >= b /\ -a <= t /\ t <= a
    BY <2>4
  <2>6. \A x \in T : -c <= x /\ x <= c
    <3> HIDE DEF c, a
    <3> SUFFICES ASSUME NEW x \in T PROVE -c <= x /\ x <= c
      OBVIOUS
    <3>1. a \in Int
      BY <2>4 DEF a
    <3>2. CASE x = t
      BY <3>1, <3>2, <2>5, <2>4
    <3>3. CASE x # t
      <4>1. -b <= x /\ x <= b /\ x \in Int
        BY <3>3, <2>3
      <4> QED BY <4>1, <2>5
    <3> QED BY <3>2, <3>3
  <2> QED BY <2>5, <2>6
<1> QED BY <1>3, <1>4

(* A non-empty finite set of integers has a greatest element ...           *)
LEMMA MaxOfFinite ==
    ASSUME NEW S, S \subseteq Int, S # {}, IsFiniteSet(S)
    PROVE  Max(S) \in S /\ \A x \in S : x <= Max(S)
  BY FiniteIsBounded, MaxOfBounded

(* ... and a least one.                                                    *)
LEMMA MinOfFinite ==
    ASSUME NEW S, S \subseteq Int, S # {}, IsFiniteSet(S)
    PROVE  Min(S) \in S /\ \A x \in S : x >= Min(S)
<1>1. PICK b \in Int : \A x \in S : -b <= x /\ x <= b
  BY FiniteIsBounded
<1>2. -b \in Int /\ \A x \in S : x >= -b
  BY <1>1
<1> QED BY <1>2, MinOfBounded

(* F is the right-hand side of a recursive definition: F[g] at an element  *)
(* looks at g at elements of a lower rank only, and ranks are bounded.     *)
Descends(F, D, V, rank, n) ==
    /\ n \in Nat
    /\ rank \in [D -> 0..n]
    /\ F \in [[D -> V] -> [D -> V]]
    /\ \A g, h \in [D -> V] : \A x \in D :
          (\A t \in D : rank[t] < rank[x] => g[t] = h[t]) => F[g][x] = F[h][x]

(* Then the recursive definition has a solution.  The approximations are   *)
(* the functions that F leaves alone up to a rank.                         *)
LEMMA RecursionHasSolution ==
    ASSUME NEW F, NEW D, NEW V, NEW rank, NEW n, Descends(F, D, V, rank, n), V # {}
    PROVE  \E g \in [D -> V] : F[g] = g
<1> USE DEF Descends
<1> DEFINE Fixed(g, k) == \A x \in D : rank[x] < k => F[g][x] = g[x]
           Bad == {k \in Nat : ~\E g \in [D -> V] : Fixed(g, k)}
<1>1. Bad = {}
  <2> SUFFICES ASSUME Bad # {} PROVE FALSE
    OBVIOUS
  <2>1. Bad \subseteq Nat
    OBVIOUS
  <2> HIDE DEF Bad
  <2>2. PICK k \in Bad : \A m \in Bad : k <= m
    BY <2>1, LeastNumber
  <2>3. k # 0
    <3>1. PICK v \in V : TRUE
      OBVIOUS
    <3>2. [x \in D |-> v] \in [D -> V] /\ Fixed([x \in D |-> v], 0)
      OBVIOUS
    <3>3. 0 \notin Bad
      BY <3>2 DEF Bad
    <3> QED BY <3>3
  <2>4. k - 1 \in Nat /\ k - 1 \notin Bad
    BY <2>1, <2>2, <2>3
  <2>5. PICK g \in [D -> V] : Fixed(g, k - 1)
    <3> HIDE DEF Fixed
    <3> QED BY <2>4 DEF Bad
  <2>6. F[g] \in [D -> V]
    OBVIOUS
  <2>7. Fixed(F[g], k)
    <3> SUFFICES ASSUME NEW x \in D, rank[x] < k PROVE F[F[g]][x] = F[g][x]
      OBVIOUS
    <3>1. \A t \in D : rank[t] < rank[x] => F[g][t] = g[t]
      BY <2>1, <2>2, <2>5
    <3> QED BY <3>1, <2>6
  <2> HIDE DEF Fixed
  <2>8. k \notin Bad
    BY <2>6, <2>7 DEF Bad
  <2> QED BY <2>8
<1>2. PICK g \in [D -> V] : Fixed(g, n + 1)
  <2> HIDE DEF Fixed
  <2>1. n + 1 \in Nat
    OBVIOUS
  <2> QED BY <2>1, <1>1
<1>3. \A x \in D : F[g][x] = g[x]
  BY <1>2
<1>4. F[g] \in [D -> V]
  OBVIOUS
<1> QED BY <1>3, <1>4

(* The least of two integers.                                              *)
LEMMA MinOfTwo ==
    ASSUME NEW a \in Int, NEW b \in Int
    PROVE  Min({a, b}) \in {a, b} /\ Min({a, b}) <= a /\ Min({a, b}) <= b
<1>1. \E x \in {a, b} : \A y \in {a, b} : x <= y
  OBVIOUS
<1> QED BY <1>1 DEF Min

(* The least of three integers.                                            *)
LEMMA MinOfThree ==
    ASSUME NEW a \in Int, NEW b \in Int, NEW c \in Int
    PROVE  /\ Min({a, b, c}) \in {a, b, c}
           /\ Min({a, b, c}) <= a /\ Min({a, b, c}) <= b /\ Min({a, b, c}) <= c
<1>1. \E x \in {a, b, c} : \A y \in {a, b, c} : x <= y
  OBVIOUS
<1> QED BY <1>1 DEF Min

(* The image of a finite set is finite.                                    *)
LEMMA ImageFinite ==
    ASSUME NEW A, NEW f, IsFiniteSet(A)
    PROVE  IsFiniteSet({f[x] : x \in A})
<1> DEFINE g == [x \in A |-> f[x]]
<1>1. g \in Surjection(A, {f[x] : x \in A})
  BY DEF Surjection
<1> QED BY <1>1, FS_Surjection

(* The elements of S that are below x in the order R.                      *)
Below(S, R, x) == {y \in S : <<y, x>> \in R}

IsStrictOrder(S, R) ==
    /\ \A x \in S : <<x, x>> \notin R
    /\ \A x, y, z \in S : <<x, y>> \in R /\ <<y, z>> \in R => <<x, z>> \in R
    /\ \A x, y \in S : x # y => <<x, y>> \in R \/ <<y, x>> \in R

(* In a finite ordered set every number smaller than its size is how many  *)
(* elements there are below exactly one element, in order.                 *)
LEMMA Ranks ==
    ASSUME NEW S, IsFiniteSet(S), NEW R, IsStrictOrder(S, R)
    PROVE  /\ \A x \in S : Cardinality(Below(S, R, x)) \in 0..(Cardinality(S) - 1)
           /\ \A x, y \in S : <<x, y>> \in R <=> Cardinality(Below(S, R, x)) < Cardinality(Below(S, R, y))
           /\ \A x, y \in S : Cardinality(Below(S, R, x)) = Cardinality(Below(S, R, y)) => x = y
           /\ \A k \in 0..(Cardinality(S) - 1) : \E x \in S : Cardinality(Below(S, R, x)) = k
<1> DEFINE rank == [x \in S |-> Cardinality(Below(S, R, x))]
           n == Cardinality(S)
<1>1. n \in Nat
  BY FS_CardinalityType
<1>2. ASSUME NEW x \in S PROVE IsFiniteSet(Below(S, R, x)) /\ rank[x] \in 0..(n - 1)
  <2>1. Below(S, R, x) \in SUBSET S /\ x \notin Below(S, R, x)
    BY DEF Below, IsStrictOrder
  <2>2. /\ IsFiniteSet(Below(S, R, x)) /\ Cardinality(Below(S, R, x)) <= Cardinality(S)
        /\ Cardinality(S) # Cardinality(Below(S, R, x))
    BY <2>1, FS_Subset
  <2>3. Cardinality(Below(S, R, x)) \in Nat
    BY <2>2, FS_CardinalityType
  <2> QED BY <1>1, <2>2, <2>3
<1>3. ASSUME NEW x \in S, NEW y \in S, <<x, y>> \in R PROVE rank[x] < rank[y]
  <2>1. /\ Below(S, R, x) \in SUBSET Below(S, R, y)
        /\ x \in Below(S, R, y) /\ x \notin Below(S, R, x)
    BY <1>3 DEF Below, IsStrictOrder
  <2>2. /\ Cardinality(Below(S, R, x)) <= Cardinality(Below(S, R, y))
        /\ Cardinality(Below(S, R, x)) # Cardinality(Below(S, R, y))
    BY <2>1, <1>2, FS_Subset
  <2> QED BY <2>2, <1>1, <1>2
<1>4. rank \in [S -> 0..(n - 1)] /\ IsFiniteSet(0..(n - 1)) /\ Cardinality(0..(n - 1)) = n
  BY <1>1, <1>2, FS_Interval
<1> HIDE DEF rank, n
<1>5. ASSUME NEW x \in S, NEW y \in S
      PROVE  /\ rank[x] = rank[y] => x = y
             /\ <<x, y>> \in R <=> rank[x] < rank[y]
  <2>1. rank[x] \in Int /\ rank[y] \in Int
    BY <1>1, <1>4
  <2>2. x = y \/ <<x, y>> \in R \/ <<y, x>> \in R
    BY DEF IsStrictOrder
  <2>3. <<x, y>> \in R => rank[x] < rank[y]
    BY <1>3
  <2>4. <<y, x>> \in R => rank[y] < rank[x]
    BY <1>3
  <2> QED BY <2>1, <2>2, <2>3, <2>4
<1>6. rank \in Injection(S, 0..(n - 1))
  <2>1. \A x, y \in S : rank[x] = rank[y] => x = y
    BY <1>5
  <2>2. rank \in [S -> 0..(n - 1)]
    BY <1>4
  <2> QED BY <2>1, <2>2 DEF Injection, IsInjective
<1>8. rank \in Surjection(S, 0..(n - 1))
  <2> DEFINE I == 0..(n - 1)
  <2>1. rank \in Injection(S, I) /\ IsFiniteSet(I) /\ Cardinality(S) = Cardinality(I)
    BY <1>4, <1>6 DEF n
  <2> HIDE DEF I
  <2>2. rank \in Surjection(S, I)
    BY <2>1, FS_Injection
  <2> QED BY <2>2 DEF I
<1>9. \A k \in 0..(n - 1) : \E x \in S : rank[x] = k
  BY <1>8 DEF Surjection
<1> QED BY <1>2, <1>5, <1>9 DEF rank, n
=============================================================================
