----------------------------- MODULE SolvingProofs -----------------------------
(***************************************************************************)
(* Proofs about Solving, for all strings over any alphabet: the walk of    *)
(* sequence_enumeration_solver.cpp over any layout, the solutions that it  *)
(* and gurobi_graph_ilp.cpp hand on, and that a run which is said to be    *)
(* solved ends with a longest one.                                         *)
(*                                                                         *)
(* The walk has the shape of SolvingInv on any layout that only has the    *)
(* arcs of the graph.  That it finds a longest solution takes what the     *)
(* reduction leaves of one, and is SearchInv in the second half.           *)
(***************************************************************************)
EXTENDS Solving, MddSoundnessProofs

-----------------------------------------------------------------------------
(* The inductive invariant of the enumeration.                             *)

(* The flat nodes that can be on the stack.                                *)
FlatNodes == (2..Len(shared.flat)) \X Inner

TheRoot == <<1, Source(parent.side)>>

(* How many entered nodes of s are below index i.                          *)
EnteredBelow(s, E, i) == {j \in 1..(i - 1) : s[j] \in E}

(* The node at i was pushed by the last of the entered ones below it.      *)
PushedBy(s, E, i) ==
    \/ EnteredBelow(s, E, i) = {} /\ s[i] \in Targets(TheRoot)
    \/ \E j \in EnteredBelow(s, E, i) :
          (\A k \in EnteredBelow(s, E, i) : k <= j) /\ s[i] \in Targets(s[j])

(* All that lies on an entered node is behind it and of another character. *)
LiesOn(s, E) ==
    \A i, j \in 1..Len(s) : i < j /\ s[i] \in E =>
       NodeLetter(s[i]) # NodeLetter(s[j]) /\ Before(parent.side, s[i][2], s[j][2])

StackOK(s, E) ==
    /\ s \in Seq(FlatNodes)
    /\ \A i, j \in 1..Len(s) : s[i] = s[j] => i = j
    /\ E \subseteq {s[i] : i \in 1..Len(s)}
    /\ \A i \in 1..Len(s) : s[i][1] = Cardinality(EnteredBelow(s, E, i)) + 2
    /\ \A i \in 1..Len(s) : PushedBy(s, E, i)
    /\ LiesOn(s, E)

Enumerating ==
    /\ strings \in Inputs /\ lower \in 0..Sigma /\ upper \in 0..Sigma /\ lower < upper
    /\ parent.side \in Directions /\ IsFlat(shared.flat, parent.side)
    /\ StackOK(stack, entered)
    /\ used = {NodeLetter(n) : n \in entered}
    /\ Cardinality(entered) <= lower
    /\ solution = <<>> \/ (Oriented(solution) \in Solutions(strings) /\ Len(solution) = lower)

Reducing ==
    /\ MddInv
    /\ stack = <<>> /\ entered = {} /\ used = {} /\ solution = <<>>
    /\ step = "solver" => active \subseteq Inner

Concluded == strings \in Inputs /\ (parent.side = "forward" => SolutionIsOne)

SolvingInv ==
    /\ step = "enumerate" => Enumerating
    /\ step = "done" => Concluded
    /\ step \notin {"enumerate", "done"} => Reducing

-----------------------------------------------------------------------------
(* Sorting.                                                                *)

LEMMA SortedFacts ==
    ASSUME NEW S, IsFiniteSet(S), NEW R, IsStrictOrder(S, R)
    PROVE  /\ Sorted(S, R) \in Seq(S) /\ Len(Sorted(S, R)) = Cardinality(S) /\ Cardinality(S) \in Nat
           /\ \A i, j \in 1..Cardinality(S) : i < j => <<Sorted(S, R)[i], Sorted(S, R)[j]>> \in R
           /\ \A i, j \in 1..Cardinality(S) : Sorted(S, R)[i] = Sorted(S, R)[j] => i = j
<1> DEFINE n == Cardinality(S)
           Rank(x) == Cardinality(Below(S, R, x))
           q == Sorted(S, R)
<1>1. n \in Nat
  BY FS_CardinalityType
<1>2. /\ \A x, y \in S : <<x, y>> \in R <=> Rank(x) < Rank(y)
      /\ \A k \in 0..(n - 1) : \E x \in S : Rank(x) = k
  BY Ranks
<1>3. \A x : Rank(x) = Cardinality({y \in S : <<y, x>> \in R})
  BY DEF Below
<1>4. q = [k \in 1..n |-> CHOOSE x \in S : Rank(x) = k - 1]
  <2> HIDE DEF Rank
  <2> QED BY <1>3 DEF Sorted
<1> HIDE DEF n, Rank, q
<1>5. ASSUME NEW k \in 1..n PROVE q[k] \in S /\ Rank(q[k]) = k - 1
  <2>1. k - 1 \in 0..(n - 1)
    BY <1>1
  <2>2. q[k] = CHOOSE x \in S : Rank(x) = k - 1
    BY <1>4
  <2> QED BY <2>1, <2>2, <1>2
<1>6. q \in [1..n -> S]
  BY <1>4, <1>5
<1>7. q \in Seq(S) /\ Len(q) = n
  BY <1>1, <1>6
<1>8. \A i, j \in 1..n : i < j => <<q[i], q[j]>> \in R
  <2> SUFFICES ASSUME NEW i \in 1..n, NEW j \in 1..n, i < j PROVE <<q[i], q[j]>> \in R
    OBVIOUS
  <2>1. i - 1 < j - 1
    BY <1>1
  <2> QED BY <2>1, <1>2, <1>5
<1>9. \A i, j \in 1..n : q[i] = q[j] => i = j
  <2> SUFFICES ASSUME NEW i \in 1..n, NEW j \in 1..n, q[i] = q[j] PROVE i = j
    OBVIOUS
  <2>1. i - 1 = j - 1
    BY <1>5
  <2> QED BY <2>1
<1> QED BY <1>1, <1>7, <1>8, <1>9 DEF n, q

-----------------------------------------------------------------------------
(* The layout.                                                             *)

(* What the walk finds there and does not change.                          *)
Ready ==
    /\ strings \in Inputs /\ parent.side \in Directions
    /\ IsFlat(shared.flat, parent.side)

(* Of each character a match has one successor at most.                    *)
LEMMA OneSuccessor ==
    ASSUME strings \in Inputs, NEW d \in Directions, NEW m \in Nodes,
           NEW t \in SuccessorMatches(d, m), NEW u \in SuccessorMatches(d, m),
           CharacterOf(t) = CharacterOf(u)
    PROVE  t = u
<1>1. t \in Inner /\ u \in Inner /\ NotAfter(d, t, u) /\ NotAfter(d, u, t)
  BY SuccessorFacts
<1>2. /\ t = <<t[1], t[2]>> /\ t[1] \in Int /\ t[2] \in Int
      /\ u = <<u[1], u[2]>> /\ u[1] \in Int /\ u[2] \in Int
  BY <1>1, InnerFacts, InputFacts DEF Inner
<1>3. t[1] = u[1] /\ t[2] = u[2]
  BY <1>1, <1>2 DEF NotAfter, Ahead
<1> QED BY <1>2, <1>3

(* The targets of a node are behind it, on the level behind it.            *)
LEMMA TargetFacts ==
    ASSUME Ready, NEW n \in FlatNodes \cup {TheRoot}
    PROVE  /\ \A t \in Targets(n) : /\ t \in FlatNodes /\ t = <<n[1] + 1, t[2]>>
                                    /\ t[1] = n[1] + 1 /\ t[2] \in SuccessorMatches(parent.side, n[2])
                                    /\ t[2] \in Inner /\ Before(parent.side, n[2], t[2])
                                    /\ NodeLetter(t) \in Characters
                                    /\ n # TheRoot => NodeLetter(t) # NodeLetter(n)
           /\ \A t, u \in Targets(n) : NodeLetter(t) = NodeLetter(u) => t = u
           /\ IsFiniteSet(Targets(n))
<1> DEFINE d == parent.side
           flat == shared.flat
<1>1. strings \in Inputs /\ d \in Directions /\ IsFlat(flat, d)
  BY DEF Ready
<1>2. /\ n[1] \in 1..Len(flat) /\ n[2] \in Nodes /\ n[1] \in Nat
      /\ n # TheRoot => n[2] \in Inner
  <2>1. CASE n = TheRoot
    BY <2>1, <1>1, DirectionFacts DEF TheRoot, IsFlat
  <2>2. CASE n \in FlatNodes
    BY <2>2 DEF FlatNodes, Nodes
  <2> QED BY <2>1, <2>2
<1> HIDE DEF d, flat
<1>3. ASSUME NEW t \in Targets(n)
      PROVE  /\ t = <<n[1] + 1, t[2]>> /\ t[1] = n[1] + 1 /\ n[1] < Len(flat)
             /\ t[2] \in SuccessorMatches(d, n[2])
  <2>1. PICK a \in flat[n[1]].arcs : a[1] = n[2] /\ t = <<n[1] + 1, a[2]>>
    BY DEF Targets, flat
  <2>2. n[1] < Len(flat) /\ a[2] \in SuccessorMatches(d, a[1])
    BY <1>1, <1>2 DEF IsFlat
  <2> QED BY <2>1, <2>2
<1>4. ASSUME NEW t \in Targets(n)
      PROVE  /\ t[2] \in Inner /\ Before(d, n[2], t[2])
             /\ n[2] \in Inner => CharacterOf(t[2]) # CharacterOf(n[2])
  BY <1>1, <1>2, <1>3, SuccessorFacts
<1>5. ASSUME NEW t \in Targets(n) PROVE t \in FlatNodes
  <2>1. n[1] + 1 \in 2..Len(flat)
    BY <1>2, <1>3
  <2> QED BY <2>1, <1>3, <1>4 DEF FlatNodes, flat
<1>6. \A t, u \in Targets(n) : NodeLetter(t) = NodeLetter(u) => t = u
  <2> SUFFICES ASSUME NEW t \in Targets(n), NEW u \in Targets(n), CharacterOf(t[2]) = CharacterOf(u[2])
               PROVE  t = u
    BY DEF NodeLetter
  <2>1. t[2] = u[2]
    BY <1>1, <1>2, <1>3, OneSuccessor
  <2> QED BY <2>1, <1>3
<1>7. IsFiniteSet(Targets(n))
  <2> DEFINE S == Targets(n)
             f == [t \in S |-> t[2]]
  <2>1. f \in Injection(S, Nodes)
    <3>1. \A t \in S : t[2] \in Nodes
      BY <1>4 DEF Nodes
    <3>2. \A t, u \in S : f[t] = f[u] => t = u
      BY <1>3
    <3> QED BY <3>1, <3>2 DEF Injection, IsInjective
  <2>2. IsFiniteSet(Nodes)
    BY <1>1, NodesFinite
  <2> QED BY <2>1, <2>2, FS_Injection
<1>8. \A t \in Targets(n) : NodeLetter(t) \in Characters
  BY <1>1, <1>4, InnerFacts DEF NodeLetter
<1>9. \A t \in Targets(n) : n # TheRoot => NodeLetter(t) # NodeLetter(n)
  BY <1>2, <1>4 DEF NodeLetter
<1> QED BY <1>3, <1>4, <1>5, <1>6, <1>7, <1>8, <1>9 DEF d

(* By their positions the targets of a node are in order.                  *)
LEMMA ByPositionFacts ==
    ASSUME Ready, NEW n \in FlatNodes \cup {TheRoot}, NEW S, S \subseteq Targets(n)
    PROVE  IsFiniteSet(S) /\ IsStrictOrder(S, ByPosition(S))
<1> DEFINE P(t, i) == NodePosition(t, i)
<1>1. IsFiniteSet(S)
  BY TargetFacts, FS_Subset
<1>2. ASSUME NEW t \in S
      PROVE  P(t, 1) \in Int /\ P(t, 2) \in Int
  <2>1. t[2] \in Inner
    BY TargetFacts
  <2>2. t[2][1] \in Int /\ t[2][2] \in Int /\ Leaf[1] \in Int /\ Leaf[2] \in Int
    BY <2>1, InnerFacts, InputFacts DEF Ready, Leaf, Size1, Size2
  <2> QED BY <2>2 DEF NodePosition, Position
<1>3. ASSUME NEW t \in S, NEW u \in S, P(t, 1) = P(u, 1), P(t, 2) = P(u, 2)
      PROVE  t = u
  <2>1. /\ t[2] \in Inner /\ u[2] \in Inner
        /\ t = <<n[1] + 1, t[2]>> /\ u = <<n[1] + 1, u[2]>>
    BY TargetFacts
  <2>2. /\ t[2] = <<t[2][1], t[2][2]>> /\ t[2][1] \in Int /\ t[2][2] \in Int
        /\ u[2] = <<u[2][1], u[2][2]>> /\ u[2][1] \in Int /\ u[2][2] \in Int
        /\ Leaf[1] \in Int /\ Leaf[2] \in Int
    BY <2>1, InnerFacts, InputFacts DEF Ready, Inner, Leaf, Size1, Size2
  <2>3. t[2][1] = u[2][1] /\ t[2][2] = u[2][2]
    BY <2>2, <1>3 DEF NodePosition, Position
  <2> QED BY <2>1, <2>2, <2>3
<1>4. \A t, u \in S : <<t, u>> \in ByPosition(S) <=>
         P(t, 1) < P(u, 1) \/ (P(t, 1) = P(u, 1) /\ P(t, 2) < P(u, 2))
  BY DEF ByPosition, Precedes
<1> HIDE DEF P
<1>5. IsStrictOrder(S, ByPosition(S))
  BY <1>2, <1>3, <1>4 DEF IsStrictOrder
<1> QED BY <1>1, <1>5
-----------------------------------------------------------------------------
(* The stack.                                                              *)

LEMMA StackUnchanged ==
    ASSUME UNCHANGED <<strings, parent, shared>>
    PROVE  \A s, E : StackOK(s, E)' <=> StackOK(s, E)
<1>1. Inner' = Inner
  BY StringsUnchanged
<1>2. FlatNodes' = FlatNodes /\ TheRoot' = TheRoot
  BY <1>1 DEF FlatNodes, TheRoot, Source, Root, Leaf
<1>3. \A n : Targets(n)' = Targets(n) /\ NodeLetter(n)' = NodeLetter(n)
  BY DEF Targets, NodeLetter, CharacterOf
<1>4. \A s, E : LiesOn(s, E)' <=> LiesOn(s, E)
  BY <1>3 DEF LiesOn
<1>5. \A s, E, i : PushedBy(s, E, i)' <=> PushedBy(s, E, i)
  BY <1>2, <1>3 DEF PushedBy, EnteredBelow
<1> QED BY <1>2, <1>4, <1>5 DEF StackOK, EnteredBelow

(* What is entered below i is entered below all that is above i.           *)
LEMMA BelowFacts ==
    ASSUME NEW s, NEW E, NEW i \in Nat, NEW j \in Nat, i <= j
    PROVE  /\ EnteredBelow(s, E, i) \subseteq EnteredBelow(s, E, j)
           /\ IsFiniteSet(EnteredBelow(s, E, i)) /\ IsFiniteSet(EnteredBelow(s, E, j))
           /\ Cardinality(EnteredBelow(s, E, i)) \in Nat /\ Cardinality(EnteredBelow(s, E, j)) \in Nat
           /\ Cardinality(EnteredBelow(s, E, i)) <= Cardinality(EnteredBelow(s, E, j))
           /\ Cardinality(EnteredBelow(s, E, i)) = Cardinality(EnteredBelow(s, E, j))
                 => EnteredBelow(s, E, i) = EnteredBelow(s, E, j)
           /\ i \notin EnteredBelow(s, E, i)
<1>1. EnteredBelow(s, E, i) \subseteq EnteredBelow(s, E, j) /\ i \notin EnteredBelow(s, E, i)
  BY DEF EnteredBelow
<1>2. IsFiniteSet(1..(j - 1)) /\ EnteredBelow(s, E, j) \subseteq 1..(j - 1)
  BY FS_Interval DEF EnteredBelow
<1>3. IsFiniteSet(EnteredBelow(s, E, j))
  BY <1>2, FS_Subset
<1> QED BY <1>1, <1>3, FS_Subset, FS_CardinalityType

(* The node on top is entered, and nodes behind it are pushed whose        *)
(* characters are not those of entered ones.                               *)
LEMMA EnterKeeps ==
    ASSUME Ready, NEW s, NEW E, StackOK(s, E), Len(s) > 0, s[Len(s)] \notin E,
           NEW T, T \subseteq Targets(s[Len(s)]),
           \A t \in T, x \in E \cup {s[Len(s)]} : NodeLetter(t) # NodeLetter(x),
           NEW q \in Seq(T), \A i, j \in 1..Len(q) : q[i] = q[j] => i = j
    PROVE  StackOK(s \o q, E \cup {s[Len(s)]})
<1> DEFINE n == Len(s)
           m == Len(q)
           r == s \o q
           F == E \cup {s[n]}
<1>1. /\ s \in Seq(FlatNodes) /\ n \in Nat \ {0} /\ m \in Nat
      /\ \A i, j \in 1..n : s[i] = s[j] => i = j
      /\ E \subseteq {s[i] : i \in 1..n}
      /\ \A i \in 1..n : s[i][1] = Cardinality(EnteredBelow(s, E, i)) + 2
      /\ \A i \in 1..n : PushedBy(s, E, i)
      /\ LiesOn(s, E)
  BY DEF StackOK
<1>2. n \in 1..n /\ s[n] \in FlatNodes
  BY <1>1
<1>3. ASSUME NEW t \in T
      PROVE  /\ t \in FlatNodes /\ t[1] = s[n][1] + 1 /\ t \notin F
             /\ Before(parent.side, s[n][2], t[2])
  BY <1>2, TargetFacts
<1>4. r \in Seq(FlatNodes) /\ Len(r) = n + m
  <2>1. q \in Seq(FlatNodes)
    <3>1. \A i \in 1..m : q[i] \in T
      OBVIOUS
    <3> QED BY <3>1, <1>3
  <2> QED BY <2>1, <1>1
<1>5. /\ \A i \in 1..n : r[i] = s[i]
      /\ \A i \in (n + 1)..(n + m) : i - n \in 1..m /\ r[i] = q[i - n] /\ r[i] \in T
  BY <1>1
<1>6. \A i \in 1..(n + m) : i \in 1..n \/ i \in (n + 1)..(n + m)
  BY <1>1
<1>7. \A j \in 1..(n - 1) : j \in 1..n /\ r[j] = s[j] /\ (s[j] \in F <=> s[j] \in E)
  <2>1. \A j \in 1..(n - 1) : j \in 1..n /\ j # n
    BY <1>1
  <2> QED BY <2>1, <1>1, <1>2, <1>5
<1> HIDE DEF n, m, r, F
<1>8. \A i \in 1..n : EnteredBelow(r, F, i) = EnteredBelow(s, E, i)
  <2> SUFFICES ASSUME NEW i \in 1..n PROVE EnteredBelow(r, F, i) = EnteredBelow(s, E, i)
    OBVIOUS
  <2>1. \A j \in 1..(i - 1) : j \in 1..(n - 1)
    BY <1>1
  <2> QED BY <2>1, <1>7 DEF EnteredBelow
<1>9. \A i \in (n + 1)..(n + m) : EnteredBelow(r, F, i) = EnteredBelow(s, E, n) \cup {n}
  <2> SUFFICES ASSUME NEW i \in (n + 1)..(n + m)
               PROVE  EnteredBelow(r, F, i) = EnteredBelow(s, E, n) \cup {n}
    OBVIOUS
  <2>1. \A j \in 1..(i - 1) : j \in 1..(n - 1) \/ j = n \/ j \in (n + 1)..(n + m)
    BY <1>1
  <2>2. \A j \in (n + 1)..(n + m) : r[j] \notin F
    BY <1>3, <1>5
  <2>3. n \in 1..(i - 1) /\ r[n] \in F /\ \A j \in 1..(n - 1) : j \in 1..(i - 1)
    <3>1. s[n] \in F /\ r[n] = s[n]
      BY <1>2, <1>5 DEF F
    <3>2. n \in Int /\ m \in Int /\ n >= 1
      BY <1>1
    <3> QED BY <3>1, <3>2
  <2> DEFINE L == 1..(i - 1)
             K == 1..(n - 1)
  <2>4. /\ \A j \in L : j \in K \/ j = n \/ r[j] \notin F
        /\ n \in L /\ r[n] \in F /\ \A j \in K : j \in L /\ j # n /\ (r[j] \in F <=> s[j] \in E)
    BY <2>1, <2>2, <2>3, <1>1, <1>7
  <2>5. /\ EnteredBelow(r, F, i) = {j \in L : r[j] \in F}
        /\ EnteredBelow(s, E, n) = {j \in K : s[j] \in E}
    BY DEF EnteredBelow
  <2> HIDE DEF L, K
  <2> QED BY <2>4, <2>5
<1>10. /\ IsFiniteSet(EnteredBelow(s, E, n)) /\ Cardinality(EnteredBelow(s, E, n)) \in Nat
       /\ Cardinality(EnteredBelow(s, E, n) \cup {n}) = Cardinality(EnteredBelow(s, E, n)) + 1
  <2>1. n \notin EnteredBelow(s, E, n) /\ IsFiniteSet(EnteredBelow(s, E, n))
    BY <1>1, BelowFacts
  <2> QED BY <2>1, FS_AddElement, FS_CardinalityType
<1>11. \A i \in 1..n : s[i][1] \in Int /\ s[i][1] <= s[n][1]
  <2> SUFFICES ASSUME NEW i \in 1..n PROVE s[i][1] \in Int /\ s[i][1] <= s[n][1]
    OBVIOUS
  <2>1. i \in Nat /\ n \in Nat /\ i <= n
    BY <1>1
  <2>2. /\ Cardinality(EnteredBelow(s, E, i)) \in Nat /\ Cardinality(EnteredBelow(s, E, n)) \in Nat
        /\ Cardinality(EnteredBelow(s, E, i)) <= Cardinality(EnteredBelow(s, E, n))
    BY <2>1, BelowFacts
  <2> QED BY <2>2, <1>1, <1>2
<1>12. \A i \in 1..(n + m) : r[i][1] = Cardinality(EnteredBelow(r, F, i)) + 2
  <2>1. \A i \in 1..n : r[i][1] = Cardinality(EnteredBelow(r, F, i)) + 2
    BY <1>1, <1>5, <1>8
  <2>2. \A i \in (n + 1)..(n + m) : r[i][1] = Cardinality(EnteredBelow(r, F, i)) + 2
    <3> SUFFICES ASSUME NEW i \in (n + 1)..(n + m)
                 PROVE  r[i][1] = Cardinality(EnteredBelow(r, F, i)) + 2
      OBVIOUS
    <3> DEFINE c == Cardinality(EnteredBelow(s, E, n))
    <3>1. s[n][1] = c + 2 /\ r[i][1] = s[n][1] + 1 /\ c \in Nat
      BY <1>1, <1>2, <1>3, <1>5, <1>10
    <3>2. Cardinality(EnteredBelow(r, F, i)) = c + 1
      BY <1>9, <1>10
    <3> HIDE DEF c
    <3> QED BY <3>1, <3>2
  <2> QED BY <2>1, <2>2, <1>6
<1>13. \A i, j \in 1..(n + m) : r[i] = r[j] => i = j
  <2>1. ASSUME NEW i \in 1..n, NEW j \in (n + 1)..(n + m) PROVE r[i] # r[j]
    <3>1. r[i][1] <= s[n][1] /\ r[j][1] = s[n][1] + 1 /\ s[n][1] \in Int /\ r[i][1] \in Int
      BY <1>2, <1>3, <1>5, <1>11
    <3> QED BY <3>1
  <2>2. ASSUME NEW i \in (n + 1)..(n + m), NEW j \in (n + 1)..(n + m), r[i] = r[j] PROVE i = j
    <3>1. i - n = j - n
      BY <2>2, <1>5 DEF m
    <3> QED BY <3>1, <1>1
  <2>3. \A i, j \in 1..n : r[i] = r[j] => i = j
    BY <1>1, <1>5
  <2> QED BY <2>1, <2>2, <2>3, <1>6
<1>14. F \subseteq {r[i] : i \in 1..(n + m)}
  <2>1. \A i \in 1..n : i \in 1..(n + m) /\ s[i] = r[i]
    BY <1>1, <1>5
  <2> SUFFICES ASSUME NEW x \in F PROVE \E i \in 1..(n + m) : x = r[i]
    OBVIOUS
  <2>2. PICK i \in 1..n : x = s[i]
    BY <1>1, <1>2 DEF F
  <2> QED BY <2>1, <2>2
<1>15. \A i \in 1..(n + m) : PushedBy(r, F, i)
  <2>1. ASSUME NEW i \in 1..n PROVE PushedBy(r, F, i)
    <3>1. EnteredBelow(r, F, i) = EnteredBelow(s, E, i) /\ r[i] = s[i] /\ PushedBy(s, E, i)
      BY <1>1, <1>5, <1>8
    <3>2. \A j \in EnteredBelow(s, E, i) : r[j] = s[j]
      <4>1. \A j \in 1..(i - 1) : j \in 1..n
        BY <1>1
      <4> QED BY <4>1, <1>5 DEF EnteredBelow
    <3> QED BY <3>1, <3>2 DEF PushedBy
  <2>2. ASSUME NEW i \in (n + 1)..(n + m) PROVE PushedBy(r, F, i)
    <3>1. n \in EnteredBelow(r, F, i) /\ \A k \in EnteredBelow(r, F, i) : k <= n
      <4>1. \A k \in EnteredBelow(s, E, n) : k <= n
        BY <1>1 DEF EnteredBelow
      <4> QED BY <4>1, <1>1, <1>9
    <3>2. r[i] \in Targets(r[n])
      BY <1>2, <1>5 DEF n
    <3> QED BY <3>1, <3>2 DEF PushedBy
  <2> QED BY <2>1, <2>2, <1>6
<1>16. LiesOn(r, F)
  <2> SUFFICES ASSUME NEW i \in 1..(n + m), NEW j \in 1..(n + m), i < j, r[i] \in F
               PROVE  NodeLetter(r[i]) # NodeLetter(r[j]) /\ Before(parent.side, r[i][2], r[j][2])
    BY <1>4 DEF LiesOn
  <2>1. i \in 1..n
    BY <1>3, <1>5, <1>6
  <2>2. CASE j \in 1..n
    <3>1. i \in 1..(n - 1)
      BY <2>1, <2>2, <1>1
    <3>2. s[i] \in E /\ r[i] = s[i] /\ r[j] = s[j]
      BY <3>1, <2>1, <2>2, <1>5, <1>7
    <3> QED BY <3>2, <2>1, <2>2, <1>1 DEF LiesOn, n
  <2>3. CASE j \in (n + 1)..(n + m)
    <3>1. r[j] \in T /\ r[i] = s[i]
      BY <2>1, <2>3, <1>5
    <3>2. NodeLetter(r[i]) # NodeLetter(r[j])
      BY <3>1 DEF F, n
    <3>3. Before(parent.side, s[n][2], r[j][2]) /\ r[j][2] \in Inner
      BY <3>1, <1>3 DEF FlatNodes
    <3>4. CASE i = n
      BY <3>1, <3>2, <3>3, <3>4
    <3>5. CASE i # n
      <4>1. i \in 1..(n - 1) /\ i < n
        BY <2>1, <3>5, <1>1
      <4>2. s[i] \in E
        BY <4>1, <3>1, <1>7
      <4>3. Before(parent.side, s[i][2], s[n][2])
        BY <4>1, <4>2, <2>1, <1>1, <1>2 DEF LiesOn, n
      <4>4. s[i][2] \in Nodes /\ s[n][2] \in Nodes /\ r[j][2] \in Nodes
        <5>1. s[i] \in FlatNodes
          BY <2>1, <1>1 DEF n
        <5> QED BY <5>1, <3>3, <1>2 DEF FlatNodes, Nodes
      <4>5. Before(parent.side, s[i][2], r[j][2])
        BY <4>3, <4>4, <3>3, BeforeTransitive DEF Ready
      <4> QED BY <4>5, <3>1, <3>2
    <3> QED BY <3>4, <3>5
  <2> QED BY <2>2, <2>3, <1>6
<1> QED BY <1>4, <1>12, <1>13, <1>14, <1>15, <1>16 DEF StackOK, F, r, n

(* The node on top, which is entered, is left and popped.                  *)
LEMMA LeaveKeeps ==
    ASSUME Ready, NEW s, NEW E, StackOK(s, E), Len(s) > 0, s[Len(s)] \in E
    PROVE  StackOK(Front(s), E \ {s[Len(s)]})
<1> DEFINE n == Len(s)
           r == Front(s)
           F == E \ {s[n]}
<1>1. /\ s \in Seq(FlatNodes) /\ n \in Nat \ {0}
      /\ \A i, j \in 1..n : s[i] = s[j] => i = j
      /\ E \subseteq {s[i] : i \in 1..n}
      /\ \A i \in 1..n : s[i][1] = Cardinality(EnteredBelow(s, E, i)) + 2
      /\ \A i \in 1..n : PushedBy(s, E, i)
      /\ LiesOn(s, E)
  BY DEF StackOK
<1>2. n \in 1..n /\ \A i \in 1..(n - 1) : i \in 1..n /\ i # n
  BY <1>1
<1>3. r \in Seq(FlatNodes) /\ Len(r) = n - 1 /\ \A i \in 1..(n - 1) : r[i] = s[i]
  <2>1. r = SubSeq(s, 1, n - 1)
    BY DEF Front
  <2>2. \A i \in 1..(n - 1) : s[i] \in FlatNodes
    BY <1>1
  <2> DEFINE f == [i \in 1..(n - 1) |-> s[i]]
             l == n - 1
  <2>3. l \in Nat /\ f \in [1..l -> FlatNodes] /\ \A i \in 1..l : f[i] = s[i]
    BY <2>2, <1>1
  <2>4. r = f
    BY <2>1, <1>1
  <2> HIDE DEF r, f, l
  <2>5. f \in Seq(FlatNodes) /\ Len(f) = l
    BY <2>3
  <2> QED BY <2>3, <2>4, <2>5 DEF l
<1>4. \A i \in 1..(n - 1) : s[i] \in F <=> s[i] \in E
  BY <1>1, <1>2
<1> HIDE DEF n, r
<1>5. ASSUME NEW i \in 1..(n - 1)
      PROVE  EnteredBelow(r, F, i) = EnteredBelow(s, E, i)
  <2>1. \A j \in 1..(i - 1) : j \in 1..(n - 1)
    BY <1>1
  <2> QED BY <2>1, <1>3, <1>4 DEF EnteredBelow
<1>6. F \subseteq {r[i] : i \in 1..(n - 1)}
  <2>1. \A i \in 1..n : i \in 1..(n - 1) \/ i = n
    BY <1>1
  <2> QED BY <2>1, <1>1, <1>3
<1> HIDE DEF F
<1>7. \A i \in 1..(n - 1) : r[i][1] = Cardinality(EnteredBelow(r, F, i)) + 2
  BY <1>1, <1>2, <1>3, <1>5
<1>8. ASSUME NEW i \in 1..(n - 1) PROVE PushedBy(r, F, i)
  <2>1. EnteredBelow(r, F, i) = EnteredBelow(s, E, i) /\ r[i] = s[i] /\ PushedBy(s, E, i)
    BY <1>1, <1>2, <1>3, <1>5
  <2>2. \A j \in EnteredBelow(s, E, i) : r[j] = s[j]
    <3>1. \A j \in 1..(i - 1) : j \in 1..(n - 1)
      BY <1>1
    <3> QED BY <3>1, <1>3 DEF EnteredBelow
  <2> QED BY <2>1, <2>2 DEF PushedBy
<1>9. LiesOn(r, F)
  BY <1>1, <1>2, <1>3, <1>4 DEF LiesOn, n
<1>10. \A i, j \in 1..(n - 1) : r[i] = r[j] => i = j
  BY <1>1, <1>2, <1>3
<1> QED BY <1>3, <1>6, <1>7, <1>8, <1>9, <1>10 DEF StackOK, F, r, n
-----------------------------------------------------------------------------
(* The path of the entered nodes.                                          *)

(* Where the entered nodes are, and the path they make.                    *)
PlacesOf(s, E) == {i \in DOMAIN s : s[i] \in E}
PathOf(s, E) == Picked(s, PlacesOf(s, E))

LEMMA EnteredPath ==
    ASSUME Ready, NEW s, NEW E, StackOK(s, E)
    PROVE  /\ IsFiniteSet(E) /\ Cardinality(E) \in Nat
           /\ PathOf(s, E) \in Seq(FlatNodes) /\ Len(PathOf(s, E)) = Cardinality(E)
           /\ \A k \in 1..Cardinality(E) : PathOf(s, E)[k] \in E
           /\ \A x \in E : \E k \in 1..Cardinality(E) : PathOf(s, E)[k] = x
           /\ \A k \in 1..Cardinality(E) :
                 PathOf(s, E)[k] \in Targets(IF k = 1 THEN TheRoot ELSE PathOf(s, E)[k - 1])
           /\ \A k, l \in 1..Cardinality(E) : k < l =>
                 /\ NodeLetter(PathOf(s, E)[k]) # NodeLetter(PathOf(s, E)[l])
                 /\ Before(parent.side, PathOf(s, E)[k][2], PathOf(s, E)[l][2])
<1> DEFINE kept == PlacesOf(s, E)
           n == Cardinality(kept)
           path == PathOf(s, E)
           spot(k) == Nth(kept, k)
<1>1. /\ s \in Seq(FlatNodes) /\ Len(s) \in Nat /\ DOMAIN s = 1..Len(s)
      /\ \A i, j \in 1..Len(s) : s[i] = s[j] => i = j
      /\ E \subseteq {s[i] : i \in 1..Len(s)}
      /\ \A i \in 1..Len(s) : PushedBy(s, E, i)
      /\ LiesOn(s, E)
  BY DEF StackOK
<1>2. kept \in SUBSET Int /\ kept \subseteq 1..Len(s) /\ \A i \in 1..Len(s) : i \in kept <=> s[i] \in E
  BY <1>1 DEF PlacesOf
<1>3. IsFiniteSet(kept)
  <2>1. IsFiniteSet(1..Len(s))
    BY <1>1, FS_Interval
  <2> QED BY <2>1, <1>2, FS_Subset
<1>4. path = [k \in 1..n |-> s[spot(k)]]
  BY DEF PathOf, Picked
<1> HIDE DEF kept, path
<1>5. /\ n \in Nat
      /\ \A k \in 1..n : spot(k) \in kept
      /\ \A k, l \in 1..n : k < l => spot(k) < spot(l)
      /\ \A i \in kept : \E k \in 1..n : spot(k) = i
  BY <1>2, <1>3, NthFacts
<1> HIDE DEF spot
<1>6. IsFiniteSet(E) /\ Cardinality(E) = n
  <2> DEFINE f == [i \in kept |-> s[i]]
  <2>1. f \in [kept -> E]
    BY <1>2
  <2>2. \A i, j \in kept : f[i] = f[j] => i = j
    BY <1>1, <1>2
  <2>3. \A x \in E : \E i \in kept : f[i] = x
    BY <1>1, <1>2
  <2> HIDE DEF f
  <2>4. f \in Injection(kept, E) /\ f \in Surjection(kept, E)
    BY <2>1, <2>2, <2>3 DEF Injection, IsInjective, Surjection
  <2>5. IsFiniteSet(E) /\ Cardinality(E) <= Cardinality(kept)
    BY <2>4, <1>3, FS_Surjection
  <2>6. Cardinality(kept) <= Cardinality(E)
    BY <2>4, <2>5, FS_Injection
  <2>7. Cardinality(E) \in Nat
    BY <2>5, FS_CardinalityType
  <2> QED BY <2>5, <2>6, <2>7, <1>5
<1> HIDE DEF n
<1>7. \A k \in 1..n : path[k] = s[spot(k)] /\ spot(k) \in 1..Len(s) /\ s[spot(k)] \in E
  BY <1>2, <1>4, <1>5
<1>8. path \in Seq(FlatNodes) /\ Len(path) = n
  <2>1. path \in [1..n -> FlatNodes]
    BY <1>1, <1>4, <1>7
  <2> QED BY <2>1, <1>4, <1>5
<1>9. \A x \in E : \E k \in 1..n : path[k] = x
  <2> SUFFICES ASSUME NEW x \in E PROVE \E k \in 1..n : path[k] = x
    OBVIOUS
  <2>1. PICK i \in 1..Len(s) : s[i] = x
    BY <1>1
  <2>2. PICK k \in 1..n : spot(k) = i
    BY <2>1, <1>2, <1>5
  <2> QED BY <2>1, <2>2, <1>7
<1>10. ASSUME NEW k \in 1..n, NEW l \in 1..n, k < l
       PROVE  /\ NodeLetter(path[k]) # NodeLetter(path[l])
              /\ Before(parent.side, path[k][2], path[l][2])
  <2>1. spot(k) < spot(l)
    BY <1>5, <1>10
  <2> QED BY <2>1, <1>1, <1>7 DEF LiesOn
<1>11. ASSUME NEW k \in 1..n
       PROVE  path[k] \in Targets(IF k = 1 THEN TheRoot ELSE path[k - 1])
  <2> DEFINE B == EnteredBelow(s, E, spot(k))
  <2>1. PushedBy(s, E, spot(k)) /\ spot(k) \in Int
    BY <1>1, <1>7
  <2>2. \A j \in B : j \in kept /\ j < spot(k) /\ j \in Int
    BY <1>2, <1>7 DEF EnteredBelow
  <2>3. \A j \in kept : j < spot(k) => j \in B
    <3> SUFFICES ASSUME NEW j \in kept, j < spot(k) PROVE j \in B
      OBVIOUS
    <3>1. j \in 1..Len(s) /\ s[j] \in E /\ spot(k) \in Int
      BY <1>2, <1>7
    <3>2. j \in 1..(spot(k) - 1)
      BY <3>1
    <3> QED BY <3>1, <3>2 DEF EnteredBelow
  <2> HIDE DEF B
  <2>4. ASSUME NEW j \in B PROVE \E l \in 1..(k - 1) : l \in 1..n /\ spot(l) = j
    <3>1. PICK l \in 1..n : spot(l) = j
      BY <2>2, <1>5
    <3>2. ~(k <= l)
      BY <2>2, <3>1, <1>5, <2>1
    <3> QED BY <3>1, <3>2, <1>5
  <2>5. CASE k = 1
    <3>1. B = {}
      BY <2>4, <2>5
    <3>2. s[spot(k)] \in Targets(TheRoot)
      BY <2>1, <3>1 DEF PushedBy, B
    <3> QED BY <2>5, <3>2, <1>7
  <2>6. CASE k # 1
    <3>1. k - 1 \in 1..n /\ k - 1 < k
      BY <2>6, <1>5
    <3>2. spot(k - 1) \in B
      BY <3>1, <2>3, <1>5
    <3>3. PICK j \in B : (\A i \in B : i <= j) /\ s[spot(k)] \in Targets(s[j])
      BY <2>1, <3>2 DEF PushedBy, B
    <3>4. PICK l \in 1..(k - 1) : l \in 1..n /\ spot(l) = j
      BY <2>4
    <3>5. ~(l < k - 1)
      <4>1. spot(k - 1) <= spot(l) /\ spot(l) \in Int /\ spot(k - 1) \in Int
        BY <3>1, <3>2, <3>3, <3>4, <1>7
      <4> QED BY <4>1, <3>1, <3>4, <1>5
    <3>6. l = k - 1
      BY <3>4, <3>5, <1>5
    <3> QED BY <2>6, <3>1, <3>3, <3>4, <3>6, <1>7
  <2> QED BY <2>5, <2>6
<1> QED BY <1>5, <1>6, <1>7, <1>8, <1>9, <1>10, <1>11 DEF path

(* The characters of a path are as many as its nodes.                      *)
LEMMA PathLetters ==
    ASSUME Ready, NEW s, NEW E, StackOK(s, E)
    PROVE  Cardinality({NodeLetter(x) : x \in E}) = Cardinality(E)
<1> DEFINE n == Cardinality(E)
           path == PathOf(s, E)
           U == {NodeLetter(x) : x \in E}
           f == [x \in E |-> NodeLetter(x)]
<1>1. /\ IsFiniteSet(E) /\ n \in Nat
      /\ \A x \in E : \E k \in 1..n : path[k] = x
      /\ \A k, l \in 1..n : k < l => NodeLetter(path[k]) # NodeLetter(path[l])
  BY EnteredPath
<1> HIDE DEF n, path
<1>2. ASSUME NEW x \in E, NEW y \in E, NodeLetter(x) = NodeLetter(y) PROVE x = y
  <2>1. PICK k \in 1..n : path[k] = x
    BY <1>1
  <2>2. PICK l \in 1..n : path[l] = y
    BY <1>1
  <2>3. ~(k < l) /\ ~(l < k)
    BY <1>1, <1>2, <2>1, <2>2
  <2> QED BY <2>1, <2>2, <2>3, <1>1
<1>3. f \in Bijection(E, U)
  <2>1. f \in [E -> U] /\ \A x, y \in E : f[x] = f[y] => x = y
    BY <1>2
  <2>2. \A u \in U : \E x \in E : f[x] = u
    OBVIOUS
  <2> HIDE DEF f, U
  <2> QED BY <2>1, <2>2 DEF Bijection, Injection, IsInjective, Surjection
<1> HIDE DEF f, U
<1>4. f \in Injection(E, U) /\ f \in Surjection(E, U)
  BY <1>3 DEF Bijection
<1>5. IsFiniteSet(U) /\ Cardinality(U) <= Cardinality(E)
  BY <1>1, <1>4, FS_Surjection
<1>6. Cardinality(E) <= Cardinality(U)
  BY <1>4, <1>5, FS_Injection
<1>7. Cardinality(U) \in Nat /\ Cardinality(E) \in Nat
  BY <1>1, <1>5, FS_CardinalityType
<1>8. Cardinality(U) = Cardinality(E)
  BY <1>5, <1>6, <1>7
<1> QED BY <1>8 DEF U

(* There is room for a node of each character on each level.               *)
LEMMA StackRoom ==
    ASSUME Ready, NEW s, NEW E, StackOK(s, E), NEW u \in Nat, Cardinality(E) < u
    PROVE  Len(s) <= Sigma * u
<1> DEFINE levels == 2..(u + 1)
           f == [i \in 1..Len(s) |-> <<NodeLetter(s[i]), s[i][1]>>]
           B(i) == EnteredBelow(s, E, i)
<1>1. /\ s \in Seq(FlatNodes) /\ Len(s) \in Nat
      /\ \A i, j \in 1..Len(s) : s[i] = s[j] => i = j
      /\ \A i \in 1..Len(s) : s[i][1] = Cardinality(B(i)) + 2
      /\ \A i \in 1..Len(s) : PushedBy(s, E, i)
  BY DEF StackOK
<1>2. IsFiniteSet(E) /\ Cardinality(E) \in Nat
  BY EnteredPath
<1>3. ASSUME NEW i \in 1..Len(s) PROVE Cardinality(B(i)) \in Nat /\ Cardinality(B(i)) <= Cardinality(E)
  <2> DEFINE g == [j \in B(i) |-> s[j]]
  <2>1. \A j \in B(i) : s[j] \in E /\ j \in 1..Len(s)
    BY <1>1 DEF EnteredBelow
  <2>2. g \in Injection(B(i), E)
    <3>1. g \in [B(i) -> E]
      BY <2>1
    <3>2. \A j, k \in B(i) : g[j] = g[k] => j = k
      BY <2>1, <1>1
    <3> QED BY <3>1, <3>2 DEF Injection, IsInjective
  <2> HIDE DEF g
  <2>3. IsFiniteSet(B(i)) /\ Cardinality(B(i)) <= Cardinality(E)
    BY <2>2, <1>2, FS_Injection
  <2> QED BY <2>3, FS_CardinalityType
<1>4. ASSUME NEW i \in 1..Len(s) PROVE s[i][1] \in levels /\ NodeLetter(s[i]) \in Characters
  <2>1. s[i][1] \in levels
    <3> DEFINE c == Cardinality(B(i))
               e == Cardinality(E)
    <3>1. c \in Nat /\ e \in Nat /\ c <= e /\ e < u /\ s[i][1] = c + 2
      BY <1>1, <1>2, <1>3
    <3> HIDE DEF c, e
    <3> QED BY <3>1
  <2>2. s[i][2] \in Inner
    BY <1>1 DEF FlatNodes
  <2> QED BY <2>1, <2>2, InnerFacts DEF NodeLetter, Ready
<1>5. ASSUME NEW i \in 1..Len(s), NEW j \in 1..Len(s), i <= j,
             NodeLetter(s[i]) = NodeLetter(s[j]), s[i][1] = s[j][1]
      PROVE  i = j
  <2>1. B(i) = B(j)
    <3>1. Cardinality(B(i)) = Cardinality(B(j))
      BY <1>1, <1>3, <1>5
    <3>2. i \in Nat /\ j \in Nat
      OBVIOUS
    <3> QED BY <3>1, <3>2, <1>5, BelowFacts
  <2> HIDE DEF B
  <2>2. PushedBy(s, E, i) /\ PushedBy(s, E, j)
    BY <1>1
  <2>3. CASE B(i) = {}
    <3>1. s[i] \in Targets(TheRoot) /\ s[j] \in Targets(TheRoot)
      BY <2>1, <2>2, <2>3 DEF PushedBy, B
    <3>2. TheRoot \in FlatNodes \cup {TheRoot}
      OBVIOUS
    <3>3. s[i] = s[j]
      BY <3>1, <3>2, <1>5, TargetFacts
    <3> QED BY <3>3, <1>1
  <2>4. CASE B(i) # {}
    <3>1. PICK k \in B(i) : (\A l \in B(i) : l <= k) /\ s[i] \in Targets(s[k])
      BY <2>2, <2>4 DEF PushedBy, B
    <3>2. PICK m \in B(j) : (\A l \in B(j) : l <= m) /\ s[j] \in Targets(s[m])
      BY <2>1, <2>2, <2>4 DEF PushedBy, B
    <3>3. k \in 1..Len(s) /\ m \in Int
      BY <1>1 DEF B, EnteredBelow
    <3>4. k = m
      BY <3>1, <3>2, <3>3, <2>1
    <3>5. s[k] \in FlatNodes \cup {TheRoot}
      BY <3>3, <1>1
    <3>6. s[i] = s[j]
      BY <3>1, <3>2, <3>4, <3>5, <1>5, TargetFacts
    <3> QED BY <3>6, <1>1
  <2> QED BY <2>3, <2>4
<1>6. f \in Injection(1..Len(s), Characters \X levels)
  <2> HIDE DEF levels, B
  <2>1. f \in [1..Len(s) -> Characters \X levels]
    BY <1>4
  <2>2. \A i, j \in 1..Len(s) : f[i] = f[j] => i = j
    <3> SUFFICES ASSUME NEW i \in 1..Len(s), NEW j \in 1..Len(s), f[i] = f[j] PROVE i = j
      OBVIOUS
    <3>1. NodeLetter(s[i]) = NodeLetter(s[j]) /\ s[i][1] = s[j][1]
      OBVIOUS
    <3>2. i <= j \/ j <= i
      BY <1>1
    <3> QED BY <3>1, <3>2, <1>5
  <2> HIDE DEF f
  <2> QED BY <2>1, <2>2 DEF Injection, IsInjective
<1>7. /\ IsFiniteSet(levels) /\ Cardinality(levels) = u
      /\ IsFiniteSet(Characters) /\ Cardinality(Characters) = Sigma
  <2>1. 2 <= u + 1 => Cardinality(levels) = (u + 1) - 2 + 1
    BY FS_Interval
  <2>2. 2 > u + 1 => Cardinality(levels) = 0
    BY FS_Interval
  <2>3. IsFiniteSet(levels)
    BY FS_Interval
  <2> HIDE DEF levels
  <2>4. Cardinality(levels) = u
    BY <2>1, <2>2
  <2> QED BY <2>3, <2>4, CharactersFinite
<1> HIDE DEF f, levels
<1>8. /\ IsFiniteSet(Characters \X levels)
      /\ Cardinality(Characters \X levels) = Sigma * u
  BY <1>7, FS_Product
<1>9. Cardinality(1..Len(s)) <= Sigma * u
  BY <1>6, <1>8, FS_Injection
<1>10. Cardinality(1..Len(s)) = Len(s)
  <2> DEFINE l == Len(s)
  <2>1. l \in Nat
    BY <1>1
  <2> HIDE DEF l
  <2>2. Cardinality(1..l) = l
    BY <2>1, FS_Interval
  <2> QED BY <2>2 DEF l
<1> QED BY <1>9, <1>10
-----------------------------------------------------------------------------
(* Solutions that are handed on.                                           *)

(* Matches in order, in either direction, make an oriented solution.       *)
LEMMA OrientedIsSolution ==
    ASSUME strings \in Inputs, parent.side \in Directions, NEW w \in Seq(Characters), Distinct(w),
           NEW e \in [1..Len(w) -> Inner],
           \A i \in 1..Len(w) : CharacterOf(e[i]) = w[i],
           \A i, j \in 1..Len(w) : i < j => Before(parent.side, e[i], e[j])
    PROVE  Oriented(w) \in Solutions(strings) /\ Len(Oriented(w)) = Len(w)
<1>1. CASE parent.side = "forward"
  <2>1. Oriented(w) = w
    BY <1>1 DEF Oriented
  <2>2. \A i, j \in 1..Len(w) : i < j => Before("forward", e[i], e[j])
    BY <1>1
  <2>3. w \in Solutions(strings)
    BY <2>2, ThreadIsSolution
  <2> QED BY <2>1, <2>3
<1>2. CASE parent.side = "reverse"
  <2> DEFINE n == Len(w)
             v == [i \in 1..n |-> w[n - i + 1]]
             f == [i \in 1..n |-> e[n - i + 1]]
  <2>1. n \in Nat
    OBVIOUS
  <2>2. Oriented(w) = v
    BY <1>2 DEF Oriented, Reverse
  <2>3. \A i \in 1..n : n - i + 1 \in 1..n
    BY <2>1
  <2>4. v \in [1..n -> Characters] /\ f \in [1..n -> Inner]
    BY <2>3
  <2>5. \A i \in 1..n : v[i] = w[n - i + 1] /\ f[i] = e[n - i + 1]
    OBVIOUS
  <2> HIDE DEF v, f
  <2>6. v \in Seq(Characters) /\ Len(v) = n
    BY <2>1, <2>4
  <2>7. Distinct(v)
    <3> SUFFICES ASSUME NEW i \in 1..n, NEW j \in 1..n, v[i] = v[j] PROVE i = j
      BY <2>6 DEF Distinct
    <3>1. n - i + 1 = n - j + 1
      BY <2>3, <2>5 DEF Distinct
    <3> QED BY <3>1, <2>1
  <2>8. \A i \in 1..n : CharacterOf(f[i]) = v[i]
    BY <2>3, <2>5
  <2>9. \A i, j \in 1..n : i < j => Before("forward", f[i], f[j])
    <3> SUFFICES ASSUME NEW i \in 1..n, NEW j \in 1..n, i < j PROVE Before("forward", f[i], f[j])
      OBVIOUS
    <3>1. n - j + 1 < n - i + 1
      BY <2>1
    <3>2. Before("reverse", f[j], f[i])
      BY <1>2, <3>1, <2>3, <2>5
    <3>3. f[i] \in Nodes /\ f[j] \in Nodes /\ "forward" \in Directions /\ Opposite("forward") = "reverse"
      BY <2>4 DEF Nodes, Directions, Opposite
    <3> QED BY <3>2, <3>3, BeforeFacts
  <2> HIDE DEF n
  <2>10. v \in Solutions(strings)
    BY <2>4, <2>6, <2>7, <2>8, <2>9, ThreadIsSolution
  <2> QED BY <2>2, <2>6, <2>10 DEF n
<1> QED BY <1>1, <1>2 DEF Directions

LEMMA LengthStays ==
    ASSUME NEW w, Len(w) \in Nat
    PROVE  Len(Oriented(w)) = Len(w)
<1> DEFINE n == Len(w)
           v == [i \in 1..n |-> w[n - i + 1]]
           X == {v[i] : i \in 1..n}
<1>1. Oriented(w) = w \/ Oriented(w) = v
  BY DEF Oriented, Reverse
<1>2. v \in [1..n -> X]
  OBVIOUS
<1> HIDE DEF v, X
<1>3. Len(v) = n
  <2> HIDE DEF n
  <2>1. n \in Nat
    BY DEF n
  <2> QED BY <2>1, <1>2
<1> QED BY <1>1, <1>3

(* set_solution gathers a solution from the flags.                         *)
LEMMA CharactersAreSolution ==
    ASSUME Ready, NEW s, NEW E, StackOK(s, E)
    PROVE  /\ Oriented(CharactersOn(s, E)) \in Solutions(strings)
           /\ Len(Oriented(CharactersOn(s, E))) = Cardinality(E)
           /\ Len(CharactersOn(s, E)) = Cardinality(E)
<1> DEFINE n == Cardinality(E)
           path == PathOf(s, E)
           w == [k \in 1..n |-> NodeLetter(path[k])]
           e == [k \in 1..n |-> path[k][2]]
<1>1. /\ n \in Nat /\ path \in Seq(FlatNodes) /\ Len(path) = n
      /\ \A k, l \in 1..n : k < l => /\ NodeLetter(path[k]) # NodeLetter(path[l])
                                     /\ Before(parent.side, path[k][2], path[l][2])
  BY EnteredPath
<1>2. CharactersOn(s, E) = w
  <2>1. CharactersOn(s, E) = [k \in DOMAIN path |-> NodeLetter(path[k])]
    BY DEF CharactersOn, PathOf, PlacesOf
  <2> HIDE DEF path, n
  <2> QED BY <2>1, <1>1
<1> HIDE DEF path, n
<1>3. \A k \in 1..n : path[k] \in FlatNodes
  BY <1>1
<1>4. \A k \in 1..n : path[k][2] \in Inner /\ NodeLetter(path[k]) \in Characters
  <2>1. \A k \in 1..n : path[k][2] \in Inner
    BY <1>3 DEF FlatNodes
  <2> QED BY <2>1, InnerFacts DEF NodeLetter, Ready
<1>5. /\ w \in [1..n -> Characters] /\ e \in [1..n -> Inner]
      /\ \A k \in 1..n : w[k] = NodeLetter(path[k]) /\ e[k] = path[k][2]
  BY <1>4
<1> HIDE DEF w, e
<1>6. w \in Seq(Characters) /\ Len(w) = n
  BY <1>1, <1>5
<1>7. Distinct(w)
  <2> SUFFICES ASSUME NEW k \in 1..n, NEW l \in 1..n, w[k] = w[l] PROVE k = l
    BY <1>6 DEF Distinct
  <2>1. ~(k < l) /\ ~(l < k)
    BY <1>1, <1>5
  <2> QED BY <2>1, <1>1
<1>8. \A k \in 1..n : CharacterOf(e[k]) = w[k]
  BY <1>5 DEF NodeLetter
<1>9. \A k, l \in 1..n : k < l => Before(parent.side, e[k], e[l])
  BY <1>1, <1>5
<1>10. Oriented(w) \in Solutions(strings) /\ Len(Oriented(w)) = Len(w)
  BY <1>5, <1>6, <1>7, <1>8, <1>9, OrientedIsSolution DEF Ready
<1> QED BY <1>2, <1>6, <1>10 DEF n

(* What the selections grow by at the character c - 1.                     *)
Added(X, c) ==
    X \cup {x[1] \cup {x[2]} : x \in {y \in X \X {m \in active : CharacterOf(m) = c - 1} :
                                        \A s \in y[1] : ~Crossing(s, y[2])}}

(* The recursive definition of Selections has a solution.                  *)
LEMMA SelectionsUnfold ==
    \E chosen : /\ Selections = chosen[Sigma]
                /\ \A c \in 0..Sigma : chosen[c] = IF c = 0 THEN {{}} ELSE Added(chosen[c - 1], c)
<1> DEFINE K == 0..Sigma
           V == SUBSET (SUBSET active)
           Grown(X, c) == LET of == {m \in active : CharacterOf(m) = c - 1}
                          IN  X \cup {x[1] \cup {x[2]} : x \in {y \in X \X of :
                                                                   \A s \in y[1] : ~Crossing(s, y[2])}}
           Body(g) == [c \in 0..Sigma |-> IF c = 0 THEN {{}} ELSE Grown(g[c - 1], c)]
           F == [g \in [K -> V] |-> Body(g)]
           rank == [k \in K |-> k]
           chosen == CHOOSE g : g = Body(g)
<1>1. Selections = chosen[Sigma]
  BY DEF Selections
<1>2. Sigma \in Nat \ {0}
  BY CharactersFinite
<1>3. \A X \in V : \A c : Grown(X, c) \in V
  OBVIOUS
<1>4. \A g \in [K -> V] : Body(g) \in [K -> V]
  <2> HIDE DEF Grown
  <2> SUFFICES ASSUME NEW g \in [K -> V], NEW c \in K
               PROVE  (IF c = 0 THEN {{}} ELSE Grown(g[c - 1], c)) \in V
    OBVIOUS
  <2>1. c # 0 => g[c - 1] \in V
    BY <1>2
  <2>2. {{}} \in V
    OBVIOUS
  <2> HIDE DEF V
  <2> QED BY <1>3, <2>1, <2>2
<1>5. Descends(F, K, V, rank, Sigma) /\ V # {}
  <2>1. rank \in [K -> 0..Sigma]
    OBVIOUS
  <2>2. F \in [[K -> V] -> [K -> V]]
    <3> HIDE DEF Body, K, V
    <3> QED BY <1>4
  <2>3. \A g, h \in [K -> V] : \A k \in K :
           (\A t \in K : rank[t] < rank[k] => g[t] = h[t]) => F[g][k] = F[h][k]
    <3> SUFFICES ASSUME NEW g \in [K -> V], NEW h \in [K -> V], NEW k \in K,
                        \A t \in K : rank[t] < rank[k] => g[t] = h[t]
                 PROVE  F[g][k] = F[h][k]
      <4> HIDE DEF F, K, V, rank
      <4> QED OBVIOUS
    <3>1. k # 0 => g[k - 1] = h[k - 1]
      BY <1>2
    <3> HIDE DEF Grown, V
    <3> QED BY <3>1
  <2>4. {} \in V
    OBVIOUS
  <2> HIDE DEF K, V, F, rank
  <2> QED BY <1>2, <2>1, <2>2, <2>3, <2>4 DEF Descends
<1>6. PICK g \in [K -> V] : F[g] = g
  <2> HIDE DEF K, V, F, rank
  <2> QED BY <1>5, RecursionHasSolution
<1>7. chosen = Body(chosen)
  <2>1. g = Body(g)
    BY <1>6
  <2> HIDE DEF Body
  <2> QED BY <2>1
<1> HIDE DEF chosen
<1>8. \A c \in K : chosen[c] = IF c = 0 THEN {{}} ELSE Grown(chosen[c - 1], c)
  <2> HIDE DEF Grown
  <2> QED BY <1>7
<1> HIDE DEF Body
<1>9. \A X, c : Grown(X, c) = Added(X, c)
  BY DEF Added
<1> HIDE DEF Grown
<1>10. \A c \in 0..Sigma : chosen[c] = IF c = 0 THEN {{}} ELSE Added(chosen[c - 1], c)
  BY <1>8, <1>9
<1> QED BY <1>1, <1>10

(* A selection has every character once and none of its pairs cross.       *)
LEMMA SelectionFacts ==
    ASSUME NEW X \in Selections
    PROVE  /\ X \subseteq active
           /\ \A s, t \in X : s # t => CharacterOf(s) # CharacterOf(t) /\ ~Crossing(s, t)
<1>1. PICK chosen : /\ Selections = chosen[Sigma]
                    /\ \A c \in 0..Sigma : chosen[c] = IF c = 0 THEN {{}} ELSE Added(chosen[c - 1], c)
  BY SelectionsUnfold
<1>2. Sigma \in Nat
  BY CharactersFinite
<1> DEFINE Choice(Y, c) == /\ Y \subseteq active
                           /\ \A s \in Y : CharacterOf(s) \in 0..(c - 1)
                           /\ \A s, t \in Y : s # t => CharacterOf(s) # CharacterOf(t) /\ ~Crossing(s, t)
           Bad == {c \in 0..Sigma : ~\A Y \in chosen[c] : Choice(Y, c)}
<1>3. Bad = {}
  <2> SUFFICES ASSUME Bad # {} PROVE FALSE
    OBVIOUS
  <2>1. Bad \subseteq Nat
    OBVIOUS
  <2>2. PICK c \in Bad : \A b \in Bad : c <= b
    <3> HIDE DEF Bad
    <3> QED BY <2>1, LeastNumber
  <2>3. c \in 0..Sigma
    OBVIOUS
  <2>4. PICK Y \in chosen[c] : ~Choice(Y, c)
    <3> HIDE DEF Choice
    <3> QED OBVIOUS
  <2>5. CASE c = 0
    <3>1. chosen[0] = {{}}
      BY <1>1, <1>2
    <3>2. Y = {}
      BY <2>5, <3>1
    <3> QED BY <2>4, <3>2
  <2>6. CASE c # 0
    <3>1. c - 1 \in 0..Sigma /\ c \in Nat /\ ~(c <= c - 1)
      BY <1>2, <2>3, <2>6
    <3>2. c - 1 \notin Bad
      <4> HIDE DEF Bad
      <4> QED BY <3>1, <2>2
    <3>3. \A Z \in chosen[c - 1] : Choice(Z, c - 1)
      <4> HIDE DEF Choice
      <4> QED BY <3>1, <3>2
    <3>4. Y \in Added(chosen[c - 1], c)
      BY <1>1, <2>3, <2>6
    <3>5. CASE Y \in chosen[c - 1]
      <4>1. Choice(Y, c - 1)
        BY <3>3, <3>5
      <4> QED BY <4>1, <2>4, <3>1
    <3>6. CASE Y \notin chosen[c - 1]
      <4>1. PICK Z \in chosen[c - 1], m \in active : /\ CharacterOf(m) = c - 1
                                                     /\ \A s \in Z : ~Crossing(s, m)
                                                     /\ Y = Z \cup {m}
        BY <3>4, <3>6 DEF Added
      <4>2. Choice(Z, c - 1)
        BY <3>3
      <4>3. \A s \in Z : ~Crossing(m, s)
        BY <4>1 DEF Crossing
      <4>4. \A s \in Z : CharacterOf(s) # c - 1 /\ CharacterOf(s) \in 0..(c - 1)
        BY <4>2, <3>1
      <4>5. Choice(Y, c)
        BY <4>1, <4>2, <4>3, <4>4, <3>1
      <4> QED BY <4>5, <2>4
    <3> QED BY <3>5, <3>6
  <2> QED BY <2>5, <2>6
<1>4. Choice(X, Sigma)
  BY <1>1, <1>2, <1>3
<1> QED BY <1>4
(* set_solution_from_graph makes a solution of a selection.                *)
LEMMA SelectedIsSolution ==
    ASSUME strings \in Inputs, active \subseteq Inner, NEW X \in Selections
    PROVE  Selected(X) \in Solutions(strings) /\ Len(Selected(X)) = Cardinality(X)
<1> DEFINE R == {x \in X \X X : x[1][1] < x[2][1]}
           n == Cardinality(X)
           path == Sorted(X, R)
           w == [i \in 1..n |-> CharacterOf(path[i])]
<1>1. /\ X \subseteq Inner /\ X \subseteq Nodes
      /\ \A s, t \in X : s # t => CharacterOf(s) # CharacterOf(t) /\ ~Crossing(s, t)
  BY SelectionFacts DEF Nodes
<1>2. \A s \in X : /\ s[1] \in Int /\ s[2] \in Int
                   /\ CharacterOf(s) = strings[1][s[1]] /\ CharacterOf(s) = strings[2][s[2]]
                   /\ CharacterOf(s) \in Characters
  BY <1>1, InnerFacts, InputFacts
<1>3. \A s, t \in X : s # t => s[1] # t[1] /\ s[2] # t[2]
  <2> SUFFICES ASSUME NEW s \in X, NEW t \in X, s # t PROVE s[1] # t[1] /\ s[2] # t[2]
    OBVIOUS
  <2>1. CharacterOf(s) # CharacterOf(t)
    BY <1>1
  <2> QED BY <2>1, <1>2
<1>4. \A s, t \in X : <<s, t>> \in R <=> s[1] < t[1]
  OBVIOUS
<1> HIDE DEF R
<1>5. IsStrictOrder(X, R)
  BY <1>2, <1>3, <1>4 DEF IsStrictOrder
<1>6. IsFiniteSet(X)
  BY <1>1, NodesFinite, FS_Subset
<1>7. /\ path \in Seq(X) /\ Len(path) = n /\ n \in Nat
      /\ \A i, j \in 1..n : i < j => <<path[i], path[j]>> \in R
  BY <1>5, <1>6, SortedFacts
<1>8. Selected(X) = w
  <2>1. Selected(X) = [i \in DOMAIN path |-> CharacterOf(path[i])]
    BY DEF Selected, R
  <2> HIDE DEF path, n
  <2> QED BY <2>1, <1>7
<1> HIDE DEF path, n
<1>9. \A i \in 1..n : path[i] \in X
  BY <1>7
<1>10. w \in [1..n -> Characters] /\ path \in [1..n -> Inner] /\ \A i \in 1..n : w[i] = CharacterOf(path[i])
  BY <1>1, <1>2, <1>7, <1>9
<1> HIDE DEF w
<1>11. w \in Seq(Characters) /\ Len(w) = n
  BY <1>7, <1>10
<1>12. \A i, j \in 1..n : i < j => path[i][1] < path[j][1] /\ path[i] # path[j]
  <2> SUFFICES ASSUME NEW i \in 1..n, NEW j \in 1..n, i < j
               PROVE  path[i][1] < path[j][1] /\ path[i] # path[j]
    OBVIOUS
  <2>1. path[i][1] < path[j][1] /\ path[i][1] \in Int /\ path[j][1] \in Int
    BY <1>2, <1>4, <1>7, <1>9
  <2> QED BY <2>1
<1>13. Distinct(w)
  <2> SUFFICES ASSUME NEW i \in 1..n, NEW j \in 1..n, w[i] = w[j] PROVE i = j
    BY <1>11 DEF Distinct
  <2>1. ASSUME NEW k \in 1..n, NEW l \in 1..n, k < l PROVE w[k] # w[l]
    BY <2>1, <1>1, <1>9, <1>10, <1>12
  <2>2. ~(i < j) /\ ~(j < i)
    BY <2>1
  <2> QED BY <2>2, <1>7
<1>14. \A i, j \in 1..n : i < j => Before("forward", path[i], path[j])
  <2> SUFFICES ASSUME NEW i \in 1..n, NEW j \in 1..n, i < j PROVE Before("forward", path[i], path[j])
    OBVIOUS
  <2> DEFINE s == path[i]
             t == path[j]
  <2>1. s \in X /\ t \in X /\ s # t /\ s[1] < t[1]
    BY <1>9, <1>12
  <2> HIDE DEF s, t
  <2>2. ~Crossing(s, t) /\ s[2] # t[2] /\ s[2] \in Int /\ t[2] \in Int
    BY <2>1, <1>1, <1>2, <1>3
  <2>3. s[2] < t[2]
    BY <2>1, <2>2 DEF Crossing
  <2> QED BY <2>1, <2>3 DEF Before, Ahead, s, t
<1>15. w \in Solutions(strings)
  <2> DEFINE e == [i \in 1..n |-> path[i]]
  <2>1. e \in [1..Len(w) -> Inner] /\ \A i \in 1..n : e[i] = path[i]
    BY <1>10, <1>11
  <2> HIDE DEF e
  <2> QED BY <2>1, <1>10, <1>11, <1>13, <1>14, ThreadIsSolution
<1> QED BY <1>8, <1>11, <1>15 DEF n

-----------------------------------------------------------------------------
(* The steps.                                                              *)

LEMMA ConcludeKeeps ==
    ASSUME strings \in Inputs, UNCHANGED solveFrame, NEW l, NEW u, NEW w, NEW ok, Conclude(l, u, w, ok),
           parent.side = "forward" => w \in Solutions(strings) /\ Len(w) = l
    PROVE  SolvingInv' /\ (w \in Solutions(strings) /\ Len(w) = l => SolutionIsOne')
<1>1. strings' = strings /\ parent' = parent
  BY DEF solveFrame, parentVars
<1>2. step' = "done" /\ solution' = w /\ lower' = l
  BY DEF Conclude
<1>3. w \in Solutions(strings) /\ Len(w) = l => SolutionIsOne'
  BY <1>1, <1>2 DEF SolutionIsOne
<1>4. Concluded'
  BY <1>1, <1>3 DEF Concluded
<1> QED BY <1>2, <1>3, <1>4 DEF SolvingInv

LEMMA SolveClosedKeeps ==
    ASSUME SolvingInv, SolveClosed
    PROVE  SolvingInv' /\ SolutionIsOne'
<1>1. strings \in Inputs /\ UNCHANGED solveFrame
  BY DEF SolveClosed, SolvingInv, Reducing, MddInv, GraphPart
<1>2. PICK w \in HeuristicSolutions : Conclude(lower, upper, w, TRUE)
  BY DEF SolveClosed
<1>3. w \in Solutions(strings) /\ Len(w) = lower
  BY DEF HeuristicSolutions
<1> QED BY <1>1, <1>2, <1>3, ConcludeKeeps

LEMMA IlpKeeps ==
    ASSUME SolvingInv, IlpOptimal \/ IlpInfeasible \/ IlpTimesOut \/ IlpFails
    PROVE  SolvingInv' /\ SolutionIsOne'
<1>1. step = "solver" /\ UNCHANGED solveFrame
  BY DEF IlpOptimal, IlpInfeasible, IlpTimesOut, IlpFails, SolvesIlp
<1>2. strings \in Inputs /\ active \subseteq Inner
  BY <1>1 DEF SolvingInv, Reducing, MddInv, GraphPart
<1>3. PICK l, u, w, ok : /\ Conclude(l, u, w, ok)
                         /\ \/ \E X \in Feasible : l = Cardinality(X) /\ w = Selected(X)
                            \/ w \in HeuristicSolutions /\ l = lower
  <2>1. CASE IlpOptimal
    BY <2>1 DEF IlpOptimal
  <2>2. CASE IlpInfeasible
    BY <2>2 DEF IlpInfeasible
  <2>3. CASE IlpTimesOut
    BY <2>3 DEF IlpTimesOut
  <2>4. CASE IlpFails
    BY <2>4 DEF IlpFails
  <2> QED BY <2>1, <2>2, <2>3, <2>4
<1>4. w \in Solutions(strings) /\ Len(w) = l
  <2>1. CASE w \in HeuristicSolutions /\ l = lower
    BY <2>1 DEF HeuristicSolutions
  <2>2. CASE \E X \in Feasible : l = Cardinality(X) /\ w = Selected(X)
    <3>1. PICK X \in Feasible : l = Cardinality(X) /\ w = Selected(X)
      BY <2>2
    <3>2. X \in Selections
      BY DEF Feasible
    <3> QED BY <3>1, <3>2, <1>2, SelectedIsSolution
  <2> QED BY <2>1, <2>2, <1>3
<1> QED BY <1>1, <1>2, <1>3, <1>4, ConcludeKeeps

LEMMA ReadyStays ==
    ASSUME Ready, UNCHANGED solveFrame
    PROVE  /\ Ready' /\ \A s, E : StackOK(s, E)' <=> StackOK(s, E)
           /\ strings' = strings /\ parent' = parent /\ \A n : NodeLetter(n)' = NodeLetter(n)
           /\ \A w : Oriented(w)' = Oriented(w)
<1>1. strings' = strings /\ parent' = parent /\ shared' = shared
  BY DEF solveFrame, parentVars
<1>2. \A flat, d : IsFlat(flat, d)' <=> IsFlat(flat, d)
  BY <1>1, DiagramsUnchanged
<1>3. Ready'
  BY <1>1, <1>2 DEF Ready
<1>4. \A s, E : StackOK(s, E)' <=> StackOK(s, E)
  BY <1>1, StackUnchanged
<1> QED BY <1>1, <1>3, <1>4 DEF NodeLetter, CharacterOf, Oriented

LEMMA StackMoves ==
    ASSUME Ready, UNCHANGED solveFrame, NEW s, NEW E, StackOK(s, E), stack' = s, entered' = E
    PROVE  StackOK(stack, entered)'
<1>1. StackOK(s, E)'
  BY ReadyStays
<1> QED BY <1>1

LEMMA BeginKeeps ==
    ASSUME SolvingInv, BeginEnumeration
    PROVE  SolvingInv' /\ step' # "done"
<1> DEFINE first == Targets(TheRoot)
           q == Sorted(first, ByPosition(first))
<1>1. /\ step = "solver" /\ lower < upper /\ step' = "enumerate"
      /\ UNCHANGED solveFrame /\ UNCHANGED <<lower, upper, entered, used, solution>>
      /\ stack' = q
  BY DEF BeginEnumeration, TheRoot
<1>2. /\ MddInv /\ stack = <<>> /\ entered = {} /\ used = {} /\ solution = <<>>
  BY <1>1 DEF SolvingInv, Reducing
<1>3. /\ strings \in Inputs /\ lower \in 0..Sigma /\ upper \in 0..Sigma
      /\ StepsFit /\ ParentPart /\ SharedPart
  BY <1>2 DEF MddInv, GraphPart
<1>4. Ready
  <2>1. task # "forward" /\ Published
    BY <1>1, <1>3 DEF StepsFit, Published, Filtering
  <2>2. parent.side \in Directions
    BY <1>3, <2>1 DEF ParentPart, IsDiagram
  <2> QED BY <1>3, <2>1, <2>2 DEF SharedPart, Ready
<1>5. /\ \A t \in first : t \in FlatNodes /\ t[1] = 2
      /\ \A t, u \in first : NodeLetter(t) = NodeLetter(u) => t = u
  <2>1. TheRoot[1] + 1 = 2
    BY DEF TheRoot
  <2> QED BY <2>1, <1>4, TargetFacts
<1>6. IsFiniteSet(first) /\ IsStrictOrder(first, ByPosition(first))
  BY <1>4, ByPositionFacts
<1> HIDE DEF first
<1>7. q \in Seq(first) /\ \A i, j \in 1..Len(q) : q[i] = q[j] => i = j
  BY <1>6, SortedFacts
<1> HIDE DEF q
<1>8. \A i \in 1..Len(q) : q[i] \in first /\ EnteredBelow(q, {}, i) = {}
  BY <1>7 DEF EnteredBelow
<1>9. StackOK(q, {})
  <2>1. q \in Seq(FlatNodes)
    BY <1>5, <1>7
  <2>2. \A i \in 1..Len(q) : q[i][1] = Cardinality(EnteredBelow(q, {}, i)) + 2
    <3>1. Cardinality({}) = 0
      BY FS_EmptySet
    <3> SUFFICES ASSUME NEW i \in 1..Len(q) PROVE q[i][1] = Cardinality(EnteredBelow(q, {}, i)) + 2
      OBVIOUS
    <3>2. q[i][1] = 2 /\ EnteredBelow(q, {}, i) = {}
      BY <1>5, <1>8
    <3> QED BY <3>1, <3>2
  <2>3. \A i \in 1..Len(q) : PushedBy(q, {}, i)
    BY <1>8 DEF PushedBy, first
  <2>4. LiesOn(q, {})
    BY DEF LiesOn
  <2> QED BY <1>7, <2>1, <2>2, <2>3, <2>4 DEF StackOK
<1>10. Enumerating'
  <2>1. StackOK(stack, entered)'
    <3>1. entered' = {}
      BY <1>1, <1>2
    <3> QED BY <3>1, <1>1, <1>4, <1>9, StackMoves
  <2>2. used' = {} /\ entered' = {} /\ solution' = <<>> /\ lower' = lower /\ upper' = upper
    BY <1>1, <1>2
  <2>3. Cardinality({}) = 0 /\ 0 <= lower
    BY <1>3, FS_EmptySet
  <2>4. Ready' /\ strings' = strings
    BY <1>1, <1>4, ReadyStays
  <2> QED BY <1>1, <1>3, <2>1, <2>2, <2>3, <2>4 DEF Enumerating, Ready
<1> QED BY <1>1, <1>10 DEF SolvingInv

LEMMA EnterNodeKeeps ==
    ASSUME SolvingInv, EnterNode
    PROVE  SolvingInv' /\ (step' = "done" => SolutionIsOne')
<1> DEFINE n == stack[Len(stack)]
           nodes == entered \cup {n}
           characters == used \cup {NodeLetter(n)}
           depth == Cardinality(nodes)
           pushed == Pushed(n, characters)
           q == Sorted(pushed, ByPosition(pushed))
           found == CharactersOn(stack, nodes)
           better == IF depth > lower THEN found ELSE solution
<1>1. /\ step = "enumerate" /\ stack # <<>> /\ n \notin entered /\ UNCHANGED solveFrame
      /\ IF depth > lower /\ depth >= upper
         THEN Conclude(depth, depth, Oriented(better), TRUE)
         ELSE /\ entered' = nodes /\ used' = characters /\ solution' = better
              /\ lower' = Max({lower, depth}) /\ stack' = stack \o q
              /\ UNCHANGED <<step, upper, valid>>
  BY DEF EnterNode, Top
<1>2. /\ strings \in Inputs /\ lower \in 0..Sigma /\ upper \in 0..Sigma /\ lower < upper
      /\ StackOK(stack, entered) /\ used = {NodeLetter(x) : x \in entered}
      /\ Cardinality(entered) <= lower
      /\ solution = <<>> \/ (Oriented(solution) \in Solutions(strings) /\ Len(solution) = lower)
      /\ Ready /\ lower \in Int /\ upper \in Int /\ Sigma \in Nat
  BY <1>1, CharactersFinite DEF SolvingInv, Enumerating, Ready
<1>3. stack \in Seq(FlatNodes) /\ Len(stack) > 0 /\ n \in FlatNodes
  <2>1. stack \in Seq(FlatNodes)
    BY <1>2 DEF StackOK
  <2> QED BY <2>1, <1>1
<1>4. /\ pushed \subseteq Targets(n)
      /\ \A t \in pushed : NodeLetter(t) \notin characters
  BY DEF Pushed
<1>5. characters = {NodeLetter(x) : x \in nodes}
  BY <1>2
<1>6. n \in FlatNodes \cup {TheRoot}
  BY <1>3
<1> HIDE DEF pushed
<1>7. IsFiniteSet(pushed) /\ IsStrictOrder(pushed, ByPosition(pushed))
  <2> HIDE DEF n
  <2> QED BY <1>2, <1>4, <1>6, ByPositionFacts
<1>8. q \in Seq(pushed) /\ \A i, j \in 1..Len(q) : q[i] = q[j] => i = j
  BY <1>7, SortedFacts
<1>9. \A t \in pushed, x \in nodes : NodeLetter(t) # NodeLetter(x)
  BY <1>4, <1>5
<1> HIDE DEF q, characters
<1>10. StackOK(stack \o q, nodes)
  BY <1>1, <1>2, <1>3, <1>4, <1>8, <1>9, EnterKeeps
<1>11. StackOK(stack, nodes)
  <2> DEFINE none == <<>>
  <2>1. none \in Seq({}) /\ Len(none) = 0 /\ stack \o none = stack
    BY <1>3
  <2>2. \A i, j \in 1..Len(none) : none[i] = none[j] => i = j
    BY <2>1
  <2> HIDE DEF none
  <2>3. StackOK(stack \o none, nodes)
    BY <1>1, <1>2, <1>3, <2>1, <2>2, EnterKeeps
  <2> QED BY <2>1, <2>3
<1>12. depth \in Nat /\ Cardinality(entered) \in Nat /\ depth = Cardinality(entered) + 1
  <2>1. IsFiniteSet(entered) /\ Cardinality(entered) \in Nat
    BY <1>2, EnteredPath
  <2>2. Cardinality(nodes) = Cardinality(entered) + 1
    BY <2>1, <1>1, FS_AddElement
  <2> QED BY <2>1, <2>2
<1>13. /\ Oriented(found) \in Solutions(strings)
       /\ Len(Oriented(found)) = depth /\ Len(found) = depth
  BY <1>2, <1>11, CharactersAreSolution
<1> HIDE DEF n, nodes, depth, found
<1>14. CASE depth > lower /\ depth >= upper
  <2>1. Conclude(depth, depth, Oriented(found), TRUE)
    BY <1>1, <1>14
  <2> QED BY <2>1, <1>1, <1>2, <1>13, ConcludeKeeps
<1>15. CASE ~(depth > lower /\ depth >= upper)
  <2>1. /\ entered' = nodes /\ used' = characters /\ solution' = better
        /\ lower' = Max({lower, depth}) /\ stack' = stack \o q
        /\ step' = step /\ upper' = upper
    BY <1>1, <1>15
  <2>2. /\ Ready' /\ strings' = strings /\ \A x : NodeLetter(x)' = NodeLetter(x)
        /\ \A w : Oriented(w)' = Oriented(w)
    BY <1>1, <1>2, ReadyStays
  <2>3. StackOK(stack, entered)'
    <3> DEFINE r == stack \o q
    <3>1. StackOK(r, nodes) /\ stack' = r /\ entered' = nodes
      BY <2>1, <1>10
    <3> HIDE DEF r
    <3> QED BY <3>1, <1>1, <1>2, StackMoves
  <2>4. used' = {NodeLetter(x)' : x \in entered'}
    BY <2>1, <2>2, <1>5
  <2>5. /\ lower' \in 0..Sigma /\ lower' < upper /\ depth <= lower'
        /\ lower' = IF depth > lower THEN depth ELSE lower
    <3>1. lower \in Int /\ depth \in Int
      BY <1>2, <1>12
    <3>2. Max({lower, depth}) \in {lower, depth} /\ Max({lower, depth}) >= lower /\ Max({lower, depth}) >= depth
      BY <3>1, MaxOfTwo
    <3>3. lower' = Max({lower, depth})
      BY <2>1
    <3> QED BY <3>1, <3>2, <3>3, <1>2, <1>15
  <2>6. solution' = <<>> \/ (Oriented(solution') \in Solutions(strings) /\ Len(solution') = lower')
    BY <2>1, <2>5, <1>2, <1>13
  <2>7. solution' = <<>> \/ (Oriented(solution)' \in Solutions(strings)' /\ Len(solution') = lower')
    <3>1. Solutions(strings)' = Solutions(strings)
      BY <2>2 DEF Solutions
    <3>2. Oriented(solution)' = Oriented(solution')
      BY <2>2
    <3> QED BY <2>6, <3>1, <3>2
  <2>8. Cardinality(entered') <= lower'
    BY <2>1, <2>5 DEF depth
  <2>9. Enumerating'
    BY <2>1, <2>2, <2>3, <2>4, <2>5, <2>7, <2>8, <1>2 DEF Enumerating, Ready
  <2> QED BY <2>1, <2>9, <1>1 DEF SolvingInv
<1> QED BY <1>14, <1>15

LEMMA LeaveNodeKeeps ==
    ASSUME SolvingInv, LeaveNode
    PROVE  SolvingInv' /\ step' # "done"
<1> DEFINE n == stack[Len(stack)]
           nodes == entered \ {n}
<1>1. /\ step = "enumerate" /\ stack # <<>> /\ n \in entered /\ UNCHANGED solveFrame
      /\ entered' = nodes /\ used' = used \ {NodeLetter(n)} /\ stack' = Front(stack)
      /\ UNCHANGED <<step, lower, upper, solution, valid>>
  BY DEF LeaveNode, Top
<1>2. /\ strings \in Inputs /\ lower \in 0..Sigma /\ upper \in 0..Sigma /\ lower < upper
      /\ StackOK(stack, entered) /\ used = {NodeLetter(x) : x \in entered}
      /\ Cardinality(entered) <= lower /\ lower \in Int
      /\ solution = <<>> \/ (Oriented(solution) \in Solutions(strings) /\ Len(solution) = lower)
      /\ Ready
  BY <1>1 DEF SolvingInv, Enumerating, Ready
<1>3. Len(stack) > 0 /\ Len(stack) \in Nat
  <2>1. stack \in Seq(FlatNodes)
    BY <1>2 DEF StackOK
  <2> QED BY <2>1, <1>1
<1>4. StackOK(Front(stack), nodes)
  BY <1>1, <1>2, <1>3, LeaveKeeps
<1>5. ASSUME NEW x \in entered, x # n PROVE NodeLetter(x) # NodeLetter(n)
  <2>1. PICK i \in 1..Len(stack) : stack[i] = x
    BY <1>2 DEF StackOK
  <2>2. i < Len(stack) /\ Len(stack) \in 1..Len(stack)
    BY <2>1, <1>3, <1>5
  <2> QED BY <2>1, <2>2, <1>2 DEF StackOK, LiesOn
<1>6. used \ {NodeLetter(n)} = {NodeLetter(x) : x \in nodes}
  BY <1>2, <1>5
<1>7. Cardinality(nodes) <= lower
  <2>1. IsFiniteSet(entered) /\ Cardinality(entered) \in Nat
    BY <1>2, EnteredPath
  <2>2. IsFiniteSet(nodes) /\ Cardinality(nodes) <= Cardinality(entered)
    BY <2>1, FS_Subset
  <2>3. Cardinality(nodes) \in Nat
    BY <2>2, FS_CardinalityType
  <2> QED BY <2>1, <2>2, <2>3, <1>2
<1> HIDE DEF n, nodes
<1>8. /\ Ready' /\ strings' = strings /\ \A x : NodeLetter(x)' = NodeLetter(x)
      /\ \A w : Oriented(w)' = Oriented(w)
  BY <1>1, <1>2, ReadyStays
<1>9. StackOK(stack, entered)'
  <2> DEFINE r == Front(stack)
  <2>1. StackOK(r, nodes) /\ stack' = r /\ entered' = nodes
    BY <1>1, <1>4
  <2> HIDE DEF r
  <2> QED BY <2>1, <1>1, <1>2, StackMoves
<1>10. used' = {NodeLetter(x)' : x \in entered'}
  BY <1>1, <1>6, <1>8
<1>11. solution' = <<>> \/ (Oriented(solution)' \in Solutions(strings)' /\ Len(solution') = lower')
  <2>1. solution' = solution /\ lower' = lower
    BY <1>1
  <2>2. Solutions(strings)' = Solutions(strings)
    BY <1>8 DEF Solutions
  <2>3. Oriented(solution)' = Oriented(solution')
    BY <1>8
  <2> QED BY <2>1, <2>2, <2>3, <1>2
<1>12. Enumerating'
  BY <1>1, <1>2, <1>7, <1>8, <1>9, <1>10, <1>11 DEF Enumerating, Ready
<1> QED BY <1>1, <1>12 DEF SolvingInv

LEMMA EndEnumerationKeeps ==
    ASSUME SolvingInv, EndEnumeration
    PROVE  SolvingInv' /\ (NothingFoundBackwards \/ SolutionIsOne')
<1>1. step = "enumerate" /\ stack = <<>> /\ UNCHANGED solveFrame
  BY DEF EndEnumeration
<1>2. /\ strings \in Inputs
      /\ solution = <<>> \/ (Oriented(solution) \in Solutions(strings) /\ Len(solution) = lower)
  BY <1>1 DEF SolvingInv, Enumerating
<1>3. PICK w : /\ Conclude(lower, lower, Oriented(w), TRUE)
               /\ IF solution = <<>> THEN w \in HeuristicSolutions ELSE w = solution
  BY DEF EndEnumeration
<1>4. ASSUME parent.side = "forward"
      PROVE  Oriented(w) \in Solutions(strings) /\ Len(Oriented(w)) = lower
  <2>1. Oriented(w) = w
    BY <1>4 DEF Oriented
  <2> QED BY <2>1, <1>2, <1>3 DEF HeuristicSolutions
<1>5. SolvingInv' /\ (Oriented(w) \in Solutions(strings) /\ Len(Oriented(w)) = lower => SolutionIsOne')
  BY <1>1, <1>2, <1>3, <1>4, ConcludeKeeps
<1>6. CASE solution # <<>>
  <2>1. lower \in Nat
    BY <1>1 DEF SolvingInv, Enumerating
  <2>2. Len(Oriented(solution)) = Len(solution)
    BY <2>1, <1>2, <1>6, LengthStays
  <2> QED BY <2>2, <1>2, <1>3, <1>5, <1>6
<1>7. CASE solution = <<>>
  <2>1. parent.side \in Directions
    BY <1>1 DEF SolvingInv, Enumerating
  <2>2. parent.side # "forward" => NothingFoundBackwards
    BY <2>1, <1>1, <1>7 DEF NothingFoundBackwards, Directions
  <2> QED BY <2>2, <1>4, <1>5
<1> QED BY <1>6, <1>7

(* The reduction hands over to the solver at its end, and does nothing     *)
(* behind that.                                                            *)
LEMMA ReductionHandsOver ==
    ASSUME MddNext
    PROVE  /\ step \notin {"solver", "enumerate", "done"}
           /\ step' = "solver" => EndReduction
<1>1. CASE GraphStep
  BY <1>1 DEF GraphStep, mddVars
<1>2. CASE FilterDown \/ FilterUp \/ FilterRoot
  BY <1>2 DEF FilterDown, FilterUp, FilterRoot
<1>3. CASE StartForward \/ StartBackward \/ ChooseSide
  BY <1>3 DEF StartForward, StartBackward, ChooseSide, BeginFilter
<1>4. CASE Fork \/ ParentResumes \/ ParentLaysOut
  BY <1>4 DEF Fork, ParentResumes, ParentLaysOut, BeginFilter
<1>5. CASE EndReduction
  BY <1>5 DEF EndReduction
<1>6. CASE Kill
  BY <1>6 DEF Kill, ChildRuns, ChildEnds
<1>7. CASE CopyIsFiltered \/ TrialIsOver \/ ReportRefined
  BY <1>7 DEF CopyIsFiltered, TrialIsOver, ReportRefined, ChildEnds
<1>8. CASE TryCharacter \/ RefineCharacter \/ SplitNextLevel
  BY <1>8 DEF TryCharacter, RefineCharacter, SplitNextLevel, BeginSplit, BeginFilter
<1>9. CASE NextCharacter \/ MarkComplete \/ KeepOnlyOne \/ LayOut
  BY <1>9 DEF NextCharacter, MarkComplete, KeepOnlyOne, LayOut, ChildEnds
<1> QED BY <1>1, <1>2, <1>3, <1>4, <1>5, <1>6, <1>7, <1>8, <1>9 DEF MddNext, ChildNext

LEMMA ReductionKeeps ==
    ASSUME SolvingInv, ReductionStep
    PROVE  SolvingInv' /\ step' # "done"
<1>1. MddNext /\ UNCHANGED solveVars
  BY DEF ReductionStep
<1>2. step \notin {"solver", "enumerate", "done"} /\ (step' = "solver" => EndReduction)
  BY <1>1, ReductionHandsOver
<1>3. MddInv /\ stack = <<>> /\ entered = {} /\ used = {} /\ solution = <<>>
  BY <1>2 DEF SolvingInv, Reducing
<1>4. MddInv'
  BY <1>1, <1>3, MddStep
<1>5. step' \notin {"enumerate", "done"}
  BY <1>4 DEF MddInv, StepsFit, Filtering, Selecting
<1>6. step' = "solver" => active' \subseteq Inner'
  <2>1. ASSUME EndReduction PROVE active' \subseteq Inner'
    <3>1. strings' = strings /\ active' = MatchesOfLayout(shared.flat)
      BY <2>1 DEF EndReduction
    <3>2. Inner' = Inner
      BY <3>1, StringsUnchanged
    <3> QED BY <3>1, <3>2 DEF MatchesOfLayout
  <2> QED BY <2>1, <1>2
<1>7. Reducing'
  BY <1>1, <1>3, <1>4, <1>6 DEF Reducing, solveVars
<1> QED BY <1>5, <1>7 DEF SolvingInv

LEMMA SolvingStutter ==
    ASSUME SolvingInv, UNCHANGED allVars
    PROVE  SolvingInv'
<1>1. UNCHANGED <<vars, mddVars>> /\ UNCHANGED solveVars
  BY DEF allVars
<1>2. /\ step' = step /\ strings' = strings /\ lower' = lower /\ upper' = upper /\ parent' = parent
      /\ active' = active /\ stack' = stack /\ entered' = entered /\ used' = used
      /\ solution' = solution /\ UNCHANGED solveFrame
  BY <1>1 DEF vars, mddVars, solveVars, solveFrame, parentVars, graphVars
<1>3. CASE step = "enumerate"
  <2>1. Enumerating /\ Ready
    BY <1>3 DEF SolvingInv, Enumerating, Ready
  <2>2. /\ Ready' /\ \A x : NodeLetter(x)' = NodeLetter(x)
    BY <2>1, <1>2, ReadyStays
  <2>3. StackOK(stack, entered)'
    <3> DEFINE s == stack
               E == entered
    <3>1. StackOK(s, E) /\ stack' = s /\ entered' = E
      BY <2>1, <1>2 DEF Enumerating
    <3> HIDE DEF s, E
    <3> QED BY <3>1, <2>1, <1>2, StackMoves
  <2>4. used' = {NodeLetter(x)' : x \in entered'}
    BY <2>1, <2>2, <1>2 DEF Enumerating
  <2>5. Oriented(solution)' = Oriented(solution) /\ Solutions(strings)' = Solutions(strings)
    BY <1>2 DEF Oriented, Solutions
  <2>6. Enumerating'
    BY <2>1, <2>2, <2>3, <2>4, <2>5, <1>2 DEF Enumerating, Ready
  <2> QED BY <2>6, <1>2, <1>3 DEF SolvingInv
<1>4. CASE step = "done"
  BY <1>2, <1>4 DEF SolvingInv, Concluded, SolutionIsOne
<1>5. CASE step \notin {"enumerate", "done"}
  <2>1. Reducing
    BY <1>5 DEF SolvingInv
  <2>2. MddInv'
    BY <2>1, <1>1, MddStutter DEF Reducing
  <2>3. Inner' = Inner
    BY <1>2, StringsUnchanged
  <2>4. Reducing'
    BY <2>1, <2>2, <2>3, <1>2 DEF Reducing
  <2> QED BY <2>4, <1>2, <1>5 DEF SolvingInv
<1> QED BY <1>3, <1>4, <1>5

LEMMA SolvingInitially == SolvingInit => SolvingInv
<1> SUFFICES ASSUME SolvingInit PROVE SolvingInv
  OBVIOUS
<1>1. MddInv /\ stack = <<>> /\ entered = {} /\ used = {} /\ solution = <<>>
  BY MddInitially DEF SolvingInit
<1>2. step = "graph"
  BY DEF SolvingInit, MddInit
<1> QED BY <1>1, <1>2 DEF SolvingInv, Reducing

LEMMA SolvingStep == SolvingInv /\ [SolvingNext]_allVars => SolvingInv'
<1> SUFFICES ASSUME SolvingInv, [SolvingNext]_allVars PROVE SolvingInv'
  OBVIOUS
<1>1. CASE ReductionStep
  BY <1>1, ReductionKeeps
<1>2. CASE SolveClosed
  BY <1>2, SolveClosedKeeps
<1>3. CASE BeginEnumeration
  BY <1>3, BeginKeeps
<1>4. CASE EnterNode
  BY <1>4, EnterNodeKeeps
<1>5. CASE LeaveNode
  BY <1>5, LeaveNodeKeeps
<1>6. CASE EndEnumeration
  BY <1>6, EndEnumerationKeeps
<1>7. CASE IlpOptimal \/ IlpInfeasible \/ IlpTimesOut \/ IlpFails
  BY <1>7, IlpKeeps
<1>8. CASE UNCHANGED allVars
  BY <1>8, SolvingStutter
<1> QED BY <1>1, <1>2, <1>3, <1>4, <1>5, <1>6, <1>7, <1>8 DEF SolvingNext, Stutter

-----------------------------------------------------------------------------
(* SolvingInv is invariant of the program as a whole: the stack of the     *)
(* enumeration holds what the entered nodes have pushed, level by level,   *)
(* and nothing on it lies before an entered node below it.                 *)
THEOREM SolvingInvariance == SolvingSpec => []SolvingInv
<1>1. SolvingInit => SolvingInv
  BY SolvingInitially
<1>2. SolvingInv /\ [SolvingNext]_allVars => SolvingInv'
  BY SolvingStep
<1> QED BY <1>1, <1>2, PTL DEF SolvingSpec

(* The entered nodes are a path of the layout from the root on whose       *)
(* characters are all different, and used_characters are these             *)
(* (sequence_enumeration_solver.cpp, whose flag is_active is all that is   *)
(* kept of the path).                                                      *)
THEOREM PathsAreEntered == SolvingSpec => []EnteredIsAPath
<1>1. SolvingInv => EnteredIsAPath
  <2> SUFFICES ASSUME SolvingInv, step = "enumerate"
               PROVE  LET path == PathOf(stack, entered)
                      IN  /\ Len(path) = Cardinality(entered)
                          /\ \A i \in DOMAIN path : path[i] \in Targets(IF i = 1 THEN TheRoot
                                                                        ELSE path[i - 1])
                          /\ used = {NodeLetter(n) : n \in entered} /\ Cardinality(used) = Len(path)
    BY DEF EnteredIsAPath, PathOf, PlacesOf, TheRoot
  <2>1. Ready /\ StackOK(stack, entered) /\ used = {NodeLetter(n) : n \in entered}
    BY DEF SolvingInv, Enumerating, Ready
  <2> DEFINE path == PathOf(stack, entered)
             size == Cardinality(entered)
  <2>2. /\ size \in Nat /\ path \in Seq(FlatNodes) /\ Len(path) = size
        /\ \A k \in 1..size : path[k] \in Targets(IF k = 1 THEN TheRoot ELSE path[k - 1])
    BY <2>1, EnteredPath
  <2>3. Cardinality(used) = size
    BY <2>1, PathLetters
  <2> HIDE DEF path, size
  <2>4. DOMAIN path = 1..size
    BY <2>2
  <2>5. /\ Len(path) = size
        /\ \A i \in DOMAIN path : path[i] \in Targets(IF i = 1 THEN TheRoot ELSE path[i - 1])
        /\ used = {NodeLetter(n) : n \in entered} /\ Cardinality(used) = Len(path)
    BY <2>1, <2>2, <2>3, <2>4
  <2> QED BY <2>5 DEF path, size
<1> QED BY <1>1, SolvingInvariance, PTL

(* The stack is never pushed beyond the room reserved for it, a node of    *)
(* each character on each level: the nodes that one node has pushed have   *)
(* different characters, and fewer than upper nodes are entered.           *)
THEOREM StackAlwaysFits == SolvingSpec => []StackFits
<1>1. SolvingInv => StackFits
  <2> SUFFICES ASSUME SolvingInv, step = "enumerate" PROVE Len(stack) <= Sigma * upper
    BY DEF StackFits, Room
  <2>1. /\ Ready /\ StackOK(stack, entered) /\ Cardinality(entered) <= lower /\ lower < upper
        /\ lower \in Int /\ upper \in Nat
    BY DEF SolvingInv, Enumerating, Ready
  <2>2. Cardinality(entered) \in Nat
    BY <2>1, EnteredPath
  <2>3. Cardinality(entered) < upper
    BY <2>1, <2>2
  <2> QED BY <2>1, <2>3, StackRoom
<1> QED BY <1>1, SolvingInvariance, PTL

(* What set_solution has gathered from the flags is, in the direction it   *)
(* was found in, a solution as long as the lower bound: matches that lie   *)
(* behind one another, with different characters.                          *)
THEOREM FoundSolutions == SolvingSpec => []FoundIsSolution
<1>1. SolvingInv => FoundIsSolution
  BY DEF SolvingInv, Enumerating, FoundIsSolution
<1> QED BY <1>1, SolvingInvariance, PTL

(* Whoever has found it, the heuristic, the enumeration or the integer     *)
(* program: if the MDD is laid out forwards, what solve hands on is a      *)
(* solution and the lower bound is its length.  Backwards it is not so:    *)
(* the heuristic's solution is reversed.                                   *)
THEOREM ForwardSolutionIsOne == SolvingSpec => [](parent.side = "forward" => SolutionIsOne)
<1>1. SolvingInv => (parent.side = "forward" => SolutionIsOne)
  BY DEF SolvingInv, Concluded, SolutionIsOne
<1> QED BY <1>1, SolvingInvariance, PTL

(* And the reversed heuristic's solution is the only wrong one: whatever   *)
(* else solve concludes with, in whichever direction, is a solution as     *)
(* long as the lower bound.                                                *)
THEOREM OtherwiseConcludesRight == SolvingSpec => ConcludesWithOne
<1>1. ASSUME SolvingInv, SolvingNext, step # "done", step' = "done", ~NothingFoundBackwards
      PROVE  solution' \in Solutions(strings) /\ Len(solution') = lower'
  <2>1. ~ReductionStep
    BY <1>1, ReductionKeeps
  <2>2. ~BeginEnumeration
    BY <1>1, BeginKeeps
  <2>3. ~LeaveNode
    BY <1>1, LeaveNodeKeeps
  <2>4. ~Stutter
    BY <1>1 DEF Stutter, allVars, mddVars
  <2>5. ASSUME strings' = strings, SolutionIsOne'
        PROVE  solution' \in Solutions(strings) /\ Len(solution') = lower'
    <3>1. Solutions(strings)' = Solutions(strings)
      BY <2>5 DEF Solutions
    <3> QED BY <1>1, <2>5, <3>1 DEF SolutionIsOne
  <2>6. CASE SolveClosed
    <3>1. SolutionIsOne' /\ strings' = strings
      BY <1>1, <2>6, SolveClosedKeeps DEF SolveClosed, solveFrame
    <3> QED BY <3>1, <2>5
  <2>7. CASE EnterNode
    <3>1. SolutionIsOne' /\ strings' = strings
      BY <1>1, <2>7, EnterNodeKeeps DEF EnterNode, solveFrame
    <3> QED BY <3>1, <2>5
  <2>8. CASE EndEnumeration
    <3>1. SolutionIsOne' /\ strings' = strings
      BY <1>1, <2>8, EndEnumerationKeeps DEF EndEnumeration, solveFrame
    <3> QED BY <3>1, <2>5
  <2>9. CASE IlpOptimal \/ IlpInfeasible \/ IlpTimesOut \/ IlpFails
    <3>1. SolutionIsOne' /\ strings' = strings
      BY <1>1, <2>9, IlpKeeps DEF IlpOptimal, IlpInfeasible, IlpTimesOut, IlpFails, solveFrame
    <3> QED BY <3>1, <2>5
  <2> QED BY <1>1, <2>1, <2>2, <2>3, <2>4, <2>6, <2>7, <2>8, <2>9 DEF SolvingNext
<1>2. SolvingInv /\ [SolvingNext]_allVars =>
         [step # "done" /\ step' = "done" /\ ~NothingFoundBackwards =>
             solution' \in Solutions(strings) /\ Len(solution') = lower']_allVars
  BY <1>1
<1> QED BY <1>2, SolvingInvariance, PTL DEF SolvingSpec, ConcludesWithOne

-----------------------------------------------------------------------------
(* The way of a longest solution through the layout, ahead of the walk.    *)

(* Every element of a sorted set has its place.                            *)
LEMMA SortedHas ==
    ASSUME NEW S, IsFiniteSet(S), NEW R, IsStrictOrder(S, R), NEW x \in S
    PROVE  \E k \in 1..Len(Sorted(S, R)) : Sorted(S, R)[k] = x
<1> DEFINE n == Cardinality(S)
           Rank(y) == Cardinality(Below(S, R, y))
           q == Sorted(S, R)
<1>1. n \in Nat /\ Len(q) = n
  BY SortedFacts
<1>2. /\ \A y \in S : Rank(y) \in 0..(n - 1)
      /\ \A y, z \in S : Rank(y) = Rank(z) => y = z
  BY Ranks
<1>3. \A y : Rank(y) = Cardinality({z \in S : <<z, y>> \in R})
  BY DEF Below
<1>4. q = [k \in 1..n |-> CHOOSE y \in S : Rank(y) = k - 1]
  BY <1>3 DEF Sorted
<1> HIDE DEF n, Rank, q
<1>5. Rank(x) \in 0..(n - 1)
  BY <1>2
<1> DEFINE k == Rank(x) + 1
<1>6. k \in 1..n /\ Rank(x) = k - 1
  BY <1>1, <1>5
<1> HIDE DEF k
<1>7. q[k] = CHOOSE y \in S : Rank(y) = k - 1
  BY <1>4, <1>6
<1>8. q[k] \in S /\ Rank(q[k]) = k - 1
  BY <1>6, <1>7
<1>9. q[k] = x
  BY <1>2, <1>6, <1>8
<1> QED BY <1>1, <1>6, <1>9 DEF q

(* A layout is a sequence of levels whose arcs are pairs.                  *)
FlatShape(flat) ==
    /\ DOMAIN flat = 1..Len(flat) /\ Len(flat) \in Nat
    /\ \A i \in DOMAIN flat : \A a \in flat[i].arcs : a = <<a[1], a[2]>>

(* The matches of a longest solution as they lie in the layout, where none *)
(* is passed over in favour of one whose character is not used already.    *)
LaidOut(W) ==
    /\ Thread(parent.side, opt, W)
    /\ FlatHas(shared.flat, W) /\ FlatSafe(shared.flat, parent.side, W)

(* The nodes of its first matches, and its next one: that is on the stack, *)
(* and the nodes that are entered below it are the first ones.             *)
FirstNodes(W, i) == {<<j, W[j]>> : j \in 2..i}

StillAhead(s, E, W) ==
    \E i \in 1..opt : \E p \in 1..Len(s) :
       /\ s[p] = <<i + 1, W[i + 1]>> /\ s[p] \notin E
       /\ {s[k] : k \in EnteredBelow(s, E, p)} = FirstNodes(W, i)

(* It stays ahead when nothing changes from its next match down.           *)
LEMMA AheadBelow ==
    ASSUME NEW s, NEW E, NEW W, NEW t, NEW F, NEW i \in 1..opt, NEW p \in 1..Len(s),
           Len(s) \in Nat, Len(t) \in Nat, p <= Len(t),
           s[p] = <<i + 1, W[i + 1]>>, s[p] \notin E,
           {s[k] : k \in EnteredBelow(s, E, p)} = FirstNodes(W, i),
           \A k \in 1..p : t[k] = s[k] /\ (s[k] \in F <=> s[k] \in E)
    PROVE  StillAhead(t, F, W)
<1>1. p \in 1..Len(t)
  OBVIOUS
<1>2. \A k \in 1..(p - 1) : k \in 1..p
  OBVIOUS
<1>3. t[p] = <<i + 1, W[i + 1]>> /\ t[p] \notin F
  OBVIOUS
<1>4. EnteredBelow(t, F, p) = EnteredBelow(s, E, p)
  BY <1>2 DEF EnteredBelow
<1>5. \A k \in EnteredBelow(s, E, p) : t[k] = s[k]
  BY <1>2 DEF EnteredBelow
<1>6. {t[k] : k \in EnteredBelow(t, F, p)} = {s[k] : k \in EnteredBelow(s, E, p)}
  BY <1>4, <1>5
<1> QED BY <1>1, <1>3, <1>6 DEF StillAhead

(* The matches of the way.                                                 *)
LEMMA LaidOutFacts ==
    ASSUME Ready, opt \in Nat, NEW W, LaidOut(W)
    PROVE  /\ W[1] = Source(parent.side)
           /\ \A i \in 2..(opt + 1) : W[i] \in Inner /\ <<i, W[i]>> \in FlatNodes
           /\ \A i, j \in 2..(opt + 1) : CharacterOf(W[i]) = CharacterOf(W[j]) => i = j
           /\ \A i \in 1..opt : <<i + 1, W[i + 1]>> \in Targets(<<i, W[i]>>)
           /\ <<1, W[1]>> = TheRoot
<1>1. /\ W[1] = Source(parent.side)
      /\ \A i \in 2..(opt + 1) : W[i] \in Inner
      /\ \A i, j \in 2..(opt + 1) : CharacterOf(W[i]) = CharacterOf(W[j]) => i = j
  BY DEF LaidOut, Thread
<1>2. Len(shared.flat) >= opt + 1 /\ \A i \in 1..opt : <<W[i], W[i + 1]>> \in shared.flat[i].arcs
  BY DEF LaidOut, FlatHas
<1>3. \A i \in 2..(opt + 1) : <<i, W[i]>> \in FlatNodes
  <2> TAKE i \in 2..(opt + 1)
  <2>1. W[i] \in Inner
    BY <1>1
  <2>2. i \in 2..Len(shared.flat)
    BY <1>2
  <2> QED BY <2>1, <2>2 DEF FlatNodes
<1>4. ASSUME NEW i \in 1..opt
      PROVE  <<i + 1, W[i + 1]>> \in Targets(<<i, W[i]>>)
  <2> DEFINE a == <<W[i], W[i + 1]>>
  <2>1. a \in shared.flat[i].arcs /\ a[1] = W[i] /\ a[2] = W[i + 1]
    BY <1>2
  <2> HIDE DEF a
  <2>2. <<i + 1, a[2]>> \in {<<i + 1, b[2]>> : b \in {c \in shared.flat[i].arcs : c[1] = W[i]}}
    BY <2>1
  <2>3. Targets(<<i, W[i]>>) = {<<i + 1, b[2]>> : b \in {c \in shared.flat[i].arcs : c[1] = W[i]}}
    BY DEF Targets
  <2> QED BY <2>1, <2>2, <2>3
<1>5. <<1, W[1]>> = TheRoot
  BY <1>1 DEF TheRoot
<1> QED BY <1>1, <1>3, <1>4, <1>5

(* What is pushed before another successor, not farther than it and of     *)
(* another character, is nearer.                                           *)
LEMMA PrecedingIsNearer ==
    ASSUME strings \in Inputs, parent.side \in Directions, NEW u, NEW v, u[2] \in Inner, v[2] \in Inner,
           Precedes(u, v), NodePosition(u, 2) <= NodePosition(v, 2), NodeLetter(u) # NodeLetter(v)
    PROVE  Nearer(parent.side, u[2], v[2])
<1>1. /\ u[2][1] \in Int /\ u[2][2] \in Int /\ v[2][1] \in Int /\ v[2][2] \in Int
      /\ Leaf[1] \in Int /\ Leaf[2] \in Int
  BY InnerFacts, InputFacts DEF Leaf, Size1, Size2
<1>2. u[2][1] # v[2][1]
  BY DEF NodeLetter, CharacterOf
<1>3. u[2][2] # v[2][2]
  BY InnerFacts DEF NodeLetter
<1>4. NodePosition(u, 1) # NodePosition(v, 1)
  BY <1>1, <1>2 DEF NodePosition, Position
<1>5. NodePosition(u, 2) # NodePosition(v, 2)
  BY <1>1, <1>3 DEF NodePosition, Position
<1>6. NodePosition(u, 1) \in Int /\ NodePosition(v, 1) \in Int /\ NodePosition(u, 2) \in Int /\ NodePosition(v, 2) \in Int
  BY <1>1 DEF NodePosition, Position
<1>7. NodePosition(u, 1) < NodePosition(v, 1)
  BY <1>4 DEF Precedes
<1>8. NodePosition(u, 2) < NodePosition(v, 2)
  BY <1>5, <1>6
<1> QED BY <1>7, <1>8 DEF NodePosition, Nearer

(* The next match of the way is pushed.                                    *)
LEMMA NextIsPushed ==
    ASSUME Ready, FlatShape(shared.flat), opt \in Nat, NEW W, LaidOut(W), NEW i \in 1..opt
    PROVE  <<i + 1, W[i + 1]>> \in Pushed(<<i, W[i]>>, Used(W, i))
<1> DEFINE n == <<i, W[i]>>
           v == <<i + 1, W[i + 1]>>
           unused == {t \in Targets(n) : NodeLetter(t) \notin Used(W, i)}
<1>1. /\ v \in Targets(n) /\ n \in FlatNodes \cup {TheRoot} /\ W[i + 1] \in Inner
      /\ \A k, j \in 2..(opt + 1) : CharacterOf(W[k]) = CharacterOf(W[j]) => k = j
  <2>1. i = 1 \/ i \in 2..(opt + 1)
    OBVIOUS
  <2>2. i + 1 \in 2..(opt + 1)
    OBVIOUS
  <2> QED BY <2>1, <2>2, LaidOutFacts
<1>2. NodeLetter(v) \notin Used(W, i)
  <2> SUFFICES ASSUME NEW j \in 2..i, CharacterOf(W[i + 1]) = CharacterOf(W[j])
               PROVE  FALSE
    BY DEF Used, NodeLetter
  <2>1. i + 1 \in 2..(opt + 1) /\ j \in 2..(opt + 1)
    OBVIOUS
  <2>2. i + 1 = j
    BY <1>1, <2>1
  <2> QED BY <2>2
<1>3. v \in unused
  BY <1>1, <1>2
<1>4. ASSUME NEW u \in unused, Precedes(u, v), NodePosition(u, 2) <= NodePosition(v, 2)
      PROVE  FALSE
  <2>1. u \in Targets(n) /\ NodeLetter(u) \notin Used(W, i)
    OBVIOUS
  <2>2. u[2] \in Inner /\ v[2] \in Inner /\ v[2] = W[i + 1]
    BY <1>1, <2>1, TargetFacts
  <2>3. NodeLetter(u) # NodeLetter(v)
    <3> SUFFICES ASSUME NodeLetter(u) = NodeLetter(v)
                 PROVE  FALSE
      OBVIOUS
    <3>1. u = v
      BY <1>1, <2>1, TargetFacts
    <3>2. ~Precedes(v, v)
      <4>1. NodePosition(v, 1) \in Int /\ NodePosition(v, 2) \in Int
        BY <1>1, InnerFacts, InputFacts DEF Leaf, Size1, Size2, NodePosition, Position, Ready
      <4> HIDE DEF v
      <4> QED BY <4>1 DEF Precedes
    <3> QED BY <1>4, <3>1, <3>2
  <2>4. Nearer(parent.side, u[2], W[i + 1])
    <3> HIDE DEF v, n
    <3> QED BY <1>4, <2>2, <2>3, PrecedingIsNearer DEF Ready
  <2>5. <<W[i], u[2]>> \in shared.flat[i].arcs
    <3>1. Targets(n) = {<<i + 1, b[2]>> : b \in {c \in shared.flat[i].arcs : c[1] = W[i]}}
      BY DEF Targets
    <3>2. PICK b \in shared.flat[i].arcs : b[1] = W[i] /\ u = <<i + 1, b[2]>>
      BY <2>1, <3>1
    <3>3. b = <<b[1], b[2]>>
      <4>1. Len(shared.flat) >= opt + 1
        BY DEF LaidOut, FlatHas
      <4>2. i \in DOMAIN shared.flat
        BY <4>1 DEF FlatShape
      <4> QED BY <4>2, <3>2 DEF FlatShape
    <3> QED BY <3>2, <3>3
  <2>6. CharacterOf(u[2]) \in Used(W, i)
    BY <2>4, <2>5 DEF LaidOut, FlatSafe
  <2> QED BY <2>1, <2>6 DEF NodeLetter
<1>5. Pushed(n, Used(W, i)) = {t \in unused : ~\E u \in unused : Precedes(u, t) /\ NodePosition(u, 2) <= NodePosition(t, 2)}
  BY DEF Pushed
<1> HIDE DEF v, n, unused
<1>6. v \in Pushed(n, Used(W, i))
  BY <1>3, <1>4, <1>5
<1> QED BY <1>6 DEF v, n

(* All that is entered is below the node on top, if that is not.           *)
LEMMA EnteredIsBelowTop ==
    ASSUME Ready, NEW s, NEW E, StackOK(s, E), Len(s) > 0, s[Len(s)] \notin E
    PROVE  /\ {s[k] : k \in EnteredBelow(s, E, Len(s))} = E
           /\ Cardinality(EnteredBelow(s, E, Len(s))) = Cardinality(E)
<1> DEFINE n == Len(s)
           B == EnteredBelow(s, E, n)
<1>1. /\ s \in Seq(FlatNodes) /\ n \in Nat /\ DOMAIN s = 1..n
      /\ \A i, j \in 1..n : s[i] = s[j] => i = j
      /\ E \subseteq {s[i] : i \in 1..n}
  BY DEF StackOK
<1>2. \A k : k \in B <=> k \in 1..n /\ s[k] \in E
  <2> TAKE k
  <2>1. k \in B <=> k \in 1..(n - 1) /\ s[k] \in E
    BY DEF EnteredBelow
  <2>2. k \in 1..n <=> k \in 1..(n - 1) \/ k = n
    BY <1>1
  <2> QED BY <2>1, <2>2
<1>3. \A k \in B : s[k] \in E
  BY <1>2
<1>4. \A x \in E : \E k \in B : s[k] = x
  BY <1>1, <1>2
<1>5. \A k, l \in B : s[k] = s[l] => k = l
  BY <1>1, <1>2
<1>6. {s[k] : k \in B} = E
  BY <1>3, <1>4
<1>7. IsFiniteSet(B)
  <2>1. B \subseteq 1..n /\ IsFiniteSet(1..n)
    BY <1>1, <1>2, FS_Interval
  <2> QED BY <2>1, FS_Subset
<1> HIDE DEF B
<1> DEFINE f == [k \in B |-> s[k]]
<1>8. f \in Bijection(B, E)
  <2>1. f \in [B -> E]
    BY <1>3
  <2>2. \A k, l \in B : f[k] = f[l] => k = l
    BY <1>5
  <2>3. \A x \in E : \E k \in B : f[k] = x
    BY <1>4
  <2> HIDE DEF f
  <2> QED BY <2>1, <2>2, <2>3 DEF Bijection, Injection, IsInjective, Surjection
<1>9. Cardinality(B) = Cardinality(E)
  <2> HIDE DEF f
  <2> QED BY <1>7, <1>8, FS_Bijection DEF ExistsBijection
<1> QED BY <1>6, <1>9 DEF B

(* The nodes of one more match.                                            *)
LEMMA FirstNodesGrow ==
    ASSUME NEW W, NEW i \in Nat \ {0}
    PROVE  /\ FirstNodes(W, i + 1) = FirstNodes(W, i) \cup {<<i + 1, W[i + 1]>>}
           /\ \A x \in FirstNodes(W, i) : x[1] <= i
           /\ {NodeLetter(x) : x \in FirstNodes(W, i)} = Used(W, i)
<1>1. \A j : j \in 2..(i + 1) <=> j \in 2..i \/ j = i + 1
  OBVIOUS
<1>2. FirstNodes(W, i + 1) = FirstNodes(W, i) \cup {<<i + 1, W[i + 1]>>}
  BY <1>1 DEF FirstNodes
<1>3. \A x \in FirstNodes(W, i) : x[1] <= i
  BY DEF FirstNodes
<1>4. {NodeLetter(x) : x \in FirstNodes(W, i)} = Used(W, i)
  <2>1. \A j : NodeLetter(<<j, W[j]>>) = CharacterOf(W[j])
    BY DEF NodeLetter
  <2>2. \A x \in FirstNodes(W, i) : NodeLetter(x) \in Used(W, i)
    BY <2>1 DEF FirstNodes, Used
  <2>3. \A c \in Used(W, i) : \E x \in FirstNodes(W, i) : NodeLetter(x) = c
    BY <2>1 DEF FirstNodes, Used
  <2> QED BY <2>2, <2>3
<1> QED BY <1>2, <1>3, <1>4

(* The next match of the way is ahead still when the node on top is        *)
(* entered: if that is itself the next one, the one behind it is pushed.   *)
LEMMA EnterAhead ==
    ASSUME Ready, FlatShape(shared.flat), opt \in Nat, NEW W, LaidOut(W),
           NEW s, NEW E, StackOK(s, E), Len(s) > 0, s[Len(s)] \notin E, StillAhead(s, E, W),
           Cardinality(E) + 1 < opt,
           NEW q, StackOK(s \o q, E \cup {s[Len(s)]}), Len(q) \in Nat, q \in Seq(FlatNodes),
           \A x \in Pushed(s[Len(s)], {NodeLetter(y) : y \in E \cup {s[Len(s)]}}) : \E k \in 1..Len(q) : q[k] = x
    PROVE  StillAhead(s \o q, E \cup {s[Len(s)]}, W)
<1> DEFINE n == Len(s)
           F == E \cup {s[n]}
           t == s \o q
<1>1. /\ s \in Seq(FlatNodes) /\ n \in Nat /\ n \in 1..n /\ DOMAIN s = 1..n
      /\ \A i, j \in 1..n : s[i] = s[j] => i = j
      /\ \A i \in 1..n : s[i][1] = Cardinality(EnteredBelow(s, E, i)) + 2
      /\ E \subseteq {s[i] : i \in 1..n}
  BY DEF StackOK
<1>2. /\ Len(t) \in Nat /\ Len(t) = n + Len(q)
      /\ \A k \in 1..n : t[k] = s[k]
      /\ \A k \in 1..Len(q) : t[n + k] = q[k]
  BY <1>1
<1>3. PICK i \in 1..opt, p \in 1..n :
         /\ s[p] = <<i + 1, W[i + 1]>> /\ s[p] \notin E
         /\ {s[k] : k \in EnteredBelow(s, E, p)} = FirstNodes(W, i)
  BY DEF StillAhead
<1>4. CASE p # n
  <2>1. p \in 1..Len(s) /\ p <= Len(t) /\ \A k \in 1..p : k \in 1..n
    BY <1>1, <1>2, <1>3
  <2>2. \A k \in 1..p : k # n
    <3>1. n \in Nat /\ p \in 1..n
      BY <1>1
    <3> HIDE DEF n
    <3> QED BY <3>1, <1>4
  <2>3. \A k \in 1..p : s[k] # s[n]
    BY <1>1, <2>1, <2>2
  <2>4. \A k \in 1..p : t[k] = s[k] /\ (s[k] \in F <=> s[k] \in E)
    BY <1>2, <2>1, <2>3
  <2>5. Len(s) \in Nat /\ Len(t) \in Nat
    BY <1>1, <1>2
  <2> HIDE DEF t, F, n
  <2>6. StillAhead(t, F, W)
    BY <1>3, <2>1, <2>4, <2>5, AheadBelow
  <2> QED BY <2>6 DEF t, F, n
<1>5. CASE p = n
  <2>1. E = FirstNodes(W, i) /\ s[n] = <<i + 1, W[i + 1]>> /\ Cardinality(EnteredBelow(s, E, n)) = Cardinality(E)
    <3>1. /\ {s[k] : k \in EnteredBelow(s, E, n)} = E
          /\ Cardinality(EnteredBelow(s, E, n)) = Cardinality(E)
      BY EnteredIsBelowTop
    <3>2. {s[k] : k \in EnteredBelow(s, E, n)} = FirstNodes(W, i)
      BY <1>3, <1>5
    <3> QED BY <1>3, <1>5, <3>1, <3>2
  <2>2. i < opt
    <3>1. s[n][1] = Cardinality(EnteredBelow(s, E, n)) + 2
      BY <1>1
    <3>2. i + 1 = Cardinality(E) + 2
      BY <2>1, <3>1
    <3>3. Cardinality(E) \in Nat
      BY EnteredPath
    <3> QED BY <3>2, <3>3
  <2> DEFINE v == <<(i + 1) + 1, W[(i + 1) + 1]>>
  <2>3. i + 1 \in 1..opt /\ i \in Nat \ {0} /\ i + 1 \in Nat \ {0}
    BY <2>2
  <2>4. /\ FirstNodes(W, i + 1) = F
        /\ \A x \in F : x[1] <= i + 1
        /\ {NodeLetter(x) : x \in F} = Used(W, i + 1)
    BY <2>1, <2>3, FirstNodesGrow
  <2>5. v \in Pushed(<<i + 1, W[i + 1]>>, Used(W, i + 1))
    BY <2>3, NextIsPushed
  <2>6. PICK k \in 1..Len(q) : q[k] = v
    BY <2>1, <2>4, <2>5
  <2>7. n + k \in 1..Len(t) /\ t[n + k] = v
    BY <1>1, <1>2, <2>6
  <2>8. t[n + k] \notin F
    <3>1. v[1] = i + 1 + 1
      OBVIOUS
    <3> HIDE DEF F, v
    <3>2. v \notin F
      BY <2>3, <2>4, <3>1
    <3> QED BY <2>7, <3>2
  <2>9. {t[j] : j \in EnteredBelow(t, F, n + k)} = F
    <3>1. \A j \in EnteredBelow(t, F, n + k) : t[j] \in F
      BY DEF EnteredBelow
    <3>2. ASSUME NEW x \in F
          PROVE  \E j \in EnteredBelow(t, F, n + k) : t[j] = x
      <4>1. PICK j \in 1..n : s[j] = x
        BY <1>1
      <4>2. j \in 1..(n + k - 1) /\ t[j] = x
        BY <1>1, <1>2, <4>1, <2>6
      <4>3. j \in EnteredBelow(t, F, n + k)
        BY <3>2, <4>2 DEF EnteredBelow
      <4> QED BY <4>2, <4>3
    <3> HIDE DEF F, t
    <3> QED BY <3>1, <3>2
  <2> HIDE DEF F, t, n
  <2>10. StillAhead(t, F, W)
    BY <2>3, <2>4, <2>7, <2>8, <2>9 DEF StillAhead
  <2> QED BY <2>10 DEF F, t, n
<1> QED BY <1>4, <1>5

(* It is ahead still when a node is left.                                  *)
LEMMA LeaveAhead ==
    ASSUME Ready, NEW W, NEW s, NEW E, StackOK(s, E), Len(s) > 0, s[Len(s)] \in E, StillAhead(s, E, W)
    PROVE  StillAhead(Front(s), E \ {s[Len(s)]}, W)
<1> DEFINE n == Len(s)
           F == E \ {s[n]}
           t == Front(s)
<1>1. /\ s \in Seq(FlatNodes) /\ n \in Nat /\ n \in 1..n /\ DOMAIN s = 1..n
      /\ \A i, j \in 1..n : s[i] = s[j] => i = j
  BY DEF StackOK
<1>2. Len(t) = n - 1 /\ Len(t) \in Nat /\ \A k \in 1..(n - 1) : t[k] = s[k]
  BY <1>1 DEF Front
<1>3. PICK i \in 1..opt, p \in 1..n :
         /\ s[p] = <<i + 1, W[i + 1]>> /\ s[p] \notin E
         /\ {s[k] : k \in EnteredBelow(s, E, p)} = FirstNodes(W, i)
  BY DEF StillAhead
<1>4. p # n
  BY <1>3
<1>5. p <= n - 1 /\ \A k \in 1..p : k \in 1..(n - 1) /\ k \in 1..n /\ k # n
  <2>1. n \in Nat /\ p \in 1..n
    BY <1>1
  <2> HIDE DEF n
  <2> QED BY <2>1, <1>4
<1>6. \A k \in 1..p : s[k] # s[n]
  BY <1>1, <1>5
<1>7. \A k \in 1..p : t[k] = s[k] /\ (s[k] \in F <=> s[k] \in E)
  BY <1>2, <1>5, <1>6
<1>8. p <= Len(t) /\ Len(s) \in Nat
  BY <1>1, <1>2, <1>5
<1> HIDE DEF t, F
<1>9. StillAhead(t, F, W)
  BY <1>2, <1>3, <1>7, <1>8, AheadBelow
<1> QED BY <1>9 DEF t, F

(* At the beginning its first match is ahead.                              *)
LEMMA BeginAhead ==
    ASSUME Ready, opt \in Nat \ {0}, NEW W, LaidOut(W),
           NEW q, Len(q) \in Nat, \A x \in Targets(TheRoot) : \E k \in 1..Len(q) : q[k] = x
    PROVE  StillAhead(q, {}, W)
<1>1. 1 \in 1..opt /\ 1 + 1 = 2 /\ opt \in Nat
  OBVIOUS
<1>2. <<1, W[1]>> = TheRoot
  BY <1>1, LaidOutFacts
<1>3. <<1 + 1, W[1 + 1]>> \in Targets(<<1, W[1]>>)
  BY <1>1, LaidOutFacts
<1>4. PICK k \in 1..Len(q) : q[k] = <<1 + 1, W[1 + 1]>>
  BY <1>2, <1>3
<1>5. EnteredBelow(q, {}, k) = {} /\ FirstNodes(W, 1) = {}
  BY DEF EnteredBelow, FirstNodes
<1>6. {q[j] : j \in EnteredBelow(q, {}, k)} = FirstNodes(W, 1)
  BY <1>5
<1>7. q[k] \notin {}
  OBVIOUS
<1> QED BY <1>1, <1>4, <1>6, <1>7 DEF StillAhead

(* No solution is longer than the longest one.                             *)
LEMMA SolutionsNotLonger ==
    ASSUME strings \in Inputs, OptIsLongest, NEW w \in Solutions(strings)
    PROVE  Len(w) \in Nat /\ Len(w) <= opt
<1> DEFINE S == {Len(v) : v \in Solutions(strings)}
<1>1. \A v \in Solutions(strings) : Len(v) \in 0..Sigma
  BY SolutionFacts
<1>2. Sigma \in Nat
  BY CharactersFinite
<1>3. S \subseteq Int /\ Len(w) \in S /\ \A x \in S : x <= Sigma
  BY <1>1, <1>2
<1>4. opt = Max(S)
  BY DEF OptIsLongest
<1> HIDE DEF S
<1>5. \A x \in S : x <= Max(S)
  <2>1. S \subseteq Int /\ S # {} /\ Sigma \in Int
    BY <1>2, <1>3
  <2>2. \A x \in S : x <= Sigma
    BY <1>3
  <2> QED BY <2>1, <2>2, MaxOfBounded
<1> QED BY <1>1, <1>3, <1>4, <1>5

(* What Conclude makes of the bounds.                                      *)
LEMMA ConclusionIsRight ==
    ASSUME NEW l \in Nat, NEW u \in Int, NEW w, NEW ok \in BOOLEAN, upper \in Int, opt \in Nat,
           Conclude(l, u, w, ok), opt' = opt, l <= opt,
           ok => l = opt /\ (upper <= l \/ u <= l),
           ~ok => l = opt \/ (upper >= opt /\ u >= opt)
    PROVE  SolvedIsLongest' /\ UnsolvedIsBounded'
<1> DEFINE m == Min({upper, u})
<1>1. m \in {upper, u} /\ m <= upper /\ m <= u /\ m \in Int
  BY MinOfTwo
<1>2. upper' = Max({l, m}) /\ lower' = l /\ valid' = ok
  BY DEF Conclude
<1> HIDE DEF m
<1>3. Max({l, m}) \in {l, m} /\ Max({l, m}) >= l /\ Max({l, m}) >= m
  BY <1>1, MaxOfTwo
<1>4. CASE ok
  <2>1. m <= l
    BY <1>1, <1>4
  <2>2. upper' = l
    BY <1>1, <1>2, <1>3, <2>1
  <2> QED BY <1>2, <1>4, <2>2 DEF SolvedIsLongest, UnsolvedIsBounded
<1>5. CASE ~ok
  <2>1. upper' >= opt
    BY <1>1, <1>2, <1>3, <1>5
  <2> QED BY <1>2, <1>5, <2>1 DEF SolvedIsLongest, UnsolvedIsBounded
<1> QED BY <1>4, <1>5

(* All sets of active matches with different characters that do not cross  *)
(* are selections.                                                         *)
LEMMA SelectionsHave ==
    ASSUME strings \in Inputs, active \subseteq Inner, NEW X, X \subseteq active,
           \A s, t \in X : s # t => CharacterOf(s) # CharacterOf(t) /\ ~Crossing(s, t)
    PROVE  X \in Selections
<1>1. PICK chosen : /\ Selections = chosen[Sigma]
                    /\ \A c \in 0..Sigma : chosen[c] = IF c = 0 THEN {{}} ELSE Added(chosen[c - 1], c)
  BY SelectionsUnfold
<1>2. Sigma \in Nat
  BY CharactersFinite
<1>3. \A m \in X : CharacterOf(m) \in 0..(Sigma - 1)
  BY InnerFacts DEF Characters
<1> DEFINE Until(c) == {m \in X : CharacterOf(m) < c}
           Bad == {c \in 0..Sigma : Until(c) \notin chosen[c]}
<1>4. Bad = {}
  <2> SUFFICES ASSUME Bad # {} PROVE FALSE
    OBVIOUS
  <2>1. Bad \subseteq Nat
    OBVIOUS
  <2> HIDE DEF Bad
  <2>2. PICK c \in Bad : \A b \in Bad : c <= b
    BY <2>1, LeastNumber
  <2>3. c \in 0..Sigma /\ Until(c) \notin chosen[c]
    BY <2>2 DEF Bad
  <2>4. CASE c = 0
    <3>1. Until(0) = {}
      BY <1>3
    <3>2. chosen[0] = {{}}
      BY <1>1, <1>2
    <3> QED BY <2>3, <2>4, <3>1, <3>2
  <2>5. CASE c # 0
    <3>1. c - 1 \in 0..Sigma /\ c - 1 < c
      BY <1>2, <2>3, <2>5
    <3>2. c - 1 \notin Bad
      BY <2>2, <2>3, <3>1
    <3>3. Until(c - 1) \in chosen[c - 1]
      BY <3>1, <3>2 DEF Bad
    <3>4. chosen[c] = Added(chosen[c - 1], c)
      BY <1>1, <2>3, <2>5
    <3>5. \A m \in X : CharacterOf(m) < c <=> CharacterOf(m) < c - 1 \/ CharacterOf(m) = c - 1
      <4> TAKE m \in X
      <4>1. CharacterOf(m) \in Int
        BY <1>3
      <4> QED BY <4>1, <2>3
    <3>6. CASE \E m \in X : CharacterOf(m) = c - 1
      <4>1. PICK m \in X : CharacterOf(m) = c - 1
        BY <3>6
      <4>2. \A s \in X : CharacterOf(s) = c - 1 => s = m
        BY <4>1
      <4>3. Until(c) = Until(c - 1) \cup {m}
        BY <3>5, <4>1, <4>2
      <4>4. \A s \in Until(c - 1) : ~Crossing(s, m)
        <5> SUFFICES ASSUME NEW s \in Until(c - 1) PROVE ~Crossing(s, m)
          OBVIOUS
        <5>1. s \in X /\ CharacterOf(s) < c - 1
          OBVIOUS
        <5>2. CharacterOf(s) # c - 1
          BY <5>1, <2>3, <1>3
        <5>3. s # m
          BY <4>1, <5>2
        <5> QED BY <5>1, <5>3
      <4> DEFINE Y == Until(c - 1)
                 y == <<Y, m>>
      <4>5. m \in {n \in active : CharacterOf(n) = c - 1}
        BY <4>1
      <4> HIDE DEF Until
      <4>6. y \in chosen[c - 1] \X {n \in active : CharacterOf(n) = c - 1} /\ y[1] = Y /\ y[2] = m
        BY <3>3, <4>5
      <4>7. \A s \in y[1] : ~Crossing(s, y[2])
        BY <4>4, <4>6
      <4> HIDE DEF y
      <4>8. y[1] \cup {y[2]} \in Added(chosen[c - 1], c)
        BY <4>6, <4>7 DEF Added
      <4>9. Until(c) = y[1] \cup {y[2]}
        BY <4>3, <4>6
      <4> QED BY <4>8, <4>9, <2>3, <3>4
    <3>7. CASE ~\E m \in X : CharacterOf(m) = c - 1
      <4>1. Until(c) = Until(c - 1)
        BY <3>5, <3>7
      <4> HIDE DEF Until
      <4>2. Until(c) \in Added(chosen[c - 1], c)
        BY <4>1, <3>3 DEF Added
      <4> QED BY <4>2, <2>3, <3>4
    <3> QED BY <3>6, <3>7
  <2> QED BY <2>4, <2>5
<1>5. Until(Sigma) = X
  BY <1>2, <1>3
<1>6. Until(Sigma) \in chosen[Sigma]
  BY <1>2, <1>4
<1> QED BY <1>1, <1>5, <1>6

(* What is laid out is active.                                             *)
LEMMA LaidIsActive ==
    ASSUME opt \in Nat, FlatShape(shared.flat), NEW W, LaidOut(W), NEW i \in 2..(opt + 1), W[i] \in Inner
    PROVE  W[i] \in MatchesOfLayout(shared.flat)
<1> DEFINE n == Len(shared.flat)
           S == {j \in 1..n : W[i] \in shared.flat[j].matches}
<1>1. n \in Nat /\ DOMAIN shared.flat = 1..n
  BY DEF FlatShape
<1>2. i \in S
  <2>1. n >= opt + 1 /\ \A j \in 1..(opt + 1) : W[j] \in shared.flat[j].matches
    BY DEF LaidOut, FlatHas
  <2>2. i \in 1..(opt + 1) /\ i \in 1..n
    BY <1>1, <2>1
  <2> QED BY <2>1, <2>2
<1>3. S \subseteq Int /\ S # {} /\ \A x \in S : x <= n
  BY <1>1, <1>2
<1> HIDE DEF S, n
<1>4. Max(S) \in S /\ \A x \in S : x <= Max(S)
  <2>1. S \subseteq Int /\ S # {} /\ n \in Int
    BY <1>1, <1>3
  <2>2. \A x \in S : x <= n
    BY <1>3
  <2> QED BY <2>1, <2>2, MaxOfBounded
<1>5. PICK k \in S : \A x \in S : x <= k
  BY <1>4
<1>6. k \in 1..n /\ W[i] \in shared.flat[k].matches
  BY <1>5 DEF S
<1>7. \A j \in DOMAIN shared.flat : W[i] \in shared.flat[j].matches => j <= k
  BY <1>1, <1>5 DEF S
<1> QED BY <1>1, <1>6, <1>7 DEF MatchesOfLayout, n

(* As a set they are a selection as large as the solution is long.         *)
LEMMA WayIsSelected ==
    ASSUME strings \in Inputs, parent.side \in Directions, opt \in Nat, FlatShape(shared.flat),
           active = MatchesOfLayout(shared.flat), active \subseteq Inner, NEW W, LaidOut(W)
    PROVE  \E X \in Selections : Cardinality(X) = opt
<1> DEFINE X == ChainOf(W, opt)
<1>1. /\ \A i \in 2..(opt + 1) : W[i] \in Inner
      /\ \A i, j \in 2..(opt + 1) : CharacterOf(W[i]) = CharacterOf(W[j]) => i = j
      /\ Thread(parent.side, opt, W)
  BY DEF LaidOut, Thread
<1>2. \A x : x \in X <=> \E i \in 2..(opt + 1) : x = W[i]
  BY DEF ChainOf
<1>3. \A i \in 2..(opt + 1) : W[i] \in active
  BY <1>1, LaidIsActive
<1>4. X \in Chains
  BY <1>1, ThreadChain
<1> HIDE DEF X
<1>5. X \subseteq active
  BY <1>2, <1>3
<1>6. ASSUME NEW s \in X, NEW t \in X, s # t
      PROVE  CharacterOf(s) # CharacterOf(t) /\ ~Crossing(s, t)
  <2>1. /\ CharacterOf(s) # CharacterOf(t)
        /\ Before("forward", s, t) \/ Before("forward", t, s)
    BY <1>4, <1>6 DEF Chains
  <2>2. s[1] \in Int /\ s[2] \in Int /\ t[1] \in Int /\ t[2] \in Int
    BY <1>5, InnerFacts, InputFacts DEF Size1, Size2
  <2>3. (s[1] < t[1] /\ s[2] < t[2]) \/ (t[1] < s[1] /\ t[2] < s[2])
    BY <2>1 DEF Before, Ahead
  <2>4. ~Crossing(s, t)
    BY <2>2, <2>3 DEF Crossing
  <2> QED BY <2>1, <2>4
<1>7. X \in Selections
  BY <1>5, <1>6, SelectionsHave
<1> DEFINE f == [i \in 2..(opt + 1) |-> W[i]]
<1>8. f \in Bijection(2..(opt + 1), X)
  <2>1. f \in [2..(opt + 1) -> X]
    BY <1>2
  <2>2. \A i, j \in 2..(opt + 1) : f[i] = f[j] => i = j
    BY <1>1
  <2>3. \A x \in X : \E i \in 2..(opt + 1) : f[i] = x
    BY <1>2
  <2> HIDE DEF f
  <2> QED BY <2>1, <2>2, <2>3 DEF Bijection, Injection, IsInjective, Surjection
<1>9. IsFiniteSet(2..(opt + 1)) /\ Cardinality(2..(opt + 1)) = opt
  <2>1. 2 \in Int /\ opt + 1 \in Int
    OBVIOUS
  <2>2. IsFiniteSet(2..(opt + 1)) /\ Cardinality(2..(opt + 1)) = IF 2 > opt + 1 THEN 0 ELSE (opt + 1) - 2 + 1
    BY <2>1, FS_Interval
  <2> QED BY <2>2
<1>10. Cardinality(X) = opt
  <2> HIDE DEF f
  <2> QED BY <1>8, <1>9, FS_Bijection DEF ExistsBijection
<1> QED BY <1>7, <1>10

(* What is known of the longest solution on the way to the end: it is left *)
(* until the reduction has ended, what is laid out then is active, and the *)
(* walk has it ahead until it has found one as long.                       *)
AheadPart ==
    /\ OptIsLongest
    /\ lower < opt => upper >= opt /\ \E W : LaidOut(W) /\ StillAhead(stack, entered, W)

SearchInv ==
    /\ FlatShape(shared.flat)
    /\ step \notin {"enumerate", "done"} => SoundInv
    /\ step = "solver" => active = MatchesOfLayout(shared.flat)
    /\ step = "enumerate" => AheadPart
    /\ step = "done" => SolvedIsLongest /\ UnsolvedIsBounded

(* All of this speaks of what solving leaves alone.                        *)
LEMMA LaidOutUnchanged ==
    ASSUME UNCHANGED solveFrame
    PROVE  /\ strings' = strings /\ opt' = opt /\ shared' = shared /\ parent' = parent
           /\ \A W : LaidOut(W)' <=> LaidOut(W)
           /\ \A s, E, W : StillAhead(s, E, W)' <=> StillAhead(s, E, W)
           /\ OptIsLongest' <=> OptIsLongest
           /\ FlatShape(shared.flat)' <=> FlatShape(shared.flat)
<1>1. strings' = strings /\ parent' = parent /\ shared' = shared /\ opt' = opt
  BY DEF solveFrame, parentVars
<1>2. Inner' = Inner /\ Nodes' = Nodes
  BY <1>1, StringsUnchanged
<1>3. /\ \A m : CharacterOf(m)' = CharacterOf(m)
      /\ \A d : Source(d)' = Source(d)
      /\ \A d, x, y : Before(d, x, y)' <=> Before(d, x, y)
      /\ \A d, m, i : Position(d, m, i)' = Position(d, m, i)
  BY <1>1 DEF CharacterOf, Source, Root, Leaf, Before, Ahead, Position
<1>4. \A d, k, W : Thread(d, k, W)' <=> Thread(d, k, W)
  BY <1>2, <1>3 DEF Thread
<1>5. /\ \A flat, W : FlatHas(flat, W)' <=> FlatHas(flat, W)
      /\ \A flat, d, W : FlatSafe(flat, d, W)' <=> FlatSafe(flat, d, W)
  <2>1. \A flat, W : FlatHas(flat, W)' <=> FlatHas(flat, W)
    BY <1>1 DEF FlatHas
  <2>2. \A W, i : Used(W, i)' = Used(W, i)
    BY <1>3 DEF Used
  <2>3. \A d, s, t : Nearer(d, s, t)' <=> Nearer(d, s, t)
    BY <1>3 DEF Nearer
  <2>4. \A flat, d, W : FlatSafe(flat, d, W)' <=> FlatSafe(flat, d, W)
    BY <1>1, <1>3, <2>2, <2>3 DEF FlatSafe
  <2> QED BY <2>1, <2>4
<1>6. \A W : LaidOut(W)' <=> LaidOut(W)
  BY <1>1, <1>4, <1>5 DEF LaidOut
<1>7. \A s, E, W : StillAhead(s, E, W)' <=> StillAhead(s, E, W)
  BY <1>1 DEF StillAhead, EnteredBelow, FirstNodes
<1>8. OptIsLongest' <=> OptIsLongest
  BY <1>1 DEF OptIsLongest, Solutions, IsCommon
<1>9. FlatShape(shared.flat)' <=> FlatShape(shared.flat)
  BY <1>1 DEF FlatShape
<1> QED BY <1>1, <1>6, <1>7, <1>8, <1>9

(* What is written is a layout.                                            *)
LEMMA LaidShape ==
    ASSUME NEW M, NEW n \in Nat, DOMAIN M.levels = 1..n
    PROVE  FlatShape(Laid(M)) /\ \A flat : FlatShape(StillInFlat(flat, M))
<1> DEFINE now == Laid(M)
<1>1. /\ DOMAIN now = 1..n
      /\ \A i \in 1..n : \A a \in now[i].arcs : a = <<a[1], a[2]>>
  <2>1. DOMAIN now = 1..n
    BY DEF Laid
  <2>2. ASSUME NEW i \in 1..n, NEW a \in now[i].arcs
        PROVE  a = <<a[1], a[2]>>
    <3>1. now[i].arcs = {<<MatchOf(b[1]), MatchOf(b[2])>> : b \in {c \in M.arcs : c[1] \in M.levels[i]}}
      BY DEF Laid
    <3>2. PICK b \in M.arcs : a = <<MatchOf(b[1]), MatchOf(b[2])>>
      BY <2>2, <3>1
    <3> QED BY <3>2
  <2> QED BY <2>1, <2>2
<1>2. ASSUME NEW flat, DOMAIN flat = 1..n, \A i \in 1..n : \A a \in flat[i].arcs : a = <<a[1], a[2]>>
      PROVE  FlatShape(flat)
  <2>1. Len(flat) = n
    BY <1>2
  <2> QED BY <1>2, <2>1 DEF FlatShape
<1>3. ASSUME NEW flat
      PROVE  FlatShape(StillInFlat(flat, M))
  <2> DEFINE kept == StillInFlat(flat, M)
  <2>1. kept = [i \in DOMAIN now |-> [matches |-> flat[i].matches \cap now[i].matches,
                                       arcs |-> flat[i].arcs \cap now[i].arcs]]
    BY DEF StillInFlat
  <2> HIDE DEF now, kept
  <2>2. DOMAIN kept = 1..n /\ \A i \in 1..n : kept[i].arcs \subseteq now[i].arcs
    BY <2>1, <1>1
  <2>3. \A i \in 1..n : \A a \in kept[i].arcs : a = <<a[1], a[2]>>
    BY <2>2, <1>1
  <2>4. FlatShape(kept)
    BY <2>2, <2>3, <1>2
  <2> QED BY <2>4 DEF kept
<1> HIDE DEF now
<1>4. FlatShape(now)
  BY <1>1, <1>2
<1> QED BY <1>3, <1>4 DEF now

(* MDDs have their levels counted from one.                                *)
LEMMA LevelsAreCounted ==
    ASSUME MddInv
    PROVE  /\ \A M \in {mdd, work, parent} : \E n \in Nat : DOMAIN M.levels = 1..n
           /\ shared = [upper |-> shared.upper, complete |-> shared.complete, flat |-> shared.flat,
                        size |-> shared.size, room |-> shared.room]
<1>1. ASSUME NEW M, M = NoMdd \/ IsDiagram(M)
      PROVE  \E n \in Nat : DOMAIN M.levels = 1..n
  <2>1. CASE M = NoMdd
    <3>1. M.levels = <<>>
      BY <2>1 DEF NoMdd
    <3>2. DOMAIN M.levels = 1..0
      BY <3>1
    <3> QED BY <3>2
  <2>2. CASE IsDiagram(M)
    <3>1. M.levels \in Seq(SUBSET MddNodes)
      BY <2>2 DEF IsDiagram
    <3>2. DOMAIN M.levels = 1..Len(M.levels) /\ Len(M.levels) \in Nat
      BY <3>1
    <3> QED BY <3>2
  <2> QED BY <1>1, <2>1, <2>2
<1>2. /\ mdd = NoMdd \/ IsDiagram(mdd)
      /\ work = NoMdd \/ IsDiagram(work)
      /\ parent = NoMdd \/ IsDiagram(parent)
  BY AllDiagrams
<1>3. shared = [upper |-> shared.upper, complete |-> shared.complete, flat |-> shared.flat,
                size |-> shared.size, room |-> shared.room]
  <2>1. CASE Published
    BY <2>1 DEF MddInv, SharedPart
  <2>2. CASE ~Published
    <3>1. shared = NotShared
      BY <2>2 DEF MddInv, SharedPart
    <3> QED BY <3>1 DEF NotShared
  <2> QED BY <2>1, <2>2
<1> QED BY <1>1, <1>2, <1>3

(* The layout stays a sequence of levels with pairs for arcs.              *)
LEMMA ReductionShapes ==
    ASSUME MddInv, FlatShape(shared.flat), MddNext
    PROVE  FlatShape(shared.flat)'
<1> DEFINE sh == [upper |-> shared.upper, complete |-> shared.complete, flat |-> shared.flat,
                  size |-> shared.size, room |-> shared.room]
<1>1. /\ \A M \in {mdd, work, parent} : \E n \in Nat : DOMAIN M.levels = 1..n
      /\ shared = sh
  BY LevelsAreCounted
<1>2. ASSUME shared'.flat = shared.flat PROVE FlatShape(shared.flat)'
  BY <1>2 DEF FlatShape
<1>3. ASSUME NEW flat, FlatShape(flat), shared'.flat = flat PROVE FlatShape(shared.flat)'
  BY <1>3 DEF FlatShape
<1>4. \A M \in {mdd, work, parent} : FlatShape(Laid(M)) /\ \A flat : FlatShape(StillInFlat(flat, M))
  BY <1>1, LaidShape
<1>5. CASE \/ GraphStep \/ FilterDown \/ FilterUp \/ StartForward \/ StartBackward \/ Fork \/ ParentResumes
           \/ TryCharacter \/ TrialIsOver \/ RefineCharacter \/ SplitNextLevel \/ NextCharacter \/ Kill
  <2>1. shared' = shared
    BY <1>5 DEF GraphStep, FilterDown, FilterUp, StartForward, StartBackward, Fork, ParentResumes,
                TryCharacter, TrialIsOver, RefineCharacter, SplitNextLevel, NextCharacter, Kill, mddVars
  <2> QED BY <2>1, <1>2
<1>6. CASE FilterRoot
  <2>1. shared' = shared \/ shared' = [shared EXCEPT !.upper = upper']
    BY <1>6 DEF FilterRoot
  <2>2. shared'.flat = shared.flat
    BY <2>1, <1>1
  <2> QED BY <2>2, <1>2
<1>7. CASE CopyIsFiltered \/ MarkComplete \/ EndReduction
  <2>1. shared' = shared \/ shared' = [shared EXCEPT !.complete = TRUE]
           \/ shared' = [shared EXCEPT !.complete = @ \/ lower >= upper]
    BY <1>7 DEF CopyIsFiltered, MarkComplete, EndReduction
  <2>2. shared'.flat = shared.flat
    BY <2>1, <1>1
  <2> QED BY <2>2, <1>2
<1>8. CASE ChooseSide
  <2>1. /\ parent' = parent \/ parent' = mdd
        /\ shared' = [upper |-> upper, complete |-> FALSE, flat |-> Laid(parent'),
                      size |-> SizeOf(parent'), room |-> SizeOf(parent')]
    BY <1>8 DEF ChooseSide
  <2>2. PICK P \in {parent, mdd} : parent' = P
    BY <2>1
  <2>3. shared'.flat = Laid(P)
    BY <2>1, <2>2
  <2>4. FlatShape(Laid(P))
    BY <1>4, <2>2
  <2> QED BY <2>3, <2>4, <1>3
<1>9. CASE ParentLaysOut \/ LayOut
  <2>1. \E M \in {mdd, work} : shared' = [shared EXCEPT !.flat = Laid(M), !.size = SizeOf(M)]
    BY <1>9 DEF ParentLaysOut, LayOut
  <2>2. PICK M \in {mdd, work} : shared' = [shared EXCEPT !.flat = Laid(M), !.size = SizeOf(M)]
    BY <2>1
  <2>3. shared'.flat = Laid(M) /\ FlatShape(Laid(M))
    BY <2>2, <1>1, <1>4
  <2> QED BY <2>3, <1>3
<1>10. CASE ReportRefined
  <2>1. \E n \in mdd.levels[Len(mdd.levels)] :
           shared' = [shared EXCEPT !.upper = BottomBound(@, mdd, n), !.flat = StillInFlat(@, mdd)]
    BY <1>10 DEF ReportRefined
  <2>2. PICK u : shared' = [shared EXCEPT !.upper = u, !.flat = StillInFlat(@, mdd)]
    BY <2>1
  <2>3. shared'.flat = StillInFlat(shared.flat, mdd) /\ FlatShape(StillInFlat(shared.flat, mdd))
    BY <2>2, <1>1, <1>4
  <2> QED BY <2>3, <1>3
<1>11. CASE KeepOnlyOne
  <2>1. /\ step = "complete"
        /\ \E X : work' = Detached(work, X, {})
        /\ shared' = [shared EXCEPT !.flat = StillInFlat(@, work')]
    BY <1>11 DEF KeepOnlyOne
  <2>2. PICK X : work' = Detached(work, X, {})
    BY <2>1
  <2>3. IsDiagram(work)
    BY <2>1 DEF MddInv, WorkPart, Selecting
  <2>4. DOMAIN work'.levels = DOMAIN work.levels
    <3>1. work = [side |-> work.side, levels |-> work.levels, arcs |-> work.arcs, facts |-> work.facts]
      BY <2>3 DEF IsDiagram
    <3> QED BY <3>1, <2>2 DEF Detached
  <2>5. PICK N : N = work'
    OBVIOUS
  <2>6. \E n \in Nat : DOMAIN N.levels = 1..n
    BY <1>1, <2>4, <2>5
  <2>7. FlatShape(StillInFlat(shared.flat, N))
    BY <2>6, LaidShape
  <2>8. shared'.flat = StillInFlat(shared.flat, N)
    BY <2>1, <2>5, <1>1
  <2> QED BY <2>7, <2>8, <1>3
<1> QED BY <1>5, <1>6, <1>7, <1>8, <1>9, <1>10, <1>11 DEF MddNext, ChildNext

-----------------------------------------------------------------------------
(* What every step keeps of it.                                            *)

(* What holds when the solver begins.                                      *)
LEMMA AtSolver ==
    ASSUME SolvingInv, SearchInv, step = "solver"
    PROVE  /\ Ready /\ OptIsLongest /\ opt \in Nat /\ lower \in Nat /\ upper \in Nat
           /\ active \subseteq Inner /\ active = MatchesOfLayout(shared.flat) /\ FlatShape(shared.flat)
           /\ lower < opt => upper >= opt /\ \E W : LaidOut(W)
<1>1. MddInv /\ active \subseteq Inner
  BY DEF SolvingInv, Reducing
<1>2. OptInv
  BY DEF SearchInv, SoundInv
<1>3. /\ strings \in Inputs /\ lower \in Nat /\ upper \in Nat /\ OptIsLongest /\ opt \in 0..Sigma /\ opt \in Nat
  BY <1>1, <1>2, OptFacts
<1>4. task # "forward" /\ Published
  BY <1>1 DEF MddInv, StepsFit, Published, Filtering
<1>5. IsDiagram(parent) /\ parent.side \in Directions
  BY <1>1, <1>4, PublishedFacts DEF IsDiagram
<1>6. Ready
  BY <1>1, <1>3, <1>4, <1>5 DEF MddInv, SharedPart, Ready
<1>7. active = MatchesOfLayout(shared.flat) /\ FlatShape(shared.flat)
  BY DEF SearchInv
<1>8. ASSUME lower < opt
      PROVE  upper >= opt /\ \E W : LaidOut(W)
  <2>1. BoundPart /\ WayPart
    BY <1>2, <1>8 DEF OptInv
  <2>2. PICK W : Remains(W)
    BY <1>4, <2>1 DEF WayPart
  <2>3. PICK q : Way(parent, q, W)
    BY <2>2 DEF Remains
  <2>4. IsFree(parent, q, opt) /\ \A i \in 1..(opt + 1) : MatchOf(q[i]) = W[i]
    BY <2>3 DEF Way
  <2> DEFINE V == [i \in 1..(opt + 1) |-> MatchOf(q[i])]
  <2>5. Thread(parent.side, opt, V)
    BY <1>3, <1>5, <2>4, PathThread
  <2>6. \A i \in 1..(opt + 1) : V[i] = W[i]
    BY <2>4
  <2> HIDE DEF V
  <2>7. FlatHas(shared.flat, V)
    <3>1. FlatHas(shared.flat, W)
      BY <2>2 DEF Remains
    <3>2. \A i \in 1..opt : i \in 1..(opt + 1) /\ i + 1 \in 1..(opt + 1)
      BY <1>3
    <3> QED BY <3>1, <3>2, <2>6 DEF FlatHas
  <2>8. FlatSafe(shared.flat, parent.side, V)
    <3>1. FlatSafe(shared.flat, parent.side, W)
      BY <2>2 DEF Remains
    <3>2. \A i \in 1..opt : i \in 1..(opt + 1) /\ i + 1 \in 1..(opt + 1)
      BY <1>3
    <3>3. \A i \in 1..opt : Used(V, i) = Used(W, i)
      <4> TAKE i \in 1..opt
      <4>1. \A j \in 2..i : V[j] = W[j]
        BY <1>3, <2>6
      <4> QED BY <4>1 DEF Used
    <3> QED BY <3>1, <3>2, <3>3, <2>6 DEF FlatSafe
  <2>9. LaidOut(V)
    BY <2>5, <2>7, <2>8 DEF LaidOut
  <2> QED BY <2>1, <2>9 DEF BoundPart
<1> QED BY <1>1, <1>3, <1>6, <1>7, <1>8

(* The end of solve keeps the invariant if what is concluded is right.     *)
LEMMA SearchConcludes ==
    ASSUME SearchInv, UNCHANGED solveFrame, step' = "done", SolvedIsLongest', UnsolvedIsBounded'
    PROVE  SearchInv'
<1>1. FlatShape(shared.flat)'
  BY LaidOutUnchanged DEF SearchInv
<1> QED BY <1>1 DEF SearchInv

(* A closed gap is closed at the longest length.                           *)
LEMMA SolveClosedSafe ==
    ASSUME SolvingInv, SearchInv, SolveClosed
    PROVE  SearchInv'
<1>1. /\ step = "solver" \/ (step = "graph" /\ pc = "done")
      /\ lower >= upper /\ UNCHANGED solveFrame
  BY DEF SolveClosed
<1>2. PICK w \in HeuristicSolutions : Conclude(lower, upper, w, TRUE)
  BY DEF SolveClosed
<1>3. w \in Solutions(strings) /\ Len(w) = lower /\ step' = "done" /\ opt' = opt
  BY <1>1, <1>2 DEF HeuristicSolutions, Conclude, solveFrame
<1>4. MddInv
  BY <1>1 DEF SolvingInv, Reducing
<1>5. OptInv
  BY <1>1 DEF SearchInv, SoundInv
<1>6. /\ strings \in Inputs /\ lower \in Nat /\ upper \in Nat /\ OptIsLongest /\ opt \in Nat
  BY <1>4, <1>5, OptFacts
<1>7. lower <= opt
  BY <1>3, <1>6, SolutionsNotLonger
<1>8. ~(lower < opt)
  <2> SUFFICES ASSUME lower < opt PROVE FALSE
    OBVIOUS
  <2>1. CASE step = "solver"
    <3>1. upper >= opt
      BY <1>5, <2>1 DEF OptInv, BoundPart
    <3> QED BY <3>1, <1>1, <1>6
  <2>2. CASE step = "graph"
    <3>1. UpperIsBound
      BY <1>4, <2>2 DEF MddInv, GraphPart, IInv
    <3> QED BY <3>1, <1>1, <1>6 DEF UpperIsBound
  <2> QED BY <2>1, <2>2, <1>1
<1>9. lower = opt /\ upper <= lower /\ upper \in Int
  BY <1>1, <1>6, <1>7, <1>8
<1>10. SolvedIsLongest' /\ UnsolvedIsBounded'
  BY <1>2, <1>3, <1>6, <1>7, <1>9, ConclusionIsRight
<1> QED BY <1>1, <1>3, <1>10, SearchConcludes

(* Each feasible selection is a solution, a longest one among them.        *)
LEMMA FeasibleFacts ==
    ASSUME SolvingInv, SearchInv, step = "solver"
    PROVE  /\ \A X \in Feasible : /\ X \in Selections /\ Cardinality(X) \in Nat
                                  /\ Cardinality(X) > lower /\ Cardinality(X) <= opt
           /\ lower < opt => \E X \in Feasible : Cardinality(X) = opt
<1>1. /\ Ready /\ OptIsLongest /\ opt \in Nat /\ lower \in Nat /\ upper \in Nat
      /\ active \subseteq Inner /\ active = MatchesOfLayout(shared.flat) /\ FlatShape(shared.flat)
      /\ lower < opt => upper >= opt /\ \E W : LaidOut(W)
  BY AtSolver
<1>2. strings \in Inputs /\ parent.side \in Directions
  BY <1>1 DEF Ready
<1>3. ASSUME NEW X \in Feasible
      PROVE  /\ X \in Selections /\ Cardinality(X) \in Nat
             /\ Cardinality(X) > lower /\ Cardinality(X) <= opt
  <2>1. X \in Selections /\ Cardinality(X) >= lower + 1
    BY DEF Feasible
  <2>2. Selected(X) \in Solutions(strings) /\ Len(Selected(X)) = Cardinality(X)
    BY <1>1, <1>2, <2>1, SelectedIsSolution
  <2>3. Len(Selected(X)) \in Nat /\ Len(Selected(X)) <= opt
    BY <1>1, <1>2, <2>2, SolutionsNotLonger
  <2> QED BY <1>1, <2>1, <2>2, <2>3
<1>4. ASSUME lower < opt
      PROVE  \E X \in Feasible : Cardinality(X) = opt
  <2>1. PICK W : LaidOut(W)
    BY <1>1, <1>4
  <2>2. PICK X \in Selections : Cardinality(X) = opt
    BY <1>1, <1>2, <2>1, WayIsSelected
  <2>3. X \in Feasible
    BY <1>1, <1>4, <2>2 DEF Feasible
  <2> QED BY <2>2, <2>3
<1> QED BY <1>3, <1>4

(* Whatever bounds the integer program returns are right.                  *)
LEMMA IlpReturnsSafe ==
    ASSUME SolvingInv, SearchInv, IlpOptimal \/ IlpInfeasible \/ IlpTimesOut
    PROVE  SearchInv'
<1>1. step = "solver" /\ UNCHANGED solveFrame
  BY DEF IlpOptimal, IlpInfeasible, IlpTimesOut, SolvesIlp
<1>2. /\ Ready /\ OptIsLongest /\ opt \in Nat /\ lower \in Nat /\ upper \in Nat /\ upper \in Int
      /\ lower < opt => upper >= opt
  BY <1>1, AtSolver
<1>3. strings \in Inputs /\ opt' = opt
  BY <1>1, <1>2 DEF Ready, solveFrame
<1>4. /\ \A X \in Feasible : Cardinality(X) \in Nat /\ Cardinality(X) > lower /\ Cardinality(X) <= opt
      /\ lower < opt => \E X \in Feasible : Cardinality(X) = opt
  BY <1>1, FeasibleFacts
<1>5. \A w \in HeuristicSolutions : lower <= opt
  BY <1>2, <1>3, SolutionsNotLonger DEF HeuristicSolutions
<1>6. SUFFICES ASSUME NEW l, NEW u, NEW w, NEW ok, Conclude(l, u, w, ok),
                      l \in Nat, u \in Int, ok \in BOOLEAN, l <= opt,
                      ok => l = opt /\ (upper <= l \/ u <= l),
                      ~ok => l = opt \/ (upper >= opt /\ u >= opt)
               PROVE  SearchInv'
  <2>1. CASE IlpOptimal
    <3>1. PICK X \in Feasible : /\ \A Y \in Feasible : Cardinality(Y) <= Cardinality(X)
                                /\ Conclude(Cardinality(X), Cardinality(X), Selected(X), TRUE)
      BY <2>1 DEF IlpOptimal
    <3>2. Cardinality(X) \in Nat /\ Cardinality(X) > lower /\ Cardinality(X) <= opt
      BY <1>4
    <3>3. PICK Y \in Feasible : Cardinality(Y) = opt
      BY <1>2, <1>4, <3>2
    <3>4. Cardinality(X) = opt
      BY <1>2, <3>1, <3>2, <3>3
    <3>5. Cardinality(X) \in Int /\ Cardinality(X) <= Cardinality(X) /\ TRUE \in BOOLEAN
      BY <3>2
    <3> QED BY <1>6, <3>1, <3>2, <3>4, <3>5
  <2>2. CASE IlpInfeasible
    <3>1. PICK w \in HeuristicSolutions : Conclude(lower, lower, w, TRUE)
      BY <2>2 DEF IlpInfeasible
    <3>2. Feasible = {}
      BY <2>2 DEF IlpInfeasible
    <3>3. lower = opt
      BY <1>2, <1>4, <1>5, <3>2
    <3>4. lower \in Int /\ lower <= lower /\ TRUE \in BOOLEAN /\ lower <= opt
      BY <1>2, <3>3
    <3> QED BY <1>2, <1>6, <3>1, <3>3, <3>4
  <2>3. CASE IlpTimesOut
    <3>1. PICK bound \in 0..Sigma :
             /\ \A Y \in Feasible : Cardinality(Y) <= bound
             /\ \/ \E X \in Feasible : Conclude(Cardinality(X), bound, Selected(X), FALSE)
                \/ \E w \in HeuristicSolutions : Conclude(lower, bound, w, FALSE)
      BY <2>3 DEF IlpTimesOut
    <3>2. bound \in Int /\ FALSE \in BOOLEAN
      BY CharactersFinite
    <3>3. lower < opt => upper >= opt /\ bound >= opt
      BY <1>2, <1>4, <3>1, <3>2
    <3>4. CASE \E X \in Feasible : Conclude(Cardinality(X), bound, Selected(X), FALSE)
      <4>1. PICK X \in Feasible : Conclude(Cardinality(X), bound, Selected(X), FALSE)
        BY <3>4
      <4>2. Cardinality(X) \in Nat /\ Cardinality(X) > lower /\ Cardinality(X) <= opt
        BY <1>4
      <4>3. upper >= opt /\ bound >= opt
        BY <1>2, <3>3, <4>2
      <4> QED BY <1>6, <3>2, <4>1, <4>2, <4>3
    <3>5. CASE \E w \in HeuristicSolutions : Conclude(lower, bound, w, FALSE)
      <4>1. PICK w \in HeuristicSolutions : Conclude(lower, bound, w, FALSE)
        BY <3>5
      <4>2. lower <= opt
        BY <1>5
      <4>3. lower = opt \/ (upper >= opt /\ bound >= opt)
        BY <1>2, <3>3, <4>2
      <4> QED BY <1>2, <1>6, <3>2, <4>1, <4>2, <4>3
    <3> QED BY <3>1, <3>4, <3>5
  <2> QED BY <2>1, <2>2, <2>3
<1>7. SolvedIsLongest' /\ UnsolvedIsBounded'
  BY <1>2, <1>3, <1>6, ConclusionIsRight
<1>8. step' = "done"
  BY <1>6 DEF Conclude
<1> QED BY <1>1, <1>7, <1>8, SearchConcludes

(* When it returns none, the lower bound is that of the heuristic, which   *)
(* stays one, and nothing is said to be solved.                            *)
LEMMA IlpFailsSafe ==
    ASSUME SolvingInv, SearchInv, IlpFails
    PROVE  SearchInv'
<1>1. /\ step = "solver" /\ UNCHANGED solveFrame /\ boundLost' = TRUE
      /\ \E w \in HeuristicSolutions : Conclude(lower, 0, w, FALSE)
  BY DEF IlpFails, SolvesIlp
<1>2. /\ Ready /\ OptIsLongest /\ lower \in Nat
  BY <1>1, AtSolver
<1>3. PICK w \in HeuristicSolutions : Conclude(lower, 0, w, FALSE)
  BY <1>1
<1>4. lower <= opt /\ opt' = opt
  BY <1>1, <1>2, SolutionsNotLonger DEF HeuristicSolutions, Ready, solveFrame
<1>5. step' = "done" /\ lower' = lower /\ valid' = FALSE
  BY <1>3 DEF Conclude
<1>6. SolvedIsLongest' /\ UnsolvedIsBounded'
  BY <1>1, <1>4, <1>5 DEF SolvedIsLongest, UnsolvedIsBounded
<1> QED BY <1>1, <1>5, <1>6, SearchConcludes

(* The walk begins with the first match ahead.                             *)
LEMMA BeginSafe ==
    ASSUME SolvingInv, SearchInv, BeginEnumeration
    PROVE  SearchInv'
<1> DEFINE first == Targets(TheRoot)
           q == Sorted(first, ByPosition(first))
<1>1. /\ step = "solver" /\ lower < upper /\ step' = "enumerate"
      /\ UNCHANGED solveFrame /\ lower' = lower /\ upper' = upper /\ entered' = entered
      /\ stack' = q
  BY DEF BeginEnumeration, TheRoot
<1>2. entered = {}
  BY <1>1 DEF SolvingInv, Reducing
<1>3. /\ Ready /\ OptIsLongest /\ opt \in Nat /\ lower \in Nat
      /\ lower < opt => upper >= opt /\ \E W : LaidOut(W)
  BY <1>1, AtSolver
<1>4. IsFiniteSet(first) /\ IsStrictOrder(first, ByPosition(first))
  BY <1>3, ByPositionFacts
<1> HIDE DEF first
<1>5. Len(q) \in Nat /\ \A x \in first : \E k \in 1..Len(q) : q[k] = x
  BY <1>4, SortedFacts, SortedHas
<1> HIDE DEF q
<1>6. /\ opt' = opt /\ \A W : LaidOut(W)' <=> LaidOut(W)
      /\ \A s, E, W : StillAhead(s, E, W)' <=> StillAhead(s, E, W)
      /\ OptIsLongest' <=> OptIsLongest
      /\ FlatShape(shared.flat)' <=> FlatShape(shared.flat)
  BY <1>1, LaidOutUnchanged
<1>7. ASSUME lower < opt
      PROVE  \E W : LaidOut(W)' /\ StillAhead(stack, entered, W)'
  <2>1. PICK W : LaidOut(W)
    BY <1>3, <1>7
  <2>2. opt \in Nat \ {0}
    BY <1>3, <1>7
  <2>3. StillAhead(q, {}, W)
    BY <1>3, <1>5, <2>1, <2>2, BeginAhead DEF first
  <2>4. PICK s, E : s = q /\ E = {}
    OBVIOUS
  <2>5. StillAhead(s, E, W)'
    BY <1>6, <2>3, <2>4
  <2>6. stack' = s /\ entered' = E
    BY <1>1, <1>2, <2>4
  <2>7. StillAhead(stack, entered, W)'
    BY <2>5, <2>6
  <2> QED BY <1>6, <2>1, <2>7
<1>8. AheadPart'
  BY <1>1, <1>3, <1>6, <1>7 DEF AheadPart
<1>9. FlatShape(shared.flat)'
  BY <1>6 DEF SearchInv
<1> QED BY <1>1, <1>8, <1>9 DEF SearchInv

(* An early end has found one as long as any; otherwise the next match is  *)
(* still ahead, or its level is reached.                                   *)
LEMMA EnterSafe ==
    ASSUME SolvingInv, SearchInv, EnterNode
    PROVE  SearchInv'
<1> DEFINE n == stack[Len(stack)]
           nodes == entered \cup {n}
           characters == used \cup {NodeLetter(n)}
           depth == Cardinality(nodes)
           pushed == Pushed(n, characters)
           q == Sorted(pushed, ByPosition(pushed))
           better == IF depth > lower THEN CharactersOn(stack, nodes) ELSE solution
<1>1. /\ step = "enumerate" /\ stack # <<>> /\ n \notin entered /\ UNCHANGED solveFrame
      /\ IF depth > lower /\ depth >= upper
         THEN Conclude(depth, depth, Oriented(better), TRUE)
         ELSE /\ entered' = nodes
              /\ lower' = Max({lower, depth}) /\ stack' = stack \o q
              /\ UNCHANGED <<step, upper>>
  BY DEF EnterNode, Top
<1>2. /\ strings \in Inputs /\ lower \in 0..Sigma /\ upper \in 0..Sigma
      /\ StackOK(stack, entered) /\ used = {NodeLetter(x) : x \in entered}
      /\ Ready /\ lower \in Int /\ upper \in Int /\ lower \in Nat
  BY <1>1, CharactersFinite DEF SolvingInv, Enumerating, Ready
<1>3. stack \in Seq(FlatNodes) /\ Len(stack) > 0 /\ n \in FlatNodes
  <2>1. stack \in Seq(FlatNodes)
    BY <1>2 DEF StackOK
  <2> QED BY <2>1, <1>1
<1>4. depth \in Nat /\ depth = Cardinality(entered) + 1
  <2>1. IsFiniteSet(entered) /\ Cardinality(entered) \in Nat
    BY <1>2, EnteredPath
  <2>2. Cardinality(nodes) = Cardinality(entered) + 1
    BY <2>1, <1>1, FS_AddElement
  <2> QED BY <2>1, <2>2
<1>5. /\ OptIsLongest /\ opt \in Nat /\ FlatShape(shared.flat)
      /\ lower < opt => upper >= opt /\ \E W : LaidOut(W) /\ StillAhead(stack, entered, W)
  <2>1. AheadPart /\ FlatShape(shared.flat)
    BY <1>1 DEF SearchInv
  <2>2. opt \in 0..Sigma /\ Sigma \in Nat
    BY <1>2, <2>1, LongestSolution, CharactersFinite DEF AheadPart, OptIsLongest
  <2> QED BY <2>1, <2>2 DEF AheadPart
<1>6. /\ opt' = opt /\ strings' = strings /\ \A W : LaidOut(W)' <=> LaidOut(W)
      /\ \A s, E, W : StillAhead(s, E, W)' <=> StillAhead(s, E, W)
      /\ OptIsLongest' <=> OptIsLongest
      /\ FlatShape(shared.flat)' <=> FlatShape(shared.flat)
  BY <1>1, LaidOutUnchanged
<1>7. SolvingInv' /\ (step' = "done" => SolutionIsOne')
  BY EnterNodeKeeps
<1>8. CASE depth > lower /\ depth >= upper
  <2>1. Conclude(depth, depth, Oriented(better), TRUE)
    BY <1>1, <1>8
  <2> HIDE DEF better, depth
  <2>2. step' = "done" /\ lower' = depth
    BY <2>1 DEF Conclude
  <2>3. depth <= opt
    <3>1. solution' \in Solutions(strings)' /\ Len(solution') = depth
      BY <1>7, <2>2 DEF SolutionIsOne
    <3>2. Solutions(strings)' = Solutions(strings)
      BY <1>6 DEF Solutions
    <3>3. PICK w \in Solutions(strings) : Len(w) = depth
      BY <3>1, <3>2
    <3> QED BY <1>2, <1>5, <3>3, SolutionsNotLonger
  <2>4. depth = opt
    BY <1>2, <1>4, <1>5, <1>8, <2>3
  <2>5. depth \in Int /\ depth <= depth /\ TRUE \in BOOLEAN
    BY <1>4
  <2>6. SolvedIsLongest' /\ UnsolvedIsBounded'
    BY <1>2, <1>4, <1>5, <1>6, <2>1, <2>4, <2>5, ConclusionIsRight
  <2> QED BY <1>1, <2>2, <2>6, SearchConcludes
<1>9. CASE ~(depth > lower /\ depth >= upper)
  <2>1. /\ entered' = nodes /\ lower' = Max({lower, depth}) /\ stack' = stack \o q
        /\ step' = step /\ upper' = upper
    BY <1>1, <1>9
  <2>2. ASSUME lower' < opt
        PROVE  \E W : LaidOut(W)' /\ StillAhead(stack, entered, W)'
    <3>1. lower < opt /\ depth < opt
      <4>1. lower \in Int /\ depth \in Int
        BY <1>2, <1>4
      <4>2. Max({lower, depth}) \in {lower, depth} /\ Max({lower, depth}) >= lower /\ Max({lower, depth}) >= depth
        BY <4>1, MaxOfTwo
      <4>3. Max({lower, depth}) < opt
        BY <2>1, <2>2
      <4> QED BY <4>1, <4>2, <4>3, <1>5
    <3>2. PICK W : LaidOut(W) /\ StillAhead(stack, entered, W)
      BY <1>5, <3>1
    <3>3. pushed \subseteq Targets(n) /\ characters = {NodeLetter(y) : y \in nodes}
      BY <1>2 DEF Pushed
    <3> HIDE DEF pushed
    <3>4. IsFiniteSet(pushed) /\ IsStrictOrder(pushed, ByPosition(pushed))
      <4>1. n \in FlatNodes \cup {TheRoot}
        BY <1>3
      <4> HIDE DEF n
      <4> QED BY <1>2, <3>3, <4>1, ByPositionFacts
    <3>5. pushed \subseteq FlatNodes
      <4>1. n \in FlatNodes \cup {TheRoot}
        BY <1>3
      <4> HIDE DEF n
      <4>2. \A t \in Targets(n) : t \in FlatNodes
        BY <1>2, <4>1, TargetFacts
      <4> QED BY <3>3, <4>2
    <3>6. q \in Seq(pushed) /\ Len(q) \in Nat /\ \A x \in pushed : \E k \in 1..Len(q) : q[k] = x
      BY <3>4, SortedFacts, SortedHas
    <3> HIDE DEF q
    <3>7. q \in Seq(FlatNodes)
      BY <3>5, <3>6
    <3> DEFINE r == stack \o q
    <3>8. PICK s, E : s = r /\ E = nodes
      OBVIOUS
    <3>9. stack' = s /\ entered' = E
      BY <2>1, <3>8
    <3>10. StackOK(stack, entered)'
      BY <1>1, <1>7, <2>1 DEF SolvingInv, Enumerating
    <3>11. StackOK(s, E)'
      BY <3>9, <3>10
    <3>12. StackOK(s, E)
      BY <1>1, <1>2, <3>11, ReadyStays
    <3>13. StackOK(stack \o q, entered \cup {stack[Len(stack)]})
      BY <3>8, <3>12
    <3>14. \A x \in Pushed(stack[Len(stack)], {NodeLetter(y) : y \in entered \cup {stack[Len(stack)]}}) :
              \E k \in 1..Len(q) : q[k] = x
      BY <3>3, <3>6 DEF pushed
    <3>15. Cardinality(entered) + 1 < opt
      BY <1>4, <3>1
    <3>16. StillAhead(stack \o q, entered \cup {stack[Len(stack)]}, W)
      BY <1>1, <1>2, <1>3, <1>5, <3>2, <3>6, <3>7, <3>13, <3>14, <3>15, EnterAhead
    <3>17. StillAhead(s, E, W)
      BY <3>8, <3>16
    <3>18. StillAhead(s, E, W)'
      BY <1>6, <3>17
    <3>19. StillAhead(stack, entered, W)'
      BY <3>9, <3>18
    <3> QED BY <1>6, <3>2, <3>19
  <2>3. lower' < opt => upper' >= opt
    <3>1. lower \in Int /\ depth \in Int
      BY <1>2, <1>4
    <3>2. Max({lower, depth}) >= lower /\ Max({lower, depth}) \in Int
      BY <3>1, MaxOfTwo
    <3> QED BY <2>1, <3>1, <3>2, <1>5
  <2>4. AheadPart'
    BY <1>5, <1>6, <2>2, <2>3 DEF AheadPart
  <2>5. step' = "enumerate"
    BY <2>1, <1>1
  <2> QED BY <1>5, <1>6, <2>4, <2>5 DEF SearchInv
<1> QED BY <1>8, <1>9

(* What is left is not ahead.                                              *)
LEMMA LeaveSafe ==
    ASSUME SolvingInv, SearchInv, LeaveNode
    PROVE  SearchInv'
<1> DEFINE r == Front(stack)
           left == entered \ {stack[Len(stack)]}
<1>1. /\ step = "enumerate" /\ stack # <<>> /\ stack[Len(stack)] \in entered /\ UNCHANGED solveFrame
      /\ step' = "enumerate" /\ lower' = lower /\ upper' = upper
      /\ stack' = r /\ entered' = left
  BY DEF LeaveNode, Top
<1>2. Ready /\ StackOK(stack, entered) /\ AheadPart /\ FlatShape(shared.flat)
  BY <1>1 DEF SolvingInv, SearchInv, Enumerating, Ready
<1>3. Len(stack) > 0
  BY <1>1, <1>2 DEF StackOK
<1>4. /\ opt' = opt /\ \A W : LaidOut(W)' <=> LaidOut(W)
      /\ \A s, E, W : StillAhead(s, E, W)' <=> StillAhead(s, E, W)
      /\ OptIsLongest' <=> OptIsLongest
      /\ FlatShape(shared.flat)' <=> FlatShape(shared.flat)
  BY <1>1, LaidOutUnchanged
<1>5. ASSUME lower < opt
      PROVE  \E W : LaidOut(W)' /\ StillAhead(stack, entered, W)'
  <2>1. PICK W : LaidOut(W) /\ StillAhead(stack, entered, W)
    BY <1>2, <1>5 DEF AheadPart
  <2>2. StillAhead(r, left, W)
    BY <1>1, <1>2, <1>3, <2>1, LeaveAhead
  <2>3. PICK s, E : s = r /\ E = left
    OBVIOUS
  <2>4. StillAhead(s, E, W)'
    BY <1>4, <2>2, <2>3
  <2>5. stack' = s /\ entered' = E
    BY <1>1, <2>3
  <2>6. StillAhead(stack, entered, W)'
    BY <2>4, <2>5
  <2> QED BY <1>4, <2>1, <2>6
<1>6. AheadPart'
  BY <1>1, <1>2, <1>4, <1>5 DEF AheadPart
<1> QED BY <1>1, <1>2, <1>4, <1>6 DEF SearchInv

(* Nothing is ahead on an empty stack: the lower bound is tight then.      *)
LEMMA EndSafe ==
    ASSUME SolvingInv, SearchInv, EndEnumeration
    PROVE  SearchInv'
<1>1. step = "enumerate" /\ stack = <<>> /\ UNCHANGED solveFrame
  BY DEF EndEnumeration
<1>2. /\ strings \in Inputs /\ lower \in Nat /\ upper \in Int /\ Sigma \in Nat
      /\ solution = <<>> \/ (Oriented(solution) \in Solutions(strings) /\ Len(solution) = lower)
  BY <1>1, CharactersFinite DEF SolvingInv, Enumerating
<1>3. AheadPart
  BY <1>1 DEF SearchInv
<1>4. OptIsLongest /\ opt \in Nat /\ opt' = opt
  <2>1. opt \in 0..Sigma
    BY <1>2, <1>3, LongestSolution DEF AheadPart, OptIsLongest
  <2> QED BY <2>1, <1>1, <1>2, <1>3 DEF AheadPart, solveFrame
<1>5. ~(lower < opt)
  <2> SUFFICES ASSUME lower < opt PROVE FALSE
    OBVIOUS
  <2>1. PICK W : StillAhead(stack, entered, W)
    BY <1>3 DEF AheadPart
  <2>2. \E p \in 1..Len(stack) : TRUE
    BY <2>1 DEF StillAhead
  <2>3. Len(stack) = 0
    BY <1>1
  <2> QED BY <2>2, <2>3
<1>6. PICK w : /\ Conclude(lower, lower, Oriented(w), TRUE)
               /\ IF solution = <<>> THEN w \in HeuristicSolutions ELSE w = solution
  BY DEF EndEnumeration
<1>7. lower <= opt
  <2>1. CASE solution = <<>>
    <3>1. w \in Solutions(strings) /\ Len(w) = lower
      BY <2>1, <1>6 DEF HeuristicSolutions
    <3> QED BY <3>1, <1>2, <1>4, SolutionsNotLonger
  <2>2. CASE solution # <<>>
    <3>1. Oriented(solution) \in Solutions(strings) /\ Len(solution) = lower
      BY <2>2, <1>2
    <3>2. Len(Oriented(solution)) = lower
      BY <3>1, <1>2, LengthStays
    <3> QED BY <3>1, <3>2, <1>2, <1>4, SolutionsNotLonger
  <2> QED BY <2>1, <2>2
<1>8. lower = opt /\ lower <= lower /\ lower \in Int /\ TRUE \in BOOLEAN
  BY <1>2, <1>4, <1>5, <1>7
<1> DEFINE v == Oriented(w)
<1>9. Conclude(lower, lower, v, TRUE)
  BY <1>6
<1> HIDE DEF v
<1>10. SolvedIsLongest' /\ UnsolvedIsBounded'
  BY <1>2, <1>4, <1>7, <1>8, <1>9, ConclusionIsRight
<1>11. step' = "done"
  BY <1>9 DEF Conclude
<1> QED BY <1>1, <1>10, <1>11, SearchConcludes

(* What is laid out at the end of the reduction is what is active.         *)
LEMMA ReductionSafe ==
    ASSUME SolvingInv, SearchInv, SplitSeparates, RefinedIsRepetitionFree, ReductionStep
    PROVE  SearchInv'
<1>1. MddNext
  BY DEF ReductionStep
<1>2. step \notin {"solver", "enumerate", "done"} /\ (step' = "solver" => EndReduction)
  BY <1>1, ReductionHandsOver
<1>3. MddInv
  BY <1>2 DEF SolvingInv, Reducing
<1>4. SoundInv /\ FlatShape(shared.flat)
  BY <1>2 DEF SearchInv
<1>5. MddInv'
  BY <1>1, <1>3, MddStep
<1>6. step' \notin {"enumerate", "done"}
  BY <1>5 DEF MddInv, StepsFit, Filtering, Selecting
<1>7. SoundInv'
  BY <1>1, <1>3, <1>4, SoundKeeps
<1>8. FlatShape(shared.flat)'
  BY <1>1, <1>3, <1>4, ReductionShapes
<1>9. ASSUME EndReduction
      PROVE  active' = MatchesOfLayout(shared.flat)'
  <2>1. strings' = strings /\ active' = MatchesOfLayout(shared.flat)
        /\ shared' = [shared EXCEPT !.complete = @ \/ lower >= upper]
    BY <1>9 DEF EndReduction
  <2>2. shared'.flat = shared.flat
    BY <2>1, <1>3, LevelsAreCounted
  <2>3. Inner' = Inner
    BY <2>1, StringsUnchanged
  <2> QED BY <2>1, <2>2, <2>3 DEF MatchesOfLayout
<1> QED BY <1>2, <1>6, <1>7, <1>8, <1>9 DEF SearchInv

(* Nothing happens.                                                        *)
LEMMA SearchStutter ==
    ASSUME SolvingInv, SearchInv, SplitSeparates, RefinedIsRepetitionFree, UNCHANGED allVars
    PROVE  SearchInv'
<1>1. UNCHANGED <<vars, mddVars>> /\ UNCHANGED solveVars
  BY DEF allVars
<1>2. /\ step' = step /\ lower' = lower /\ upper' = upper /\ active' = active /\ strings' = strings
      /\ stack' = stack /\ entered' = entered /\ valid' = valid /\ shared' = shared /\ opt' = opt
      /\ UNCHANGED solveFrame
  BY <1>1 DEF vars, mddVars, solveVars, solveFrame, parentVars, graphVars
<1>3. /\ \A W : LaidOut(W)' <=> LaidOut(W)
      /\ \A s, E, W : StillAhead(s, E, W)' <=> StillAhead(s, E, W)
      /\ OptIsLongest' <=> OptIsLongest
      /\ FlatShape(shared.flat)' <=> FlatShape(shared.flat)
  BY <1>2, LaidOutUnchanged
<1>4. FlatShape(shared.flat)'
  BY <1>3 DEF SearchInv
<1>5. CASE step = "enumerate"
  <2>1. AheadPart
    BY <1>5 DEF SearchInv
  <2>2. ASSUME lower < opt
        PROVE  \E W : LaidOut(W)' /\ StillAhead(stack, entered, W)'
    <3>1. PICK W : LaidOut(W) /\ StillAhead(stack, entered, W)
      BY <2>1, <2>2 DEF AheadPart
    <3>2. PICK s, E : s = stack /\ E = entered
      OBVIOUS
    <3>3. StillAhead(s, E, W)'
      BY <1>3, <3>1, <3>2
    <3>4. stack' = s /\ entered' = E
      BY <1>2, <3>2
    <3>5. StillAhead(stack, entered, W)'
      BY <3>3, <3>4
    <3> QED BY <1>3, <3>1, <3>5
  <2>3. AheadPart'
    BY <1>2, <1>3, <2>1, <2>2 DEF AheadPart
  <2> QED BY <1>2, <1>4, <1>5, <2>3 DEF SearchInv
<1>6. CASE step = "done"
  <2>1. SolvedIsLongest /\ UnsolvedIsBounded
    BY <1>6 DEF SearchInv
  <2>2. boundLost' = boundLost
    BY <1>1 DEF solveVars
  <2>3. SolvedIsLongest' /\ UnsolvedIsBounded'
    BY <1>2, <2>1, <2>2 DEF SolvedIsLongest, UnsolvedIsBounded
  <2> QED BY <1>2, <1>4, <1>6, <2>3 DEF SearchInv
<1>7. CASE step \notin {"enumerate", "done"}
  <2>1. MddInv /\ SoundInv
    BY <1>7 DEF SolvingInv, Reducing, SearchInv
  <2>2. SoundInv'
    BY <1>1, <2>1, SoundKeeps
  <2>3. step = "solver" => active' = MatchesOfLayout(shared.flat)'
    <3>1. Inner' = Inner
      BY <1>2, StringsUnchanged
    <3> QED BY <3>1, <1>2 DEF MatchesOfLayout, SearchInv
  <2> QED BY <1>2, <1>4, <1>7, <2>2, <2>3 DEF SearchInv
<1> QED BY <1>5, <1>6, <1>7

(* It holds in the beginning, and in every step it is kept.                *)
LEMMA SearchInitially == SolvingInit => SearchInv
<1> SUFFICES ASSUME SolvingInit PROVE SearchInv
  OBVIOUS
<1>1. MddInit
  BY DEF SolvingInit
<1>2. OptInv
  BY <1>1, OptInitially
<1>3. step = "graph" /\ shared = NotShared
  BY <1>1 DEF MddInit
<1>4. FlatShape(shared.flat)
  <2>1. shared.flat = <<>>
    BY <1>3 DEF NotShared
  <2> QED BY <2>1 DEF FlatShape
<1>5. SoundInv
  BY <1>2, <1>3 DEF SoundInv, EndInv
<1> QED BY <1>3, <1>4, <1>5 DEF SearchInv

LEMMA SearchStep ==
    SolvingInv /\ SearchInv /\ SplitSeparates /\ RefinedIsRepetitionFree /\ [SolvingNext]_allVars
       => SearchInv'
<1> SUFFICES ASSUME SolvingInv, SearchInv, SplitSeparates, RefinedIsRepetitionFree, [SolvingNext]_allVars
             PROVE  SearchInv'
  OBVIOUS
<1>1. CASE ReductionStep
  BY <1>1, ReductionSafe
<1>2. CASE SolveClosed
  BY <1>2, SolveClosedSafe
<1>3. CASE BeginEnumeration
  BY <1>3, BeginSafe
<1>4. CASE EnterNode
  BY <1>4, EnterSafe
<1>5. CASE LeaveNode
  BY <1>5, LeaveSafe
<1>6. CASE EndEnumeration
  BY <1>6, EndSafe
<1>7. CASE IlpOptimal \/ IlpInfeasible \/ IlpTimesOut \/ IlpFails
  BY <1>7, IlpReturnsSafe, IlpFailsSafe
<1>8. CASE UNCHANGED allVars
  BY <1>8, SearchStutter
<1> QED BY <1>1, <1>2, <1>3, <1>4, <1>5, <1>6, <1>7, <1>8 DEF SolvingNext, Stutter

-----------------------------------------------------------------------------
(* SearchInv is invariant as long as splits separate the paths they should *)
(* and the complete MDD is repetition-free: whatever the children have     *)
(* done to the layout and wherever they were killed, the enumeration walks *)
(* by a longest solution, and the integer program may select one.          *)
THEOREM SearchInvariance ==
    SolvingSpec /\ [](SplitSeparates /\ RefinedIsRepetitionFree) => []SearchInv
<1>1. SolvingInit => SearchInv
  BY SearchInitially
<1>2. SolvingInv /\ SearchInv /\ SplitSeparates /\ RefinedIsRepetitionFree /\ [SolvingNext]_allVars => SearchInv'
  BY SearchStep
<1> QED BY <1>1, <1>2, SolvingInvariance, PTL DEF SolvingSpec

(* A run that is said to be solved has found a longest solution, and both  *)
(* bounds are at its length (solve in main.cpp, is_valid_solution).        *)
THEOREM SolvedRunsAreOptimal ==
    SolvingSpec /\ [](SplitSeparates /\ RefinedIsRepetitionFree) => []SolvedIsLongest
<1>1. SearchInv => SolvedIsLongest
  BY DEF SearchInv, SolvedIsLongest
<1> QED BY <1>1, SearchInvariance, PTL

(* A run whose integer program has run into its time limit reports bounds  *)
(* of the longest solution; the lower one also if it has returned no bound *)
(* at all (gurobi_graph_ilp.cpp, solve in main.cpp).  What is shown of the *)
(* upper bound: the matches that are still active and the bound of the     *)
(* reduction exclude no longest solution.                                  *)
THEOREM UnsolvedRunsAreBounded ==
    SolvingSpec /\ [](SplitSeparates /\ RefinedIsRepetitionFree) => []UnsolvedIsBounded
<1>1. SearchInv => UnsolvedIsBounded
  BY DEF SearchInv, UnsolvedIsBounded
<1> QED BY <1>1, SearchInvariance, PTL
===============================================================================
