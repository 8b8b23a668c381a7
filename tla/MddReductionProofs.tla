-------------------------- MODULE MddReductionProofs ---------------------------
(***************************************************************************)
(* Proofs about MddReduction, for all strings over any alphabet.           *)
(*                                                                         *)
(* MddInv is about what the MDDs, the layout and the child's sets are, and *)
(* where they are when; MddInvariance proves it. The lemmas behind it are  *)
(* about the paths of an MDD: what its nodes are said to know of one       *)
(* (Fine), and how the way of a longest solution passes what the steps of  *)
(* the filter and the copies do to the MDD (Keeps). MddSoundnessProofs     *)
(* makes an invariant of them.                                             *)
(***************************************************************************)
EXTENDS MddReduction, GraphReductionProofs

-----------------------------------------------------------------------------
(* Picking elements of a sequence.                                         *)

LEMMA NthFacts ==
    ASSUME NEW kept \in SUBSET Int, IsFiniteSet(kept)
    PROVE  /\ Cardinality(kept) \in Nat
           /\ \A k \in 1..Cardinality(kept) : Nth(kept, k) \in kept
           /\ \A k, l \in 1..Cardinality(kept) : k < l => Nth(kept, k) < Nth(kept, l)
           /\ \A i \in kept : \E k \in 1..Cardinality(kept) : Nth(kept, k) = i
<1> DEFINE R == {x \in kept \X kept : x[1] < x[2]}
           n == Cardinality(kept)
           Rank(i) == Cardinality(Below(kept, R, i))
<1>1. n \in Nat
  BY FS_CardinalityType
<1>2. IsStrictOrder(kept, R)
  BY DEF IsStrictOrder
<1>3. \A i \in kept : Below(kept, R, i) = {j \in kept : j < i}
  BY DEF Below
<1>4. \A i, j \in kept : <<i, j>> \in R <=> i < j
  OBVIOUS
<1> HIDE DEF R
<1>5. /\ \A i \in kept : Rank(i) \in 0..(n - 1)
      /\ \A i, j \in kept : i < j <=> Rank(i) < Rank(j)
      /\ \A i, j \in kept : Rank(i) = Rank(j) => i = j
      /\ \A k \in 0..(n - 1) : \E i \in kept : Rank(i) = k
  BY <1>2, <1>4, Ranks
<1>6. \A k : Nth(kept, k) = CHOOSE i \in kept : Rank(i) = k - 1
  <2> SUFFICES ASSUME NEW k PROVE Nth(kept, k) = CHOOSE i \in kept : Rank(i) = k - 1
    OBVIOUS
  <2>1. \A i \in kept : Rank(i) = Cardinality({j \in kept : j < i})
    BY <1>3
  <2> HIDE DEF Rank
  <2> QED BY <2>1 DEF Nth
<1> HIDE DEF Rank, n
<1>7. ASSUME NEW k \in 1..n PROVE Nth(kept, k) \in kept /\ Rank(Nth(kept, k)) = k - 1
  <2>1. k - 1 \in 0..(n - 1)
    BY <1>1
  <2> QED BY <2>1, <1>5, <1>6
<1>8. ASSUME NEW k \in 1..n, NEW l \in 1..n, k < l PROVE Nth(kept, k) < Nth(kept, l)
  <2>1. k - 1 < l - 1
    BY <1>8
  <2> QED BY <2>1, <1>7, <1>5
<1>9. ASSUME NEW i \in kept PROVE \E k \in 1..n : Nth(kept, k) = i
  <2>1. Rank(i) + 1 \in 1..n /\ (Rank(i) + 1) - 1 = Rank(i)
    BY <1>5, <1>1
  <2> QED BY <2>1, <1>5, <1>7
<1> QED BY <1>1, <1>7, <1>8, <1>9 DEF n

(* The levels that are not empty, in order: at says where they were.       *)
LEMMA NonEmptyFacts ==
    ASSUME NEW X, NEW levels \in Seq(SUBSET X)
    PROVE  /\ NonEmpty(levels) \in Seq(SUBSET X) /\ Len(NonEmpty(levels)) \in 0..Len(levels)
           /\ \E place \in [1..Len(NonEmpty(levels)) -> 1..Len(levels)] :
                 /\ \A k \in 1..Len(NonEmpty(levels)) :
                       /\ NonEmpty(levels)[k] = levels[place[k]] /\ levels[place[k]] # {}
                 /\ \A k, l \in 1..Len(NonEmpty(levels)) : k < l => place[k] < place[l]
                 /\ \A i \in 1..Len(levels) : levels[i] # {} =>
                       \E k \in 1..Len(NonEmpty(levels)) : place[k] = i
<1> DEFINE kept == {i \in DOMAIN levels : levels[i] # {}}
           n == Cardinality(kept)
<1>1. DOMAIN levels = 1..Len(levels) /\ Len(levels) \in Nat
  OBVIOUS
<1>2. IsFiniteSet(1..Len(levels)) /\ Cardinality(1..Len(levels)) = Len(levels)
  BY <1>1, FS_Interval
<1>3. kept \in SUBSET (1..Len(levels)) /\ kept \in SUBSET Int
  BY <1>1
<1>4. IsFiniteSet(kept) /\ n <= Len(levels) /\ n \in Nat
  BY <1>2, <1>3, FS_Subset, FS_CardinalityType
<1>5. NonEmpty(levels) = [k \in 1..n |-> levels[Nth(kept, k)]]
  BY DEF NonEmpty, Picked
<1> DEFINE place == [k \in 1..n |-> Nth(kept, k)]
<1>6. \A i \in kept : levels[i] # {} /\ levels[i] \in SUBSET X /\ i \in 1..Len(levels)
  BY <1>1
<1>7. \A i \in 1..Len(levels) : levels[i] # {} => i \in kept
  BY <1>1
<1> HIDE DEF kept, n
<1>8. /\ \A k \in 1..n : Nth(kept, k) \in kept
      /\ \A k, l \in 1..n : k < l => Nth(kept, k) < Nth(kept, l)
      /\ \A i \in kept : \E k \in 1..n : Nth(kept, k) = i
  BY <1>3, <1>4, NthFacts DEF n
<1>9. NonEmpty(levels) \in [1..n -> SUBSET X]
  BY <1>5, <1>6, <1>8
<1>10. NonEmpty(levels) \in Seq(SUBSET X) /\ Len(NonEmpty(levels)) = n
  BY <1>9, <1>4
<1>11. place \in [1..n -> 1..Len(levels)]
  BY <1>6, <1>8
<1>12. /\ \A k \in 1..n : NonEmpty(levels)[k] = levels[place[k]] /\ levels[place[k]] # {}
       /\ \A k, l \in 1..n : k < l => place[k] < place[l]
       /\ \A i \in 1..Len(levels) : levels[i] # {} => \E k \in 1..n : place[k] = i
  <2>1. \A k \in 1..n : place[k] = Nth(kept, k)
    OBVIOUS
  <2> HIDE DEF place
  <2>2. \A k \in 1..n : NonEmpty(levels)[k] = levels[place[k]] /\ levels[place[k]] # {}
    BY <2>1, <1>5, <1>6, <1>8
  <2>3. \A k, l \in 1..n : k < l => place[k] < place[l]
    BY <2>1, <1>8
  <2>4. \A i \in 1..Len(levels) : levels[i] # {} => \E k \in 1..n : place[k] = i
    BY <2>1, <1>7, <1>8
  <2> QED BY <2>2, <2>3, <2>4
<1> HIDE DEF place
<1>13. Len(NonEmpty(levels)) \in 0..Len(levels)
  BY <1>4, <1>10
<1> QED BY <1>10, <1>11, <1>12, <1>13

-----------------------------------------------------------------------------
(* What an MDD is made of.                                                 *)

MddNodes == (0..Sigma) \X Nodes \X (SUBSET Characters)

Known == [toRoot : SUBSET Characters, allRoot : SUBSET Characters,
          sink : SUBSET Characters, allSink : SUBSET Characters, ub : 0..Sigma,
          needPred : BOOLEAN, needSucc : BOOLEAN, active : BOOLEAN]

NodesOf(M) == UNION {M.levels[i] : i \in 1..Len(M.levels)}

(* Levels lie behind one another, the root alone on the first.  Arcs go    *)
(* one deeper, and in the graph to a successor.                            *)
IsDiagram(M) ==
    /\ M = [side |-> M.side, levels |-> M.levels, arcs |-> M.arcs, facts |-> M.facts]
    /\ M.side \in Directions
    /\ M.levels \in Seq(SUBSET MddNodes) /\ Len(M.levels) >= 1
    /\ M.levels[1] = {RootNode(M.side)}
    /\ \A i, j \in 1..Len(M.levels) :
          \A n \in M.levels[i], m \in M.levels[j] : i < j <=> DepthOf(n) < DepthOf(m)
    /\ M.facts \in [NodesOf(M) -> Known]
    /\ \A n \in NodesOf(M) : n = RootNode(M.side) \/ MatchOf(n) \in Inner
    /\ \A a \in M.arcs : /\ a = <<a[1], a[2]>> /\ a[1] \in NodesOf(M) /\ a[2] \in NodesOf(M)
                         /\ DepthOf(a[2]) = DepthOf(a[1]) + 1
                         /\ MatchOf(a[2]) \in SuccessorMatches(M.side, MatchOf(a[1]))

(* What is known of nodes may change.                                      *)
LEMMA NewFactsDiagram ==
    ASSUME NEW M, IsDiagram(M), NEW F \in [NodesOf(M) -> Known]
    PROVE  LET N == [M EXCEPT !.facts = F]
           IN  /\ IsDiagram(N) /\ NodesOf(N) = NodesOf(M)
               /\ N.side = M.side /\ N.levels = M.levels /\ N.arcs = M.arcs /\ N.facts = F
<1> DEFINE N == [M EXCEPT !.facts = F]
<1>1. N = [side |-> M.side, levels |-> M.levels, arcs |-> M.arcs, facts |-> F]
  BY DEF IsDiagram
<1> HIDE DEF N
<1>2. N.side = M.side /\ N.levels = M.levels /\ N.arcs = M.arcs /\ N.facts = F
  BY <1>1
<1>3. NodesOf(N) = NodesOf(M)
  BY <1>2 DEF NodesOf
<1>4. IsDiagram(N)
  BY <1>1, <1>2, <1>3 DEF IsDiagram
<1> QED BY <1>2, <1>3, <1>4 DEF N

LEMMA FlaggedFacts ==
    ASSUME NEW D, NEW F \in [D -> Known], NEW A, NEW B
    PROVE  /\ Flagged(F, A, B) \in [D -> Known]
           /\ \A n \in D : /\ Flagged(F, A, B)[n].toRoot = F[n].toRoot
                           /\ Flagged(F, A, B)[n].allRoot = F[n].allRoot
                           /\ Flagged(F, A, B)[n].sink = F[n].sink
                           /\ Flagged(F, A, B)[n].allSink = F[n].allSink
                           /\ Flagged(F, A, B)[n].ub = F[n].ub
<1> DEFINE new(n) == [F[n] EXCEPT !.needSucc = @ \/ n \in A, !.needPred = @ \/ n \in B]
<1>1. Flagged(F, A, B) = [n \in D |-> new(n)]
  BY DEF Flagged
<1>2. ASSUME NEW n \in D
      PROVE  /\ new(n) \in Known
             /\ new(n).toRoot = F[n].toRoot /\ new(n).allRoot = F[n].allRoot
             /\ new(n).sink = F[n].sink /\ new(n).allSink = F[n].allSink /\ new(n).ub = F[n].ub
  <2>1. F[n] \in Known
    OBVIOUS
  <2>2. (F[n].needSucc \/ n \in A) \in BOOLEAN /\ (F[n].needPred \/ n \in B) \in BOOLEAN
    OBVIOUS
  <2> QED BY <2>1, <2>2 DEF Known
<1> HIDE DEF new
<1> QED BY <1>1, <1>2

(* Nodes and arcs may end, but for the root.                               *)
LEMMA DetachedDiagram ==
    ASSUME NEW M, IsDiagram(M), NEW gone, NEW cut, RootNode(M.side) \notin gone
    PROVE  LET N == Detached(M, gone, cut)
           IN  /\ IsDiagram(N) /\ N.side = M.side
               /\ Len(N.levels) = Len(M.levels)
               /\ \A i \in 1..Len(M.levels) : N.levels[i] = M.levels[i] \ gone
               /\ NodesOf(N) = NodesOf(M) \ gone
               /\ N.arcs = {a \in M.arcs : a \notin cut /\ a[1] \notin gone /\ a[2] \notin gone}
               /\ \A n \in NodesOf(N) : /\ N.facts[n].toRoot = M.facts[n].toRoot
                                        /\ N.facts[n].allRoot = M.facts[n].allRoot
                                        /\ N.facts[n].sink = M.facts[n].sink
                                        /\ N.facts[n].allSink = M.facts[n].allSink
                                        /\ N.facts[n].ub = M.facts[n].ub
<1> DEFINE N == Detached(M, gone, cut)
           lost == cut \cup {a \in M.arcs : a[1] \in gone \/ a[2] \in gone}
           left == [n \in NodesOf(M) \ gone |-> M.facts[n]]
           A == {a[1] : a \in lost}
           B == {a[2] : a \in lost}
           levels == [i \in 1..Len(M.levels) |-> M.levels[i] \ gone]
<1>1. DOMAIN M.facts = NodesOf(M) /\ DOMAIN M.levels = 1..Len(M.levels) /\ Len(M.levels) \in Nat
  BY DEF IsDiagram
<1>2. N = [side |-> M.side, levels |-> levels, arcs |-> M.arcs \ lost, facts |-> Flagged(left, A, B)]
  <2>1. M = [side |-> M.side, levels |-> M.levels, arcs |-> M.arcs, facts |-> M.facts]
    BY DEF IsDiagram
  <2>2. N = [M EXCEPT !.levels = [i \in DOMAIN @ |-> M.levels[i] \ gone], !.arcs = @ \ lost,
                      !.facts = Flagged([n \in DOMAIN M.facts \ gone |-> M.facts[n]], A, B)]
    BY DEF Detached
  <2>3. N = [M EXCEPT !.levels = levels, !.arcs = M.arcs \ lost, !.facts = Flagged(left, A, B)]
    BY <2>1, <2>2, <1>1
  <2> HIDE DEF N, levels, lost, left, A, B
  <2> QED BY <2>1, <2>3
<1> HIDE DEF N
<1>3. levels \in Seq(SUBSET MddNodes) /\ Len(levels) = Len(M.levels)
  <2>1. levels \in [1..Len(M.levels) -> SUBSET MddNodes]
    BY <1>1 DEF IsDiagram
  <2> QED BY <2>1, <1>1
<1>4. \A i \in 1..Len(M.levels) : levels[i] = M.levels[i] \ gone
  OBVIOUS
<1>5. left \in [NodesOf(M) \ gone -> Known]
  BY DEF IsDiagram
<1>6. \A n \in NodesOf(M) \ gone : left[n] = M.facts[n]
  OBVIOUS
<1> HIDE DEF levels, left, A, B
<1>7. /\ Flagged(left, A, B) \in [NodesOf(M) \ gone -> Known]
      /\ \A n \in NodesOf(M) \ gone : /\ Flagged(left, A, B)[n].toRoot = M.facts[n].toRoot
                                      /\ Flagged(left, A, B)[n].allRoot = M.facts[n].allRoot
                                      /\ Flagged(left, A, B)[n].sink = M.facts[n].sink
                                      /\ Flagged(left, A, B)[n].allSink = M.facts[n].allSink
                                      /\ Flagged(left, A, B)[n].ub = M.facts[n].ub
  BY <1>5, <1>6, FlaggedFacts
<1>8. /\ N.side = M.side /\ N.levels = levels /\ N.arcs = M.arcs \ lost
      /\ N.facts = Flagged(left, A, B)
  BY <1>2
<1>9. NodesOf(N) = NodesOf(M) \ gone
  BY <1>3, <1>4, <1>8 DEF NodesOf
<1>10. N.arcs = {a \in M.arcs : a \notin cut /\ a[1] \notin gone /\ a[2] \notin gone}
  BY <1>8
<1> HIDE DEF lost
<1>11. IsDiagram(N)
  <2>1. N = [side |-> N.side, levels |-> N.levels, arcs |-> N.arcs, facts |-> N.facts]
    BY <1>2, <1>8
  <2>2. N.side \in Directions /\ N.levels \in Seq(SUBSET MddNodes) /\ Len(N.levels) >= 1
    BY <1>3, <1>8 DEF IsDiagram
  <2>3. N.levels[1] = {RootNode(N.side)}
    BY <1>1, <1>4, <1>8 DEF IsDiagram
  <2>4. \A i, j \in 1..Len(N.levels) :
          \A n \in N.levels[i], m \in N.levels[j] : i < j <=> DepthOf(n) < DepthOf(m)
    BY <1>3, <1>4, <1>8 DEF IsDiagram
  <2>5. N.facts \in [NodesOf(N) -> Known]
    BY <1>7, <1>8, <1>9
  <2>6. \A n \in NodesOf(N) : n = RootNode(N.side) \/ MatchOf(n) \in Inner
    BY <1>8, <1>9 DEF IsDiagram
  <2>7. \A a \in N.arcs : /\ a = <<a[1], a[2]>> /\ a[1] \in NodesOf(N) /\ a[2] \in NodesOf(N)
                          /\ DepthOf(a[2]) = DepthOf(a[1]) + 1
                          /\ MatchOf(a[2]) \in SuccessorMatches(N.side, MatchOf(a[1]))
    BY <1>8, <1>9, <1>10 DEF IsDiagram
  <2> QED BY <2>1, <2>2, <2>3, <2>4, <2>5, <2>6, <2>7 DEF IsDiagram
<1> QED BY <1>3, <1>4, <1>7, <1>8, <1>9, <1>10, <1>11 DEF N

(* What a filter leaves of an MDD.                                         *)
Smaller(N, M) ==
    /\ N.side = M.side
    /\ NodesOf(N) \subseteq NodesOf(M) /\ N.arcs \subseteq M.arcs
    /\ Len(N.levels) <= Len(M.levels)

(* The relatives of a node, and where the nodes are.                       *)
LEMMA DiagramFacts ==
    ASSUME strings \in Inputs, NEW M, IsDiagram(M)
    PROVE  /\ DOMAIN M.levels = 1..Len(M.levels) /\ Len(M.levels) \in Nat \ {0}
           /\ DOMAIN M.facts = NodesOf(M) /\ NodesOf(M) \in SUBSET MddNodes
           /\ RootNode(M.side) \in NodesOf(M) /\ M.arcs \in SUBSET (NodesOf(M) \X NodesOf(M))
           /\ \A i \in 1..Len(M.levels) : M.levels[i] \subseteq NodesOf(M)
           /\ \A i \in 2..Len(M.levels) : RootNode(M.side) \notin M.levels[i]
           /\ \A n \in NodesOf(M) : /\ Preds(M, n) \subseteq NodesOf(M) /\ Succs(M, n) \subseteq NodesOf(M)
                                    /\ n = <<n[1], n[2], n[3]>> /\ DepthOf(n) \in 0..Sigma
                                    /\ MatchOf(n) \in Nodes /\ n[3] \in SUBSET Characters
           /\ \A n \in NodesOf(M) : n # RootNode(M.side) => Letter(n) \in Characters
           /\ \A n, s \in NodesOf(M) : s \in Succs(M, n) => /\ s # RootNode(M.side) /\ <<n, s>> \in M.arcs
                                                            /\ DepthOf(s) = DepthOf(n) + 1
           /\ \A n, p \in NodesOf(M) : p \in Preds(M, n) => <<p, n>> \in M.arcs
<1>1. /\ M.levels \in Seq(SUBSET MddNodes) /\ Len(M.levels) >= 1 /\ M.levels[1] = {RootNode(M.side)}
      /\ M.facts \in [NodesOf(M) -> Known]
      /\ \A i, j \in 1..Len(M.levels) :
            \A n \in M.levels[i], m \in M.levels[j] : i < j <=> DepthOf(n) < DepthOf(m)
      /\ \A n \in NodesOf(M) : n = RootNode(M.side) \/ MatchOf(n) \in Inner
      /\ \A a \in M.arcs : /\ a = <<a[1], a[2]>> /\ a[1] \in NodesOf(M) /\ a[2] \in NodesOf(M)
                           /\ DepthOf(a[2]) = DepthOf(a[1]) + 1
  BY DEF IsDiagram
<1>2. DOMAIN M.levels = 1..Len(M.levels) /\ Len(M.levels) \in Nat \ {0} /\ DOMAIN M.facts = NodesOf(M)
  BY <1>1
<1>3. \A i \in 1..Len(M.levels) : M.levels[i] \subseteq NodesOf(M) /\ M.levels[i] \subseteq MddNodes
  BY <1>1 DEF NodesOf
<1>4. NodesOf(M) \in SUBSET MddNodes
  BY <1>3 DEF NodesOf
<1>5. RootNode(M.side) \in NodesOf(M)
  BY <1>1, <1>2, <1>3
<1>6. DepthOf(RootNode(M.side)) = 0
  BY DEF DepthOf, RootNode
<1>7. \A i \in 2..Len(M.levels) : RootNode(M.side) \notin M.levels[i]
  BY <1>1, <1>2, <1>6
<1>8. ASSUME NEW n \in NodesOf(M)
      PROVE  /\ Preds(M, n) \subseteq NodesOf(M) /\ Succs(M, n) \subseteq NodesOf(M)
             /\ n = <<n[1], n[2], n[3]>> /\ DepthOf(n) \in 0..Sigma
             /\ MatchOf(n) \in Nodes /\ n[3] \in SUBSET Characters
  <2>1. n \in (0..Sigma) \X Nodes \X (SUBSET Characters)
    BY <1>4 DEF MddNodes
  <2>2. Preds(M, n) \subseteq NodesOf(M) /\ Succs(M, n) \subseteq NodesOf(M)
    BY <1>1 DEF Preds, Succs
  <2> QED BY <2>1, <2>2 DEF DepthOf, MatchOf
<1>9. \A n \in NodesOf(M) : n # RootNode(M.side) => Letter(n) \in Characters
  BY <1>1, InnerFacts DEF Letter
<1>10. ASSUME NEW n \in NodesOf(M), NEW s \in NodesOf(M), s \in Succs(M, n)
       PROVE  s # RootNode(M.side) /\ <<n, s>> \in M.arcs /\ DepthOf(s) = DepthOf(n) + 1
  <2>1. <<n, s>> \in M.arcs /\ DepthOf(s) = DepthOf(n) + 1
    BY <1>1, <1>10 DEF Succs
  <2>2. DepthOf(n) \in Nat
    BY <1>8
  <2> QED BY <2>1, <2>2, <1>6
<1>11. \A n, p \in NodesOf(M) : p \in Preds(M, n) => <<p, n>> \in M.arcs
  BY <1>1 DEF Preds
<1>12. M.arcs \in SUBSET (NodesOf(M) \X NodesOf(M))
  BY <1>1
<1> QED BY <1>2, <1>3, <1>4, <1>5, <1>7, <1>8, <1>9, <1>10, <1>11, <1>12

(* What nodes of an MDD can come to know.                                  *)
LEMMA CommonFacts ==
    ASSUME NEW S, NEW X, \A Y \in S : Y \subseteq X
    PROVE  Common(S) \subseteq X
  BY DEF Common

LEMMA FromPredsType ==
    ASSUME strings \in Inputs, NEW M, IsDiagram(M), NEW n \in NodesOf(M), n # RootNode(M.side)
    PROVE  UpdatedFromPreds(M, n) \in Known
<1> DEFINE f == M.facts[n]
           toRoot == (f.toRoot \cap UNION {M.facts[p].toRoot : p \in Preds(M, n)}) \cup {Letter(n)}
           common == Common({M.facts[p].allRoot : p \in Preds(M, n)})
           allRoot == IF Cardinality(toRoot) = DepthOf(n) THEN toRoot ELSE common \cup {Letter(n)}
<1>1. /\ f \in Known /\ Letter(n) \in Characters
      /\ \A p \in Preds(M, n) : M.facts[p] \in Known
  BY DiagramFacts DEF IsDiagram
<1>2. toRoot \subseteq Characters
  BY <1>1 DEF Known
<1>3. common \subseteq Characters
  <2>1. \A p \in Preds(M, n) : M.facts[p].allRoot \subseteq Characters
    BY <1>1 DEF Known
  <2> QED BY <2>1, CommonFacts
<1>4. UpdatedFromPreds(M, n) = [f EXCEPT !.toRoot = toRoot, !.allRoot = allRoot,
                                         !.sink = @ \ allRoot, !.needPred = FALSE]
  BY DEF UpdatedFromPreds
<1> HIDE DEF toRoot, common, f
<1>5. allRoot \subseteq Characters
  BY <1>1, <1>2, <1>3
<1> HIDE DEF allRoot
<1>6. f = [toRoot |-> f.toRoot, allRoot |-> f.allRoot, sink |-> f.sink, allSink |-> f.allSink,
           ub |-> f.ub, needPred |-> f.needPred, needSucc |-> f.needSucc, active |-> f.active]
  BY <1>1 DEF Known
<1>7. UpdatedFromPreds(M, n) =
        [toRoot |-> toRoot, allRoot |-> allRoot, sink |-> f.sink \ allRoot, allSink |-> f.allSink,
         ub |-> f.ub, needPred |-> FALSE, needSucc |-> f.needSucc, active |-> f.active]
  BY <1>4, <1>6
<1> QED BY <1>1, <1>2, <1>5, <1>7 DEF Known

LEMMA FromSuccsType ==
    ASSUME strings \in Inputs, NEW M, IsDiagram(M), NEW n \in NodesOf(M)
    PROVE  UpdatedFromSuccs(M, n) \in Known
<1> DEFINE f == M.facts[n]
           counted(s) == IF DepthOf(n) \in 1..lower THEN {Letter(s)} ELSE {}
           sink == f.sink \cap UNION {M.facts[s].sink \cup {Letter(s)} : s \in Succs(M, n)}
           allSink == Common({M.facts[s].allSink \cup counted(s) : s \in Succs(M, n)})
           bounds == {M.facts[s].ub : s \in Succs(M, n)}
           longest == MaxOr(0, bounds)
<1>1. /\ f \in Known
      /\ \A s \in Succs(M, n) : M.facts[s] \in Known /\ Letter(s) \in Characters
  BY DiagramFacts DEF IsDiagram
<1>2. sink \subseteq Characters
  BY <1>1 DEF Known
<1>3. allSink \subseteq Characters
  <2>1. \A s \in Succs(M, n) : (M.facts[s].allSink \cup counted(s)) \subseteq Characters
    BY <1>1 DEF Known
  <2> HIDE DEF counted
  <2> QED BY <2>1, CommonFacts
<1>4. longest \in Nat
  <2>1. bounds \subseteq 0..Sigma
    BY <1>1 DEF Known
  <2>2. IsFiniteSet(bounds)
    <3>1. Sigma \in Int /\ 0 \in Int
      BY CharactersFinite
    <3>2. IsFiniteSet(0..Sigma)
      BY <3>1, FS_Interval
    <3> HIDE DEF bounds
    <3> QED BY <2>1, <3>2, FS_Subset
  <2>3. bounds \subseteq Int /\ 0 \in Int
    BY <2>1
  <2> HIDE DEF bounds
  <2>4. MaxOr(0, bounds) \in bounds \cup {0}
    BY <2>2, <2>3, MaxOrFacts
  <2>5. \A b \in bounds : b \in Nat
    BY <2>1, CharactersFinite
  <2> QED BY <2>4, <2>5
<1>5. Cardinality(sink) \in Nat
  BY <1>2, CharactersFinite, FS_Subset, FS_CardinalityType
<1>6. UpdatedFromSuccs(M, n) =
        [f EXCEPT !.sink = sink, !.allSink = allSink,
                  !.ub = Min({@, longest + 1, Cardinality(sink)}), !.needSucc = FALSE]
  BY DEF UpdatedFromSuccs
<1>7. f.ub \in 0..Sigma
  BY <1>1 DEF Known
<1> HIDE DEF sink, allSink, longest, bounds, f
<1>8. Min({f.ub, longest + 1, Cardinality(sink)}) \in 0..Sigma
  <2>1. f.ub \in Int /\ longest + 1 \in Int /\ Cardinality(sink) \in Int
    BY <1>4, <1>5, <1>7
  <2>2. /\ Min({f.ub, longest + 1, Cardinality(sink)}) \in {f.ub, longest + 1, Cardinality(sink)}
        /\ Min({f.ub, longest + 1, Cardinality(sink)}) <= f.ub
    BY <2>1, MinOfThree
  <2> QED BY <2>2, <1>4, <1>5, <1>7, CharactersFinite
<1> DEFINE ub == Min({f.ub, longest + 1, Cardinality(sink)})
<1>9. f = [toRoot |-> f.toRoot, allRoot |-> f.allRoot, sink |-> f.sink, allSink |-> f.allSink,
           ub |-> f.ub, needPred |-> f.needPred, needSucc |-> f.needSucc, active |-> f.active]
  BY <1>1 DEF Known
<1>10. UpdatedFromSuccs(M, n) =
        [toRoot |-> f.toRoot, allRoot |-> f.allRoot, sink |-> sink, allSink |-> allSink,
         ub |-> ub, needPred |-> f.needPred, needSucc |-> FALSE, active |-> f.active]
  BY <1>6, <1>9
<1> HIDE DEF ub
<1> QED BY <1>1, <1>2, <1>3, <1>8, <1>10 DEF Known, ub

(* One level is visited.                                                   *)
LEMMA VisitedDiagram ==
    ASSUME strings \in Inputs, NEW M, IsDiagram(M), NEW i \in 1..Len(M.levels),
           NEW new \in [M.levels[i] -> Known], NEW filtered
    PROVE  LET N == Visited(M, i, new, filtered).mdd
           IN  IsDiagram(N) /\ Smaller(N, M) /\ Len(N.levels) = Len(M.levels)
<1> DEFINE nodes == M.levels[i]
           cut == UNION {{<<n, s>> : s \in Succs(M, n) \ KeptSuccs(M, n, new[n])} : n \in filtered}
           pruned == {n \in nodes : /\ i > 1
                                    /\ M.facts[n].needPred \/ M.facts[n].needSucc
                                    /\ Prunable(M, n, new[n])}
           gone == IF pruned = {} THEN {} ELSE pruned \cup {n \in nodes : ~M.facts[n].active}
           shorter == {n \in nodes : new[n].ub # M.facts[n].ub}
           below == shorter \cup {n \in nodes : new[n].sink # M.facts[n].sink
                                                  \/ new[n].allSink # M.facts[n].allSink}
           above == shorter \cup {n \in nodes : new[n].toRoot # M.facts[n].toRoot
                                                  \/ new[n].allRoot # M.facts[n].allRoot}
           told == [n \in DOMAIN M.facts |-> IF n \in nodes THEN new[n] ELSE M.facts[n]]
           A == UNION {Preds(M, n) : n \in below}
           B == UNION {Succs(M, n) : n \in above}
           F == Flagged(told, A, B)
<1>1. Visited(M, i, new, filtered).mdd = Detached([M EXCEPT !.facts = F], gone, cut)
  BY DEF Visited
<1>2. told \in [NodesOf(M) -> Known]
  BY DiagramFacts DEF IsDiagram
<1>3. RootNode(M.side) \notin gone
  <2>1. i = 1 \/ RootNode(M.side) \notin nodes
    BY DiagramFacts
  <2>2. i = 1 => pruned = {}
    OBVIOUS
  <2>3. gone = {} \/ (i # 1 /\ gone \subseteq nodes)
    BY <2>2
  <2> QED BY <2>1, <2>3
<1> HIDE DEF told, gone, cut, A, B
<1>4. F \in [NodesOf(M) -> Known]
  BY <1>2, FlaggedFacts
<1> HIDE DEF F
<1> DEFINE N == [M EXCEPT !.facts = F]
<1>5. /\ IsDiagram(N) /\ NodesOf(N) = NodesOf(M)
      /\ N.side = M.side /\ N.levels = M.levels /\ N.arcs = M.arcs
  BY <1>4, NewFactsDiagram
<1> HIDE DEF N
<1>6. LET D == Detached(N, gone, cut)
      IN  /\ IsDiagram(D) /\ D.side = N.side /\ Len(D.levels) = Len(N.levels)
          /\ NodesOf(D) = NodesOf(N) \ gone /\ D.arcs \subseteq N.arcs
  <2>1. RootNode(N.side) \notin gone
    BY <1>3, <1>5
  <2> QED BY <2>1, <1>5, DetachedDiagram
<1>7. Len(M.levels) \in Nat
  BY DiagramFacts
<1> QED BY <1>1, <1>5, <1>6, <1>7 DEF Smaller, N

LEMMA DownVisitDiagram ==
    ASSUME strings \in Inputs, NEW M, IsDiagram(M), NEW i \in 2..Len(M.levels)
    PROVE  LET N == DownVisit(M, i).mdd
           IN  IsDiagram(N) /\ Smaller(N, M) /\ Len(N.levels) = Len(M.levels)
<1> DEFINE updating == {n \in M.levels[i] : M.facts[n].needPred /\ Preds(M, n) # {}}
           new == [n \in M.levels[i] |->
                      IF n \in updating THEN UpdatedFromPreds(M, n) ELSE M.facts[n]]
           learnt == {n \in updating : [M.facts[n] EXCEPT !.needPred = FALSE] # new[n]}
<1>1. DownVisit(M, i) = Visited(M, i, new, learnt)
  BY DEF DownVisit
<1>2. i \in 1..Len(M.levels) /\ RootNode(M.side) \notin M.levels[i] /\ M.levels[i] \subseteq NodesOf(M)
  BY DiagramFacts
<1>3. \A n \in M.levels[i] : UpdatedFromPreds(M, n) \in Known /\ M.facts[n] \in Known
  <2> SUFFICES ASSUME NEW n \in M.levels[i] PROVE UpdatedFromPreds(M, n) \in Known /\ M.facts[n] \in Known
    OBVIOUS
  <2>1. n \in NodesOf(M) /\ n # RootNode(M.side)
    BY <1>2
  <2> QED BY <2>1, FromPredsType DEF IsDiagram
<1>4. new \in [M.levels[i] -> Known]
  BY <1>3
<1> HIDE DEF new, learnt
<1> QED BY <1>1, <1>2, <1>4, VisitedDiagram

LEMMA UpVisitDiagram ==
    ASSUME strings \in Inputs, NEW M, IsDiagram(M), NEW i \in 1..Len(M.levels)
    PROVE  LET N == UpVisit(M, i).mdd
           IN  IsDiagram(N) /\ Smaller(N, M) /\ Len(N.levels) = Len(M.levels)
<1> DEFINE updating == {n \in M.levels[i] : M.facts[n].needSucc}
           new == [n \in M.levels[i] |->
                      IF n \in updating THEN UpdatedFromSuccs(M, n) ELSE M.facts[n]]
<1>1. UpVisit(M, i) = Visited(M, i, new, updating)
  BY DEF UpVisit
<1>2. M.levels[i] \subseteq NodesOf(M)
  BY DiagramFacts
<1>3. \A n \in M.levels[i] : UpdatedFromSuccs(M, n) \in Known /\ M.facts[n] \in Known
  BY <1>2, FromSuccsType DEF IsDiagram
<1>4. new \in [M.levels[i] -> Known]
  BY <1>3
<1> HIDE DEF new, updating
<1> QED BY <1>1, <1>4, VisitedDiagram

(* The end of a round.                                                     *)
LEMMA CutOffDiagram ==
    ASSUME strings \in Inputs, NEW M, IsDiagram(M), NEW u \in Nat, u + 1 <= Len(NonEmpty(M.levels))
    PROVE  LET N == CutOff(M, u)
           IN  IsDiagram(N) /\ Smaller(N, M) /\ Len(N.levels) = u + 1
<1> DEFINE levels == NonEmpty(M.levels)
           gone == UNION {levels[i] : i \in (u + 2)..Len(levels)}
           D == Detached(M, gone, {})
           N == CutOff(M, u)
           short == SubSeq(levels, 1, u + 1)
<1>1. /\ M.levels \in Seq(SUBSET MddNodes) /\ Len(M.levels) \in Nat /\ DOMAIN M.levels = 1..Len(M.levels)
      /\ Len(M.levels) >= 1 /\ M.levels[1] = {RootNode(M.side)}
      /\ \A i, j \in 1..Len(M.levels) :
            \A n \in M.levels[i], m \in M.levels[j] : i < j <=> DepthOf(n) < DepthOf(m)
  BY DiagramFacts DEF IsDiagram
<1>2. /\ levels \in Seq(SUBSET MddNodes) /\ Len(levels) \in 0..Len(M.levels)
      /\ \E place \in [1..Len(levels) -> 1..Len(M.levels)] :
            /\ \A k \in 1..Len(levels) : levels[k] = M.levels[place[k]] /\ M.levels[place[k]] # {}
            /\ \A k, l \in 1..Len(levels) : k < l => place[k] < place[l]
            /\ \A i \in 1..Len(M.levels) : M.levels[i] # {} => \E k \in 1..Len(levels) : place[k] = i
  <2> DEFINE all == M.levels
  <2>1. all \in Seq(SUBSET MddNodes)
    BY <1>1
  <2> HIDE DEF all
  <2>2. /\ NonEmpty(all) \in Seq(SUBSET MddNodes) /\ Len(NonEmpty(all)) \in 0..Len(all)
        /\ \E place \in [1..Len(NonEmpty(all)) -> 1..Len(all)] :
              /\ \A k \in 1..Len(NonEmpty(all)) :
                    /\ NonEmpty(all)[k] = all[place[k]] /\ all[place[k]] # {}
              /\ \A k, l \in 1..Len(NonEmpty(all)) : k < l => place[k] < place[l]
              /\ \A i \in 1..Len(all) : all[i] # {} =>
                    \E k \in 1..Len(NonEmpty(all)) : place[k] = i
    BY <2>1, NonEmptyFacts, Zenon
  <2> QED BY <2>2 DEF all
<1> HIDE DEF levels
<1>3. PICK place \in [1..Len(levels) -> 1..Len(M.levels)] :
            /\ \A k \in 1..Len(levels) : levels[k] = M.levels[place[k]] /\ M.levels[place[k]] # {}
            /\ \A k, l \in 1..Len(levels) : k < l => place[k] < place[l]
            /\ \A i \in 1..Len(M.levels) : M.levels[i] # {} => \E k \in 1..Len(levels) : place[k] = i
  BY <1>2
<1>4. Len(levels) \in Nat /\ u + 1 <= Len(levels)
  BY <1>1, <1>2 DEF levels
<1>5. ASSUME NEW k \in 1..Len(levels), NEW l \in 1..Len(levels),
             NEW n \in levels[k], NEW m \in levels[l]
      PROVE  k < l <=> DepthOf(n) < DepthOf(m)
  <2>1. /\ place[k] \in 1..Len(M.levels) /\ levels[k] = M.levels[place[k]]
        /\ place[l] \in 1..Len(M.levels) /\ levels[l] = M.levels[place[l]]
    BY <1>3
  <2>2. place[k] < place[l] <=> DepthOf(n) < DepthOf(m)
    BY <2>1, <1>1
  <2>3. /\ k < l => place[k] < place[l]
        /\ l < k => place[l] < place[k]
        /\ k = l => place[k] = place[l]
    BY <1>3
  <2>4. k \in Nat /\ l \in Nat /\ place[k] \in Int /\ place[l] \in Int
    BY <1>1, <1>2, <2>1
  <2> QED BY <2>2, <2>3, <2>4
<1>6. levels[1] = {RootNode(M.side)}
  <2>4. 1 \in 1..Len(M.levels) /\ M.levels[1] # {}
    BY <1>1
  <2>1. PICK k \in 1..Len(levels) : place[k] = 1
    BY <2>4, <1>3
  <2>2. 1 \in 1..Len(levels) /\ place[1] \in 1..Len(M.levels)
    BY <1>3, <1>4
  <2>3. k = 1
    BY <2>1, <2>2, <1>1, <1>3, <1>4
  <2> QED BY <2>1, <2>2, <2>3, <1>1, <1>3
<1>7. DepthOf(RootNode(M.side)) = 0
  BY DEF DepthOf, RootNode
<1>8. \A n \in MddNodes : DepthOf(n) \in Nat
  BY CharactersFinite DEF MddNodes, DepthOf
<1>9. NodesOf(M) = UNION {levels[k] : k \in 1..Len(levels)}
  <2>1. ASSUME NEW n \in NodesOf(M) PROVE \E k \in 1..Len(levels) : n \in levels[k]
    <3>1. PICK i \in 1..Len(M.levels) : n \in M.levels[i]
      BY DEF NodesOf
    <3>2. PICK k \in 1..Len(levels) : place[k] = i
      BY <3>1, <1>3
    <3> QED BY <3>1, <3>2, <1>3
  <2>2. ASSUME NEW k \in 1..Len(levels), NEW n \in levels[k] PROVE n \in NodesOf(M)
    BY <1>3, <2>2 DEF NodesOf
  <2> QED BY <2>1, <2>2
<1>10. gone = UNION {levels[k] : k \in (u + 2)..Len(levels)}
  OBVIOUS
<1>11. \A k \in 1..(u + 1) : levels[k] \cap gone = {}
  <2> SUFFICES ASSUME NEW k \in 1..(u + 1), NEW n \in levels[k], n \in gone PROVE FALSE
    OBVIOUS
  <2>1. PICK l \in (u + 2)..Len(levels) : n \in levels[l]
    OBVIOUS
  <2>2. k \in 1..Len(levels) /\ l \in 1..Len(levels) /\ k < l
    BY <1>4
  <2>3. DepthOf(n) < DepthOf(n)
    BY <2>1, <2>2, <1>5
  <2>4. DepthOf(n) \in Nat
    BY <2>2, <1>2, <1>8
  <2> QED BY <2>3, <2>4
<1> HIDE DEF gone
<1>12. RootNode(M.side) \notin gone
  BY <1>6, <1>11
<1>13. /\ IsDiagram(D) /\ D.side = M.side
       /\ NodesOf(D) = NodesOf(M) \ gone /\ D.arcs \subseteq M.arcs
  BY <1>12, DetachedDiagram
<1> HIDE DEF D
<1>14. N = [D EXCEPT !.levels = short]
  BY DEF CutOff, D, gone, levels
<1> HIDE DEF N
<1>15. N = [side |-> D.side, levels |-> short, arcs |-> D.arcs, facts |-> D.facts]
  <2>1. D = [side |-> D.side, levels |-> D.levels, arcs |-> D.arcs, facts |-> D.facts]
    BY <1>13 DEF IsDiagram
  <2> HIDE DEF short
  <2> QED BY <2>1, <1>14
<1>16. /\ short \in Seq(SUBSET MddNodes) /\ Len(short) = u + 1
       /\ \A k \in 1..(u + 1) : short[k] = levels[k]
  BY <1>2, <1>4
<1> HIDE DEF short
<1>17. N.side = D.side /\ N.levels = short /\ N.arcs = D.arcs /\ N.facts = D.facts
  BY <1>15
<1>18. NodesOf(N) = NodesOf(D)
  <2>1. ASSUME NEW n \in NodesOf(D) PROVE n \in NodesOf(N)
    <3>1. PICK k \in 1..Len(levels) : n \in levels[k]
      BY <1>9, <1>13
    <3>2. k \in 1..(u + 1)
      BY <3>1, <1>4, <1>10, <1>13
    <3> QED BY <3>1, <3>2, <1>16, <1>17 DEF NodesOf
  <2>2. ASSUME NEW n \in NodesOf(N) PROVE n \in NodesOf(D)
    <3>1. PICK k \in 1..(u + 1) : n \in levels[k]
      BY <1>16, <1>17 DEF NodesOf
    <3>2. k \in 1..Len(levels)
      BY <1>4
    <3>3. n \in NodesOf(M)
      BY <3>1, <3>2, <1>9
    <3> QED BY <3>1, <3>3, <1>11, <1>13
  <2> QED BY <2>1, <2>2
<1>19. IsDiagram(N)
  <2>1. N = [side |-> N.side, levels |-> N.levels, arcs |-> N.arcs, facts |-> N.facts]
    BY <1>15, <1>17
  <2>2. N.side \in Directions /\ N.levels \in Seq(SUBSET MddNodes) /\ Len(N.levels) >= 1
    BY <1>13, <1>16, <1>17 DEF IsDiagram
  <2>3. N.levels[1] = {RootNode(N.side)}
    BY <1>6, <1>13, <1>16, <1>17
  <2>4. \A i, j \in 1..Len(N.levels) :
          \A n \in N.levels[i], m \in N.levels[j] : i < j <=> DepthOf(n) < DepthOf(m)
    <3> SUFFICES ASSUME NEW i \in 1..Len(N.levels), NEW j \in 1..Len(N.levels)
                 PROVE  \A n \in N.levels[i], m \in N.levels[j] : i < j <=> DepthOf(n) < DepthOf(m)
      OBVIOUS
    <3>1. /\ i \in 1..Len(levels) /\ j \in 1..Len(levels)
          /\ N.levels[i] = levels[i] /\ N.levels[j] = levels[j]
      BY <1>4, <1>16, <1>17
    <3> QED BY <3>1, <1>5
  <2>5. N.facts \in [NodesOf(N) -> Known]
    BY <1>13, <1>17, <1>18 DEF IsDiagram
  <2>6. \A n \in NodesOf(N) : n = RootNode(N.side) \/ MatchOf(n) \in Inner
    BY <1>13, <1>17, <1>18 DEF IsDiagram
  <2>7. \A a \in N.arcs : /\ a = <<a[1], a[2]>> /\ a[1] \in NodesOf(N) /\ a[2] \in NodesOf(N)
                          /\ DepthOf(a[2]) = DepthOf(a[1]) + 1
                          /\ MatchOf(a[2]) \in SuccessorMatches(N.side, MatchOf(a[1]))
    BY <1>13, <1>17, <1>18 DEF IsDiagram
  <2> QED BY <2>1, <2>2, <2>3, <2>4, <2>5, <2>6, <2>7 DEF IsDiagram
<1>20. Smaller(N, M) /\ Len(N.levels) = u + 1
  <2>1. u + 1 <= Len(M.levels)
    BY <1>1, <1>2, <1>4
  <2> QED BY <2>1, <1>13, <1>16, <1>17, <1>18 DEF Smaller
<1> QED BY <1>19, <1>20 DEF N

(* A copy, and what the flags of a layout leave.                           *)
LEMMA CopyDiagram ==
    ASSUME strings \in Inputs, NEW M, IsDiagram(M)
    PROVE  /\ IsDiagram(CopyOf(M)) /\ CopyOf(M).side = M.side /\ CopyOf(M).levels = M.levels
           /\ NodesOf(CopyOf(M)) = NodesOf(M) /\ CopyOf(M).arcs = M.arcs
<1> DEFINE F == [n \in DOMAIN M.facts |->
                   [M.facts[n] EXCEPT !.needPred = FALSE, !.needSucc = FALSE, !.active = TRUE]]
<1>1. F \in [NodesOf(M) -> Known]
  <2>1. DOMAIN M.facts = NodesOf(M) /\ \A n \in NodesOf(M) : M.facts[n] \in Known
    BY DEF IsDiagram
  <2> QED BY <2>1 DEF Known
<1>2. CopyOf(M) = [M EXCEPT !.facts = F]
  BY DEF CopyOf
<1> HIDE DEF F
<1> QED BY <1>1, <1>2, NewFactsDiagram

LEMMA PrunedDiagram ==
    ASSUME strings \in Inputs, NEW M, IsDiagram(M), NEW flat, Len(flat) > 0, Source(M.side) \in flat[1].matches
    PROVE  LET N == PrunedByFlat(M, flat) IN IsDiagram(N) /\ Smaller(N, M) /\ Len(N.levels) = Len(M.levels)
<1> DEFINE matches(k) == IF k < Len(flat) THEN flat[k + 1].matches ELSE {}
           gone == {n \in DOMAIN M.facts : MatchOf(n) \notin matches(DepthOf(n))}
           cut == {a \in M.arcs : a[1] \notin gone
                                  => <<MatchOf(a[1]), MatchOf(a[2])>> \notin flat[DepthOf(a[1]) + 1].arcs}
<1>1. PrunedByFlat(M, flat) = Detached(M, gone, cut)
  BY DEF PrunedByFlat
<1>2. RootNode(M.side) \notin gone
  <2>1. MatchOf(RootNode(M.side)) = Source(M.side) /\ DepthOf(RootNode(M.side)) = 0
    BY DEF MatchOf, DepthOf, RootNode
  <2> QED BY <2>1
<1>3. Len(M.levels) \in Nat
  BY DiagramFacts
<1> HIDE DEF gone, cut
<1>4. LET N == Detached(M, gone, cut)
      IN  /\ IsDiagram(N) /\ N.side = M.side /\ Len(N.levels) = Len(M.levels)
          /\ NodesOf(N) = NodesOf(M) \ gone /\ N.arcs \subseteq M.arcs
  BY <1>2, DetachedDiagram
<1> QED BY <1>1, <1>3, <1>4 DEF Smaller

(* A level with a character split.  Without the characters on which nodes  *)
(* were split, an MDD lies within the one it was made from.                *)
Unsplit(n) == <<n[1], n[2], {}>>

Within(M, P) ==
    /\ M.side = P.side
    /\ \A n \in NodesOf(M) : Unsplit(n) \in NodesOf(P)
    /\ \A a \in M.arcs : <<Unsplit(a[1]), Unsplit(a[2])>> \in P.arcs
    /\ Len(M.levels) <= Len(P.levels)

LEMMA SmallerWithin ==
    ASSUME NEW P, NEW M, NEW N, IsDiagram(P), IsDiagram(M), IsDiagram(N), Within(M, P), Smaller(N, M)
    PROVE  Within(N, P)
<1>1. Len(N.levels) <= Len(P.levels)
  <2>1. Len(N.levels) \in Int /\ Len(M.levels) \in Int /\ Len(P.levels) \in Int
    BY DEF IsDiagram
  <2> QED BY <2>1 DEF Within, Smaller
<1> QED BY <1>1 DEF Within, Smaller

LEMMA SplitDiagram ==
    ASSUME strings \in Inputs, NEW M, IsDiagram(M), NEW i \in 2..Len(M.levels), NEW c \in Characters,
           NEW skipped
    PROVE  LET N == SplitLevel(M, i, c, skipped)
           IN  /\ IsDiagram(N) /\ Len(N.levels) = Len(M.levels) /\ N.side = M.side
               /\ \A n \in NodesOf(N) : \E o \in NodesOf(M) : Unsplit(n) = Unsplit(o)
               /\ \A a \in N.arcs : \E b \in M.arcs : /\ Unsplit(a[1]) = Unsplit(b[1])
                                                      /\ Unsplit(a[2]) = Unsplit(b[2])
<1> DEFINE apart == SplitNodes(M, i, c)
           dead == Deactivated(M, i, c)
           useful == {n \in apart : /\ MovedPreds(M, n, c) # {}
                                    /\ Succs(M, n) # {} \/ DepthOf(n) > lower}
           cut == UNION {{<<p, n>> : p \in MovedPreds(M, n, c)}
                           \cup {<<n, s>> : s \in LostSuccs(M, n, c)} : n \in apart}
           freed == UNION {LeftIn(M, n, c) \cup LeftOut(M, n, c) : n \in dead} \ skipped
           moved(n) == {<<p, NoMaybe(n, c)>> : p \in MovedPreds(M, n, c)}
           kept(n) == {<<NoMaybe(n, c), s>> : s \in Succs(M, n)}
           added == UNION {moved(n) \cup kept(n) : n \in useful}
           copies == {NoMaybe(n, c) : n \in useful}
           original(n) == CHOOSE o \in useful : NoMaybe(o, c) = n
           facts == [n \in DOMAIN M.facts \cup copies |->
               IF n \in copies
               THEN [M.facts[original(n)] EXCEPT !.toRoot = @ \ {c}, !.allRoot = @ \ {c}, !.active = TRUE,
                                                 !.needPred = TRUE, !.needSucc = TRUE]
               ELSE IF n \in apart
               THEN [M.facts[n] EXCEPT !.sink = @ \ {c}, !.allRoot = @ \cup {c}, !.active = @ /\ n \notin dead,
                                       !.needPred = TRUE, !.needSucc = TRUE]
               ELSE M.facts[n]]
           A == UNION {Preds(M, n) : n \in apart}
           B == UNION {Succs(M, n) : n \in apart}
           levels == [M.levels EXCEPT ![i] = @ \cup copies]
           arcs == (M.arcs \ (cut \cup freed)) \cup added
           F == Flagged(facts, A, B)
           N == SplitLevel(M, i, c, skipped)
<1>1. /\ M.levels \in Seq(SUBSET MddNodes) /\ Len(M.levels) \in Nat /\ DOMAIN M.levels = 1..Len(M.levels)
      /\ Len(M.levels) >= 1 /\ M.levels[1] = {RootNode(M.side)} /\ DOMAIN M.facts = NodesOf(M)
      /\ \A k, j \in 1..Len(M.levels) :
            \A n \in M.levels[k], m \in M.levels[j] : k < j <=> DepthOf(n) < DepthOf(m)
      /\ i \in 1..Len(M.levels) /\ i # 1
  BY DiagramFacts DEF IsDiagram
<1>2. /\ apart \subseteq M.levels[i] /\ useful \subseteq apart
      /\ \A n \in useful : n \in NodesOf(M) /\ n # RootNode(M.side)
  BY <1>1, DiagramFacts DEF SplitNodes
<1>3. \A n \in useful : \A p \in MovedPreds(M, n, c) : p \in NodesOf(M) /\ <<p, n>> \in M.arcs
  BY <1>2, DiagramFacts DEF MovedPreds
<1>4. \A n \in useful : \A s \in Succs(M, n) : s \in NodesOf(M) /\ <<n, s>> \in M.arcs
  BY <1>2, DiagramFacts
<1>5. N = [M EXCEPT !.levels[i] = @ \cup copies, !.arcs = (@ \ (cut \cup freed)) \cup added, !.facts = F]
  BY DEF SplitLevel
<1>6. ASSUME NEW n \in useful
      PROVE  /\ NoMaybe(n, c) \in MddNodes /\ Unsplit(NoMaybe(n, c)) = Unsplit(n)
             /\ DepthOf(NoMaybe(n, c)) = DepthOf(n) /\ MatchOf(NoMaybe(n, c)) = MatchOf(n)
             /\ MatchOf(n) \in Inner /\ NoMaybe(n, c) # RootNode(M.side)
  <2>1. n \in (0..Sigma) \X Nodes \X (SUBSET Characters) /\ MatchOf(n) \in Inner
    BY <1>2, DiagramFacts DEF IsDiagram, MddNodes
  <2>2. MatchOf(n) # Source(M.side)
    BY <2>1, InnerFacts DEF Source
  <2> QED BY <2>1, <2>2 DEF NoMaybe, MddNodes, Unsplit, DepthOf, MatchOf, RootNode
<1>7. facts \in [NodesOf(M) \cup copies -> Known]
  <2>1. ASSUME NEW n \in copies PROVE M.facts[original(n)] \in Known
    <3>1. original(n) \in useful
      OBVIOUS
    <3> QED BY <3>1, <1>2 DEF IsDiagram
  <2>2. \A n \in NodesOf(M) : M.facts[n] \in Known
    BY DEF IsDiagram
  <2>3. apart \subseteq NodesOf(M)
    BY <1>1, <1>2, DiagramFacts
  <2> HIDE DEF original, copies, apart, dead
  <2>4. ASSUME NEW n \in copies
        PROVE  [M.facts[original(n)] EXCEPT !.toRoot = @ \ {c}, !.allRoot = @ \ {c}, !.active = TRUE,
                                            !.needPred = TRUE, !.needSucc = TRUE] \in Known
    BY <2>1, <2>4 DEF Known
  <2>5. ASSUME NEW n \in NodesOf(M)
        PROVE  [M.facts[n] EXCEPT !.sink = @ \ {c}, !.allRoot = @ \cup {c}, !.active = @ /\ n \notin dead,
                                  !.needPred = TRUE, !.needSucc = TRUE] \in Known
    <3>1. M.facts[n] \in Known /\ (M.facts[n].active /\ n \notin dead) \in BOOLEAN
      BY <2>2
    <3> QED BY <3>1 DEF Known
  <2> QED BY <1>1, <2>2, <2>3, <2>4, <2>5
<1>8. /\ \A b \in arcs : b \in M.arcs \/ (\E n \in useful : b \in moved(n)) \/ (\E n \in useful : b \in kept(n))
      /\ \A n \in copies : \E o \in useful : n = NoMaybe(o, c)
  OBVIOUS
<1> HIDE DEF facts, A, B, cut, freed, added, copies, useful, apart
<1>9. F \in [NodesOf(M) \cup copies -> Known]
  BY <1>7, FlaggedFacts
<1> HIDE DEF F, N
<1>10. N = [side |-> M.side, levels |-> levels, arcs |-> arcs, facts |-> F]
  <2>1. M = [side |-> M.side, levels |-> M.levels, arcs |-> M.arcs, facts |-> M.facts]
    BY DEF IsDiagram
  <2> QED BY <2>1, <1>5
<1>11. /\ levels \in Seq(SUBSET MddNodes) /\ Len(levels) = Len(M.levels)
       /\ \A k \in 1..Len(M.levels) : levels[k] = M.levels[k] \/ (k = i /\ levels[k] = M.levels[i] \cup copies)
       /\ levels[i] = M.levels[i] \cup copies
  <2>1. copies \in SUBSET MddNodes
    BY <1>6, <1>8
  <2>2. M.levels[i] \cup copies \in SUBSET MddNodes
    BY <2>1, <1>1
  <2> QED BY <2>2, <1>1
<1> HIDE DEF levels, arcs
<1>12. N.side = M.side /\ N.levels = levels /\ N.arcs = arcs /\ N.facts = F
  BY <1>10
<1>13. NodesOf(N) = NodesOf(M) \cup copies
  <2>1. \A n \in NodesOf(N) : n \in NodesOf(M) \cup copies
    BY <1>1, <1>11, <1>12 DEF NodesOf
  <2>2. \A k \in 1..Len(M.levels) : M.levels[k] \subseteq levels[k]
    BY <1>11
  <2>3. \A n \in NodesOf(M) : n \in NodesOf(N)
    BY <2>2, <1>11, <1>12 DEF NodesOf
  <2>4. \A n \in copies : n \in NodesOf(N)
    BY <1>1, <1>11, <1>12 DEF NodesOf
  <2> QED BY <2>1, <2>3, <2>4
<1>14. \A n \in copies : \E o \in useful : n = NoMaybe(o, c) /\ o \in M.levels[i] /\ DepthOf(n) = DepthOf(o)
  BY <1>2, <1>6, <1>8
<1>15. ASSUME NEW b \in arcs
       PROVE  \E x \in M.arcs : /\ b = <<b[1], b[2]>> /\ b[1] \in NodesOf(N) /\ b[2] \in NodesOf(N)
                                /\ Unsplit(b[1]) = Unsplit(x[1]) /\ Unsplit(b[2]) = Unsplit(x[2])
                                /\ DepthOf(b[1]) = DepthOf(x[1]) /\ DepthOf(b[2]) = DepthOf(x[2])
                                /\ MatchOf(b[1]) = MatchOf(x[1]) /\ MatchOf(b[2]) = MatchOf(x[2])
  <2>1. CASE b \in M.arcs
    BY <2>1, <1>13 DEF IsDiagram
  <2>2. ASSUME NEW n \in useful, b \in moved(n) PROVE <1>15!2
    <3>1. PICK p \in MovedPreds(M, n, c) : b = <<p, NoMaybe(n, c)>>
      BY <2>2
    <3>2. NoMaybe(n, c) \in copies
      BY DEF copies
    <3>3. p \in NodesOf(N) /\ NoMaybe(n, c) \in NodesOf(N) /\ <<p, n>> \in M.arcs
      BY <3>1, <3>2, <1>3, <1>13
    <3> QED BY <3>1, <3>3, <1>6
  <2>3. ASSUME NEW n \in useful, b \in kept(n) PROVE <1>15!2
    <3>1. PICK s \in Succs(M, n) : b = <<NoMaybe(n, c), s>>
      BY <2>3
    <3>2. NoMaybe(n, c) \in copies
      BY DEF copies
    <3>3. s \in NodesOf(N) /\ NoMaybe(n, c) \in NodesOf(N) /\ <<n, s>> \in M.arcs
      BY <3>1, <3>2, <1>4, <1>13
    <3> QED BY <3>1, <3>3, <1>6
  <2> QED BY <2>1, <2>2, <2>3, <1>8
<1>16. IsDiagram(N)
  <2>1. N = [side |-> N.side, levels |-> N.levels, arcs |-> N.arcs, facts |-> N.facts]
    BY <1>10, <1>12
  <2>2. N.side \in Directions /\ N.levels \in Seq(SUBSET MddNodes) /\ Len(N.levels) >= 1
    BY <1>1, <1>11, <1>12 DEF IsDiagram
  <2>3. N.levels[1] = {RootNode(N.side)}
    BY <1>1, <1>11, <1>12
  <2>4. \A k, j \in 1..Len(N.levels) :
          \A n \in N.levels[k], m \in N.levels[j] : k < j <=> DepthOf(n) < DepthOf(m)
    <3> SUFFICES ASSUME NEW k \in 1..Len(M.levels), NEW j \in 1..Len(M.levels),
                        NEW n \in levels[k], NEW m \in levels[j]
                 PROVE  k < j <=> DepthOf(n) < DepthOf(m)
      BY <1>11, <1>12
    <3>1. PICK x \in M.levels[k] : DepthOf(n) = DepthOf(x)
      BY <1>11, <1>14
    <3>2. PICK y \in M.levels[j] : DepthOf(m) = DepthOf(y)
      BY <1>11, <1>14
    <3> QED BY <3>1, <3>2, <1>1
  <2>5. N.facts \in [NodesOf(N) -> Known]
    BY <1>9, <1>12, <1>13
  <2>6. \A n \in NodesOf(N) : n = RootNode(N.side) \/ MatchOf(n) \in Inner
    BY <1>6, <1>8, <1>12, <1>13 DEF IsDiagram
  <2>7. \A a \in N.arcs : /\ a = <<a[1], a[2]>> /\ a[1] \in NodesOf(N) /\ a[2] \in NodesOf(N)
                          /\ DepthOf(a[2]) = DepthOf(a[1]) + 1
                          /\ MatchOf(a[2]) \in SuccessorMatches(N.side, MatchOf(a[1]))
    <3> SUFFICES ASSUME NEW a \in arcs
                 PROVE  /\ a = <<a[1], a[2]>> /\ a[1] \in NodesOf(N) /\ a[2] \in NodesOf(N)
                        /\ DepthOf(a[2]) = DepthOf(a[1]) + 1
                        /\ MatchOf(a[2]) \in SuccessorMatches(M.side, MatchOf(a[1]))
      BY <1>12
    <3>1. \A x \in M.arcs : /\ DepthOf(x[2]) = DepthOf(x[1]) + 1
                            /\ MatchOf(x[2]) \in SuccessorMatches(M.side, MatchOf(x[1]))
      BY DEF IsDiagram
    <3> QED BY <3>1, <1>15
  <2> QED BY <2>1, <2>2, <2>3, <2>4, <2>5, <2>6, <2>7 DEF IsDiagram
<1>17. \A n \in NodesOf(N) : \E o \in NodesOf(M) : Unsplit(n) = Unsplit(o)
  BY <1>2, <1>6, <1>8, <1>13
<1> QED BY <1>11, <1>12, <1>15, <1>16, <1>17 DEF N

-----------------------------------------------------------------------------
(* The first MDD.                                                          *)

(* What create_initial_mdd makes of the matches there are on each depth.   *)
MddOver(d, fresh, matches) ==
    LET depths == {k \in 0..upper : matches[k] # {}}
        nodes(k) == {<<k, m, {}>> : m \in matches[k]}
        links(n) == {<<n, <<DepthOf(n) + 1, s, {}>>>> : s \in LinkedMatches(d, DepthOf(n), MatchOf(n))}
        inner == UNION {nodes(k) : k \in depths \ {0}}
    IN  [side |-> d,
         levels |-> [i \in 1..Cardinality(depths) |-> nodes(i - 1)],
         arcs |-> UNION {links(n) : n \in UNION {nodes(k) : k \in depths \ {upper}}},
         facts |-> [n \in inner \cup {RootNode(d)} |->
                       IF n \in inner THEN NewFacts(d, MatchOf(n)) ELSE RootFacts(d, fresh)]]

(* The graph is reduced and the bounds of the matches are known.           *)
GraphIsReduced ==
    /\ strings \in Inputs /\ BoundsOK /\ ArcsOK /\ upper \in 0..Sigma
    /\ \A d \in Directions, m \in active : up[d][m] <= Sigma

LEMMA LinkedFacts ==
    ASSUME NEW d, NEW k, NEW m
    PROVE  LinkedMatches(d, k, m) \subseteq active /\ LinkedMatches(d, k, m) \subseteq succ[d][m]
<1> DEFINE taken == avail[Opposite(d)][m]
           own == IF m \in Inner THEN {CharacterOf(m)} ELSE {}
           candidates ==
            {s \in succ[d][m] \cap Inner :
                /\ k + 1 <= up[Opposite(d)][s]
                /\ CharacterOf(s) \in avail[d][m] \ own
                /\ k + 1 + up[d][s] > lower
                /\ EnoughCharactersAvailable(k + 1, taken, avail[d][s])}
           passes == CHOOSE f : f = [s \in candidates |->
            LET before == {t \in candidates : Nearer(d, t, s) /\ f[t]}
            IN  /\ \A t \in before : CharacterOf(t) \in taken
                /\ ~Dominated(d, before, k)]
<1>1. LinkedMatches(d, k, m) = {s \in candidates : passes[s] /\ s \in active}
  BY DEF LinkedMatches
<1>2. candidates \subseteq succ[d][m]
  OBVIOUS
<1> HIDE DEF candidates, passes
<1> QED BY <1>1, <1>2

(* The recursive definition of the matches on each depth has a solution.   *)
LEMMA MatchesUnfold ==
    ASSUME GraphIsReduced, NEW d \in Directions, NEW fresh
    PROVE  \E matches \in [0..upper -> SUBSET Nodes] :
              /\ InitialMdd(d, fresh) = MddOver(d, fresh, matches)
              /\ \A k \in 0..upper :
                    matches[k] = IF k = 0 THEN {Source(d)}
                                 ELSE UNION {LinkedMatches(d, k - 1, m) : m \in matches[k - 1]}
<1> DEFINE K == 0..upper
           V == SUBSET Nodes
           Grown(X, k) == UNION {LinkedMatches(d, k - 1, m) : m \in X}
           Body(g) == [k \in 0..upper |-> IF k = 0 THEN {Source(d)} ELSE Grown(g[k - 1], k)]
           F == [g \in [K -> V] |-> Body(g)]
           rank == [k \in K |-> k]
           matches == CHOOSE g : g = Body(g)
<1>1. InitialMdd(d, fresh) = MddOver(d, fresh, matches)
  BY DEF InitialMdd, MddOver
<1>2. upper \in Nat
  BY CharactersFinite DEF GraphIsReduced
<1>3. /\ \A X \in V : \A k : Grown(X, k) \in V
      /\ {Source(d)} \in V
  <2>1. active \subseteq Nodes
    BY DEF GraphIsReduced, ArcsOK, Nodes
  <2> QED BY <2>1, LinkedFacts, DirectionFacts
<1>4. \A g \in [K -> V] : Body(g) \in [K -> V]
  <2> SUFFICES ASSUME NEW g \in [K -> V], NEW k \in K
               PROVE  (IF k = 0 THEN {Source(d)} ELSE Grown(g[k - 1], k)) \in V
    OBVIOUS
  <2>1. k # 0 => g[k - 1] \in V
    BY <1>2
  <2> HIDE DEF V, Grown
  <2> QED BY <1>3, <2>1
<1>5. Descends(F, K, V, rank, upper) /\ V # {}
  <2>1. rank \in [K -> 0..upper]
    OBVIOUS
  <2>2. F \in [[K -> V] -> [K -> V]]
    <3> HIDE DEF Body, K, V
    <3> QED BY <1>4
  <2>3. \A g, h \in [K -> V] : \A k \in K :
           (\A t \in K : rank[t] < rank[k] => g[t] = h[t]) => F[g][k] = F[h][k]
    <3> SUFFICES ASSUME NEW g \in [K -> V], NEW h \in [K -> V], NEW k \in K,
                        \A t \in K : rank[t] < rank[k] => g[t] = h[t]
                 PROVE  F[g][k] = F[h][k]
      <4> HIDE DEF F, K, V, rank
      <4> QED OBVIOUS
    <3>1. k # 0 => g[k - 1] = h[k - 1]
      BY <1>2
    <3> HIDE DEF Grown, V
    <3> QED BY <3>1
  <2>4. {} \in V
    OBVIOUS
  <2> HIDE DEF K, V, F, rank
  <2> QED BY <1>2, <2>1, <2>2, <2>3, <2>4 DEF Descends
<1>6. PICK g \in [K -> V] : F[g] = g
  <2> HIDE DEF K, V, F, rank
  <2> QED BY <1>5, RecursionHasSolution
<1>7. matches = Body(matches)
  <2>1. g = Body(g)
    BY <1>6
  <2> HIDE DEF Body
  <2> QED BY <2>1
<1> HIDE DEF matches
<1>8. \A k \in 0..upper : matches[k] = IF k = 0 THEN {Source(d)} ELSE Grown(matches[k - 1], k)
  <2> HIDE DEF Grown
  <2> QED BY <1>7
<1>9. matches \in [0..upper -> SUBSET Nodes]
  <2>1. matches = [k \in 0..upper |-> matches[k]]
    <3> HIDE DEF Grown
    <3> QED BY <1>7
  <2>2. ASSUME NEW k \in 0..upper PROVE matches[k] \in SUBSET Nodes
    <3>1. active \subseteq Nodes
      BY DEF GraphIsReduced, ArcsOK, Nodes
    <3>2. Grown(matches[k - 1], k) \subseteq active
      BY LinkedFacts
    <3> HIDE DEF Grown
    <3> QED BY <3>1, <3>2, <1>8, DirectionFacts
  <2> QED BY <2>1, <2>2
<1> QED BY <1>1, <1>8, <1>9

LEMMA InitialDiagram ==
    ASSUME GraphIsReduced, NEW d \in Directions, NEW fresh \in BOOLEAN
    PROVE  LET M == InitialMdd(d, fresh)
           IN  IsDiagram(M) /\ M.side = d /\ \A n \in NodesOf(M) : n[3] = {}
<1> DEFINE M == InitialMdd(d, fresh)
<1>1. PICK matches \in [0..upper -> SUBSET Nodes] :
              /\ M = MddOver(d, fresh, matches)
              /\ \A k \in 0..upper :
                    matches[k] = IF k = 0 THEN {Source(d)}
                                 ELSE UNION {LinkedMatches(d, k - 1, m) : m \in matches[k - 1]}
  BY MatchesUnfold
<1> HIDE DEF M
<1> DEFINE depths == {k \in 0..upper : matches[k] # {}}
           nodes(k) == {<<k, m, {}>> : m \in matches[k]}
           links(n) == {<<n, <<DepthOf(n) + 1, s, {}>>>> : s \in LinkedMatches(d, DepthOf(n), MatchOf(n))}
           inner == UNION {nodes(k) : k \in depths \ {0}}
           size == Cardinality(depths)
           levels == [i \in 1..size |-> nodes(i - 1)]
           arcs == UNION {links(n) : n \in UNION {nodes(k) : k \in depths \ {upper}}}
           facts == [n \in inner \cup {RootNode(d)} |->
                       IF n \in inner THEN NewFacts(d, MatchOf(n)) ELSE RootFacts(d, fresh)]
<1>2. M = [side |-> d, levels |-> levels, arcs |-> arcs, facts |-> facts]
  BY <1>1 DEF MddOver
<1>3. upper \in Nat /\ upper <= Sigma /\ Sigma \in Nat /\ strings \in Inputs
  BY CharactersFinite DEF GraphIsReduced
<1>4. matches[0] = {Source(d)}
  BY <1>1, <1>3
<1>5. \A k \in 0..upper : k # 0 =>
         matches[k] = UNION {LinkedMatches(d, k - 1, m) : m \in matches[k - 1]}
  BY <1>1
<1>6. \A k \in 0..upper : k # 0 => matches[k] \subseteq active
  BY <1>5, LinkedFacts
<1>7. active \subseteq Inner /\ \A m \in active : m \in Inner /\ m # Source(d)
  BY <1>3, InnerFacts, DirectionFacts DEF GraphIsReduced, ArcsOK
<1>8. depths = 0..(size - 1) /\ size \in 1..(upper + 1)
  <2>1. depths \subseteq 0..upper /\ 0 \in depths
    BY <1>3, <1>4
  <2>2. \A k \in depths : k # 0 => k - 1 \in depths
    BY <1>3, <1>5
  <2> HIDE DEF depths
  <2>3. depths \subseteq Int /\ depths # {} /\ \A k \in depths : k <= upper
    BY <2>1, <1>3
  <2>4. Max(depths) \in depths /\ \A k \in depths : k <= Max(depths)
    <3>1. upper \in Int
      BY <1>3
    <3> QED BY ONLY <2>3, <3>1, MaxOfBounded
  <2> DEFINE top == Max(depths)
             T == {j \in 0..top : top - j \notin depths}
  <2>5. top \in 0..upper
    BY <2>1, <2>4
  <2>6. T = {}
    <3> SUFFICES ASSUME T # {} PROVE FALSE
      OBVIOUS
    <3> HIDE DEF top
    <3>1. T \subseteq Nat
      BY <2>5, <1>3
    <3>2. PICK j \in T : \A x \in T : j <= x
      <4> HIDE DEF T
      <4> QED BY <3>1, LeastNumber
    <3>3. j # 0
      <4>1. top - 0 = top
        BY <2>5
      <4> QED BY <4>1, <2>4, <3>2 DEF top
    <3>4. j - 1 \in 0..top /\ j - 1 \notin T
      BY <3>1, <3>2, <3>3, <2>5
    <3>5. top - (j - 1) \in depths /\ top - (j - 1) # 0
      BY <3>2, <3>4, <2>5
    <3>6. (top - (j - 1)) - 1 \in depths
      BY <3>5, <2>2
    <3>7. (top - (j - 1)) - 1 = top - j
      BY <3>2, <2>5
    <3> QED BY <3>2, <3>6, <3>7
  <2>7. depths = 0..top
    <3>1. \A k \in depths : k \in 0..top
      BY <2>1, <2>4, <2>5, <1>3
    <3>2. ASSUME NEW k \in 0..top PROVE k \in depths
      <4> HIDE DEF top
      <4>1. top - k \in 0..top /\ top - (top - k) = k
        BY <2>5
      <4> QED BY <4>1, <2>6
    <3> QED BY <3>1, <3>2
  <2> HIDE DEF top
  <2>8. Cardinality(0..top) = top + 1
    <3>1. 0 \in Int /\ top \in Int /\ 0 <= top
      BY <2>5
    <3>2. Cardinality(0..top) = top - 0 + 1
      BY <3>1, FS_Interval
    <3> QED BY <3>1, <3>2
  <2>9. size = top + 1
    BY <2>7, <2>8
  <2> HIDE DEF size
  <2> QED BY <2>5, <2>7, <2>9, <1>3
<1> HIDE DEF size
<1>9. \A k \in 0..upper : \A n \in nodes(k) :
         /\ n \in MddNodes /\ DepthOf(n) = k /\ MatchOf(n) \in matches[k] /\ n[3] = {}
  <2> SUFFICES ASSUME NEW k \in 0..upper, NEW m \in matches[k]
               PROVE  LET n == <<k, m, {}>>
                      IN  n \in MddNodes /\ DepthOf(n) = k /\ MatchOf(n) \in matches[k] /\ n[3] = {}
    OBVIOUS
  <2>1. m \in Nodes
    BY <1>1
  <2>2. k \in 0..Sigma
    BY <1>3
  <2> QED BY <2>1, <2>2 DEF MddNodes, DepthOf, MatchOf
<1>10. nodes(0) = {RootNode(d)}
  BY <1>4 DEF RootNode
<1>11. /\ M.side = d /\ M.levels = levels /\ M.arcs = arcs /\ M.facts = facts
       /\ Len(levels) = size /\ levels \in [1..size -> SUBSET MddNodes]
       /\ levels \in Seq(SUBSET MddNodes)
       /\ \A i \in 1..size : levels[i] = nodes(i - 1) /\ i - 1 \in 0..upper /\ i - 1 \in depths
  <2>1. \A i \in 1..size : i - 1 \in 0..upper /\ i - 1 \in depths
    BY <1>8, <1>3
  <2>2. \A i \in 1..size : levels[i] = nodes(i - 1)
    OBVIOUS
  <2>3. \A i \in 1..size : nodes(i - 1) \in SUBSET MddNodes
    BY <2>1, <1>9
  <2>4. levels \in [1..size -> SUBSET MddNodes]
    BY <2>3
  <2>5. size \in Nat
    BY <1>8, <1>3
  <2>6. levels \in Seq(SUBSET MddNodes) /\ Len(levels) = size
    BY <2>4, <2>5
  <2>7. M.side = d /\ M.levels = levels /\ M.arcs = arcs /\ M.facts = facts
    BY <1>2
  <2> HIDE DEF levels, nodes
  <2> QED BY <2>1, <2>2, <2>4, <2>6, <2>7
<1> HIDE DEF levels
<1>12. NodesOf(M) = UNION {nodes(k) : k \in depths}
  <2>1. \A k \in depths : k + 1 \in 1..size /\ (k + 1) - 1 = k
    BY <1>8
  <2>2. ASSUME NEW n \in NodesOf(M) PROVE \E k \in depths : n \in nodes(k)
    <3>1. PICK i \in 1..size : n \in levels[i]
      BY <1>11 DEF NodesOf
    <3> QED BY <3>1, <1>11
  <2>3. ASSUME NEW k \in depths, NEW n \in nodes(k) PROVE n \in NodesOf(M)
    <3>1. k + 1 \in 1..size /\ n \in levels[k + 1]
      BY <2>1, <1>11
    <3> QED BY <3>1, <1>11 DEF NodesOf
  <2> HIDE DEF nodes, depths
  <2> QED BY <2>2, <2>3
<1>13. NodesOf(M) = inner \cup {RootNode(d)}
  <2>1. 0 \in depths
    BY <1>3, <1>4
  <2> HIDE DEF nodes, depths
  <2> QED BY <2>1, <1>10, <1>12
<1>14. \A n \in inner : MatchOf(n) \in active
  <2>1. \A k \in depths \ {0} : k \in 0..upper /\ k # 0
    OBVIOUS
  <2> HIDE DEF nodes, depths
  <2> QED BY <2>1, <1>6, <1>9
<1>15. facts \in [NodesOf(M) -> Known]
  <2>1. \A m \in active : NewFacts(d, m) \in Known
    <3> SUFFICES ASSUME NEW m \in active PROVE NewFacts(d, m) \in Known
      OBVIOUS
    <3>1. /\ m \in Nodes /\ CharacterOf(m) \in Characters
          /\ up[d][m] \in Nat /\ up[d][m] <= Sigma
          /\ avail[d][m] \subseteq Characters /\ avail[Opposite(d)][m] \subseteq Characters
      <4>1. m \in Nodes /\ CharacterOf(m) \in Characters
        BY <1>3, <1>7, InnerFacts
      <4>2. Present \subseteq Characters /\ Opposite(d) \in Directions
        BY <1>3, PresentFacts, DirectionFacts
      <4> QED BY <4>1, <4>2 DEF GraphIsReduced, BoundsOK
    <3>2. up[d][m] \in 0..Sigma
      BY <3>1, <1>3
    <3> QED BY <3>1, <3>2 DEF NewFacts, Known
  <2>2. RootFacts(d, fresh) \in Known
    <3>1. avail[d][Source(d)] \subseteq Characters
      BY <1>3, PresentFacts, DirectionFacts DEF GraphIsReduced, BoundsOK
    <3>2. upper \in 0..Sigma
      BY <1>3
    <3> QED BY <3>1, <3>2 DEF RootFacts, Known
  <2> HIDE DEF inner
  <2> QED BY <2>1, <2>2, <1>13, <1>14
<1>16. ASSUME NEW a \in arcs
       PROVE  /\ a = <<a[1], a[2]>> /\ a[1] \in NodesOf(M) /\ a[2] \in NodesOf(M)
              /\ DepthOf(a[2]) = DepthOf(a[1]) + 1
              /\ MatchOf(a[2]) \in SuccessorMatches(d, MatchOf(a[1]))
  <2>0. PICK k \in depths \ {upper} : \E x \in nodes(k) : a \in links(x)
    BY <1>16
  <2>1. PICK n \in nodes(k) : a \in links(n)
    BY <2>0
  <2>2. DepthOf(n) = k /\ MatchOf(n) \in matches[k] /\ k \in 0..upper /\ k # upper
    BY <2>1, <1>9
  <2>3. PICK s \in LinkedMatches(d, k, MatchOf(n)) : a = <<n, <<k + 1, s, {}>>>>
    BY <2>1, <2>2
  <2>4. k + 1 \in 0..upper /\ k + 1 # 0 /\ (k + 1) - 1 = k
    BY <2>2, <1>3
  <2>5. s \in matches[k + 1]
    BY <2>2, <2>3, <2>4, <1>5
  <2>6. <<k + 1, s, {}>> \in nodes(k + 1) /\ k + 1 \in depths
    BY <2>4, <2>5
  <2>7. n \in NodesOf(M) /\ <<k + 1, s, {}>> \in NodesOf(M)
    <3> HIDE DEF nodes, depths
    <3> QED BY <2>1, <2>6, <1>12
  <2>8. s \in SuccessorMatches(d, MatchOf(n))
    <3>1. MatchOf(n) \in Nodes /\ MatchOf(n) # Sink(d)
      <4>1. k = 0 => MatchOf(n) = Source(d)
        BY <2>2, <1>4
      <4>2. k # 0 => MatchOf(n) \in Inner
        BY <2>2, <1>6, <1>7
      <4> QED BY <4>1, <4>2, <1>3, InnerFacts, DirectionFacts
    <3> QED BY <3>1, <2>3, LinkedFacts DEF GraphIsReduced, ArcsOK
  <2>9. DepthOf(<<k + 1, s, {}>>) = k + 1 /\ MatchOf(<<k + 1, s, {}>>) = s
    BY DEF DepthOf, MatchOf
  <2> HIDE DEF nodes, depths, links
  <2> QED BY <2>2, <2>3, <2>7, <2>8, <2>9
<1>17. IsDiagram(M)
  <2>1. M = [side |-> M.side, levels |-> M.levels, arcs |-> M.arcs, facts |-> M.facts]
    BY <1>2
  <2>2. Len(M.levels) >= 1 /\ M.levels[1] = {RootNode(M.side)}
    BY <1>8, <1>10, <1>11
  <2>3. ASSUME NEW i \in 1..size, NEW j \in 1..size, NEW n \in levels[i], NEW m \in levels[j]
        PROVE  i < j <=> DepthOf(n) < DepthOf(m)
    <3>1. DepthOf(n) = i - 1 /\ DepthOf(m) = j - 1
      <4> HIDE DEF nodes
      <4> QED BY <2>3, <1>9, <1>11
    <3> QED BY <3>1, <2>3
  <2>4. \A n \in NodesOf(M) : n = RootNode(d) \/ MatchOf(n) \in Inner
    <3> HIDE DEF inner
    <3> QED BY <1>7, <1>13, <1>14
  <2> HIDE DEF arcs, facts
  <2> QED BY <2>1, <2>2, <2>3, <2>4, <1>11, <1>15, <1>16 DEF IsDiagram
<1>18. \A n \in NodesOf(M) : n[3] = {}
  <2>1. \A k \in depths : k \in 0..upper
    OBVIOUS
  <2> HIDE DEF nodes, depths
  <2> QED BY <2>1, <1>9, <1>12
<1> QED BY <1>11, <1>17, <1>18 DEF M
-----------------------------------------------------------------------------
(* The inductive invariant.  What is known of the graph: while it is being *)
(* reduced, that it is; afterwards, that it does not change any more.      *)

Bounded == \A d \in Directions, m \in active : up[d][m] <= Sigma

BoundedWhenDone == pc \in {"deactivate", "reduce"} \/ (pc = "done" /\ lower < upper) => Bounded

GraphIsFixed == BoundsOK /\ ArcsOK /\ Bounded

LEMMA GraphStaysFixed ==
    ASSUME GraphIsFixed, UNCHANGED <<strings, graphVars>>
    PROVE  GraphIsFixed'
<1>1. Inner' = Inner /\ Nodes' = Nodes /\ Present' = Present
  BY StringsUnchanged
<1>2. /\ \A d \in Directions : Sink(d)' = Sink(d)
      /\ \A d \in Directions, m \in Nodes : SuccessorMatches(d, m)' = SuccessorMatches(d, m)
  BY StringsUnchanged
<1>3. UNCHANGED <<active, up, avail, succ, dom>>
  BY DEF graphVars
<1>4. BoundsOK'
  BY <1>1, <1>2, <1>3 DEF GraphIsFixed, BoundsOK
<1>5. ArcsOK'
  BY <1>1, <1>2, <1>3 DEF GraphIsFixed, ArcsOK
<1>6. Bounded'
  BY <1>3 DEF GraphIsFixed, Bounded
<1> QED BY <1>4, <1>5, <1>6 DEF GraphIsFixed

LEMMA GraphStaysBounded ==
    ASSUME IInv, BoundedWhenDone, Next
    PROVE  BoundedWhenDone'
<1>1. GraphOK /\ GraphOK'
  <2>1. IInv'
    BY EveryStep
  <2> QED BY <2>1 DEF IInv
<1>2. CASE CalculateSimpleUpperBounds
  <2>1. Cardinality(Present) <= Sigma /\ Cardinality(Present) \in Nat /\ Sigma \in Nat
    BY <1>1, PresentFacts, CharactersFinite DEF GraphOK, ControlOK
  <2>2. up' = [d \in Directions |-> SimpleBounds(d)] /\ active' = active
    BY <1>2 DEF CalculateSimpleUpperBounds
  <2>3. \A m \in active : IsActive(m) /\ m \in Nodes /\ m \in Inner
    BY <1>1 DEF GraphOK, ArcsOK, IsActive, Nodes
  <2>4. \A d \in Directions, m \in active : m # Sink(d)
    BY <1>1, <2>3, InnerFacts, DirectionFacts DEF GraphOK, ControlOK
  <2>5. \A d \in Directions, m \in active :
           SimpleBounds(d)[m] \in Nat /\ SimpleBounds(d)[m] <= Cardinality(Present)
    BY <1>1, <2>3, <2>4, SimpleFacts
  <2> QED BY <2>1, <2>2, <2>5 DEF BoundedWhenDone, Bounded
<1>3. CASE DeactivateMatches
  <2>1. active' \subseteq active
    BY <1>1, <1>3, RemainingUnfold DEF DeactivateMatches
  <2>2. up' = up /\ Bounded
    BY <1>3 DEF DeactivateMatches, BoundedWhenDone
  <2> QED BY <2>1, <2>2 DEF BoundedWhenDone, Bounded
<1>4. CASE ReduceGraph
  <2>1. UNCHANGED <<up, active>> /\ Bounded
    BY <1>4 DEF ReduceGraph, BoundedWhenDone
  <2> QED BY <2>1 DEF BoundedWhenDone, Bounded
<1>5. CASE /\ ~CalculateSimpleUpperBounds /\ ~DeactivateMatches /\ ~ReduceGraph
  <2>1. \/ HeuristicImproves \/ HeuristicStops
        \/ StartRelaxation \/ RelaxCharacter \/ SkipCharacter \/ EndRelaxationRound
        \/ RelaxSelected \/ EndRelaxation
    BY <1>5 DEF Next
  <2>2. /\ pc' \notin {"deactivate", "reduce"}
        /\ pc' = "done" => lower' >= upper'
    BY <2>1 DEF HeuristicImproves, HeuristicStops, StartRelaxation, RelaxCharacter, SkipCharacter,
                EndRelaxationRound, RelaxSelected, EndRelaxation, Enter
  <2>3. lower' \in Int /\ upper' \in Int
    BY <1>1, LongestSolution, CharactersFinite DEF GraphOK, ControlOK
  <2> QED BY <2>2, <2>3 DEF BoundedWhenDone
<1> QED BY <1>2, <1>3, <1>4, <1>5

(* A plain MDD has split no node; a thin one has one node on every depth.  *)
Plain(M) == \A n \in NodesOf(M) : n[3] = {}
Thin(M) == \A n, o \in NodesOf(M) : DepthOf(n) = DepthOf(o) => n = o

(* The layout begins with the source, and its arcs lead to successors on   *)
(* levels that it has.                                                     *)
IsFlat(flat, d) ==
    /\ Len(flat) >= 1 /\ Source(d) \in flat[1].matches
    /\ \A i \in 1..Len(flat) : \A a \in flat[i].arcs :
          i < Len(flat) /\ a[2] \in SuccessorMatches(d, a[1])

Filtering == {"down", "up", "root", "filtered", "split"}
Selecting == {"select", "next", "complete", "layout"}
ChildTasks == {"copy", "trial", "refine"}

(* There is a shared object from the first layout on.                      *)
Published == task # "forward" /\ ~(task = "backward" /\ step \in Filtering)

StepsFit ==
    /\ step \in Filtering \cup Selecting \cup {"graph", "rounds", "merge", "solver"}
    /\ task \in ChildTasks \cup {"forward", "backward", "parent"}
    /\ step \in Selecting => task \in ChildTasks
    /\ step = "split" => task \in {"trial", "refine"}
    /\ step \in {"rounds", "merge", "solver"} => task # "forward"
    /\ step = "graph" => task = "forward"

GraphPart ==
    /\ strings \in Inputs /\ lower \in 0..Sigma /\ upper \in 0..Sigma
    /\ IF step = "graph" THEN IInv /\ BoundedWhenDone ELSE step # "solver" => GraphIsFixed

MddPart ==
    IF step \in Filtering
    THEN /\ IsDiagram(mdd)
         /\ step \in {"down", "up", "split"} => at \in 2..Len(mdd.levels)
         /\ task \in ChildTasks \cup {"parent"} => Within(mdd, parent)
         /\ task \notin ChildTasks => Plain(mdd)
    ELSE mdd = NoMdd

ParentPart ==
    /\ parentUpper \in 0..Sigma
    /\ IF task = "forward" THEN parent = NoMdd ELSE IsDiagram(parent) /\ Plain(parent)

WorkPart ==
    /\ IF step \in Selecting \/ (step \in Filtering /\ task = "trial")
       THEN IsDiagram(work) /\ Within(work, parent) ELSE work = NoMdd
    /\ step = "layout" => Thin(work)

SelectionPart ==
    /\ IF step \in Selecting \/ (step \in Filtering /\ task \in {"trial", "refine"})
       THEN IsDiagram(selection) /\ Within(selection, parent) ELSE selection = NoMdd
    /\ trying \subseteq Characters
    /\ step = "split" => split \in Characters

SharedPart ==
    IF Published
    THEN /\ shared = [upper |-> shared.upper, complete |-> shared.complete, flat |-> shared.flat,
                      size |-> shared.size, room |-> shared.room]
         /\ shared.upper \in 0..Sigma
         /\ IsFlat(shared.flat, parent.side)
         /\ shared.room \in Nat /\ SizeOf(parent) <= shared.room /\ shared.size <= shared.room
    ELSE shared = NotShared

MddInv ==
    StepsFit /\ GraphPart /\ MddPart /\ ParentPart /\ WorkPart /\ SelectionPart /\ SharedPart

-----------------------------------------------------------------------------
(* What makes a step keep it.                                              *)

LEMMA DiagramsUnchanged ==
    ASSUME strings' = strings
    PROVE  /\ \A M : IsDiagram(M)' <=> IsDiagram(M)
           /\ \A flat, d : IsFlat(flat, d)' <=> IsFlat(flat, d)
<1>1. Inner' = Inner /\ Nodes' = Nodes
  BY StringsUnchanged
<1>2. \A d : Source(d)' = Source(d)
  BY DEF Source, Root, Leaf
<1>3. \A d, m : SuccessorMatches(d, m)' = SuccessorMatches(d, m)
  <2>1. \A m : CharacterOf(m)' = CharacterOf(m)
    BY DEF CharacterOf
  <2> QED BY <1>1, <2>1 DEF SuccessorMatches
<1>4. \A d : RootNode(d)' = RootNode(d)
  BY <1>2 DEF RootNode
<1>5. MddNodes' = MddNodes
  BY <1>1 DEF MddNodes
<1>6. \A M : IsDiagram(M)' <=> IsDiagram(M)
  BY <1>1, <1>3, <1>4, <1>5 DEF IsDiagram
<1>7. \A flat, d : IsFlat(flat, d)' <=> IsFlat(flat, d)
  BY <1>2, <1>3 DEF IsFlat
<1> QED BY <1>6, <1>7

LEMMA FilterBegins ==
    ASSUME NEW M, NEW u, IsDiagram(M), BeginFilter(M, u)
    PROVE  /\ mdd' = M /\ at' = 2 /\ step' \in {"filtered", "root", "down"}
           /\ step' = "down" => at' \in 2..Len(M.levels)
<1>1. Len(M.levels) \in Nat \ {0} /\ 2 \in Int
  BY DEF IsDiagram
<1>2. mdd' = M /\ at' = 2 /\ step' \in {"filtered", "root", "down"}
  BY DEF BeginFilter
<1>3. step' = "down" => Len(M.levels) # 1
  BY DEF BeginFilter
<1>4. Len(M.levels) # 1 => 2 \in 2..Len(M.levels)
  <2>1. \A k \in Nat \ {0} : k # 1 => 2 \in 2..k
    OBVIOUS
  <2> QED BY <1>1, <2>1
<1> QED BY <1>2, <1>3, <1>4

LEMMA PlainWithin ==
    ASSUME strings \in Inputs, NEW M, IsDiagram(M), Plain(M)
    PROVE  Within(M, M)
<1>1. /\ \A n \in NodesOf(M) : n = <<n[1], n[2], n[3]>>
      /\ M.arcs \in SUBSET (NodesOf(M) \X NodesOf(M)) /\ Len(M.levels) \in Nat
  BY DiagramFacts
<1>2. \A n \in NodesOf(M) : Unsplit(n) = n
  BY <1>1 DEF Unsplit, Plain
<1>3. \A a \in M.arcs : /\ a[1] \in NodesOf(M) /\ a[2] \in NodesOf(M) /\ a = <<a[1], a[2]>>
  BY <1>1
<1> QED BY <1>1, <1>2, <1>3 DEF Within

LEMMA SmallerPlain ==
    ASSUME NEW M, NEW N, Plain(M), Smaller(N, M)
    PROVE  Plain(N)
  BY DEF Plain, Smaller

(* A plain MDD within another one is a part of it.                         *)
LEMMA PartSize ==
    ASSUME strings \in Inputs, NEW M, IsDiagram(M), NEW P, IsDiagram(P), Within(M, P),
           Plain(M) \/ Thin(M)
    PROVE  SizeOf(M) <= SizeOf(P) /\ SizeOf(M) \in Nat
<1>1. /\ DOMAIN M.facts = NodesOf(M) /\ NodesOf(M) \in SUBSET MddNodes
      /\ M.arcs \in SUBSET (NodesOf(M) \X NodesOf(M)) /\ Len(M.levels) \in Nat
      /\ \A n \in NodesOf(M) : n = <<n[1], n[2], n[3]>>
      /\ DOMAIN P.facts = NodesOf(P) /\ NodesOf(P) \in SUBSET MddNodes
      /\ P.arcs \in SUBSET (NodesOf(P) \X NodesOf(P)) /\ Len(P.levels) \in Nat
  BY DiagramFacts
<1>2. IsFiniteSet(MddNodes)
  <2>1. IsFiniteSet(Nodes) /\ IsFiniteSet(Characters) /\ Sigma \in Nat
    BY NodesFinite, CharactersFinite
  <2>2. IsFiniteSet(0..Sigma) /\ IsFiniteSet(SUBSET Characters)
    <3>1. IsFiniteSet(0..Sigma)
      BY <2>1, FS_Interval
    <3>2. IsFiniteSet(SUBSET Characters)
      BY <2>1, FS_SUBSET
    <3> QED BY <3>1, <3>2
  <2>3. IsFiniteSet(Nodes \X (SUBSET Characters)) /\ IsFiniteSet((0..Sigma) \X Nodes)
    BY <2>1, <2>2, FS_Product
  <2>4. IsFiniteSet(((0..Sigma) \X Nodes) \X (SUBSET Characters))
    BY <2>2, <2>3, FS_Product
  <2> DEFINE X == ((0..Sigma) \X Nodes) \X (SUBSET Characters)
             h == [x \in X |-> <<x[1][1], x[1][2], x[2]>>]
             H == {h[x] : x \in X}
  <2>5. IsFiniteSet(H)
    <3> HIDE DEF X, h
    <3> QED BY <2>4, ImageFinite DEF X
  <2>6. MddNodes \subseteq H
    <3> SUFFICES ASSUME NEW n \in (0..Sigma) \X Nodes \X (SUBSET Characters) PROVE n \in H
      BY DEF MddNodes
    <3>1. n = <<n[1], n[2], n[3]>> /\ n[1] \in 0..Sigma /\ n[2] \in Nodes /\ n[3] \in SUBSET Characters
      OBVIOUS
    <3>2. h[<<<<n[1], n[2]>>, n[3]>>] = n /\ <<<<n[1], n[2]>>, n[3]>> \in X
      BY <3>1
    <3> QED BY <3>2
  <2> QED BY <2>5, <2>6, FS_Subset
<1>3. IsFiniteSet(NodesOf(M)) /\ IsFiniteSet(NodesOf(P))
  BY <1>1, <1>2, FS_Subset
<1>4. IsFiniteSet(M.arcs) /\ IsFiniteSet(P.arcs)
  BY <1>1, <1>3, FS_Product, FS_Subset
<1> DEFINE f == [n \in NodesOf(M) |-> Unsplit(n)]
           g == [a \in M.arcs |-> <<Unsplit(a[1]), Unsplit(a[2])>>]
<1>5. \A n, o \in NodesOf(M) : Unsplit(n) = Unsplit(o) => n = o
  BY <1>1 DEF Plain, Thin, Unsplit, DepthOf
<1>6. f \in Injection(NodesOf(M), NodesOf(P))
  <2>1. f \in [NodesOf(M) -> NodesOf(P)]
    BY DEF Within
  <2>2. \A n, o \in NodesOf(M) : f[n] = f[o] => n = o
    BY <1>5
  <2> HIDE DEF f
  <2> QED BY <2>1, <2>2 DEF Injection, IsInjective
<1>7. g \in Injection(M.arcs, P.arcs)
  <2>1. g \in [M.arcs -> P.arcs]
    BY DEF Within
  <2>2. ASSUME NEW a \in M.arcs, NEW b \in M.arcs, g[a] = g[b] PROVE a = b
    <3>1. Unsplit(a[1]) = Unsplit(b[1]) /\ Unsplit(a[2]) = Unsplit(b[2])
      BY <2>2
    <3>2. /\ a[1] \in NodesOf(M) /\ a[2] \in NodesOf(M) /\ a = <<a[1], a[2]>>
          /\ b[1] \in NodesOf(M) /\ b[2] \in NodesOf(M) /\ b = <<b[1], b[2]>>
      BY <1>1
    <3> QED BY <3>1, <3>2, <1>5
  <2> HIDE DEF g
  <2> QED BY <2>1, <2>2 DEF Injection, IsInjective
<1>8. Cardinality(NodesOf(M)) <= Cardinality(NodesOf(P))
  BY <1>3, <1>6, FS_Injection
<1>9. Cardinality(M.arcs) <= Cardinality(P.arcs)
  BY <1>4, <1>7, FS_Injection
<1>10. /\ Cardinality(NodesOf(M)) \in Nat /\ Cardinality(NodesOf(P)) \in Nat
       /\ Cardinality(M.arcs) \in Nat /\ Cardinality(P.arcs) \in Nat
  BY <1>3, <1>4, FS_CardinalityType
<1>11. Len(M.levels) <= Len(P.levels) /\ Len(M.levels) \in Nat /\ Len(P.levels) \in Nat
  BY <1>1 DEF Within
<1>12. /\ SizeOf(M) = 2 * Len(M.levels) + 4 * Cardinality(NodesOf(M)) + 2 * Cardinality(M.arcs)
       /\ SizeOf(P) = 2 * Len(P.levels) + 4 * Cardinality(NodesOf(P)) + 2 * Cardinality(P.arcs)
  BY <1>1 DEF SizeOf
<1> DEFINE i == Len(M.levels)
           j == Len(P.levels)
           k == Cardinality(NodesOf(M))
           l == Cardinality(NodesOf(P))
           m == Cardinality(M.arcs)
           o == Cardinality(P.arcs)
           s == SizeOf(M)
           t == SizeOf(P)
<1>13. /\ i \in Nat /\ j \in Nat /\ k \in Nat /\ l \in Nat /\ m \in Nat /\ o \in Nat
       /\ i <= j /\ k <= l /\ m <= o
       /\ s = 2 * i + 4 * k + 2 * m /\ t = 2 * j + 4 * l + 2 * o
  BY <1>8, <1>9, <1>10, <1>11, <1>12
<1> HIDE DEF f, g, i, j, k, l, m, o, s, t
<1>14. s <= t /\ s \in Nat
  BY <1>13
<1> QED BY <1>14 DEF s, t

-----------------------------------------------------------------------------
(* The way that is left of the MDD in the end.                             *)
Walks(M) ==
    {q \in Seq(NodesOf(M)) : /\ Len(q) >= 1 /\ q[1] = RootNode(M.side)
                             /\ \A i \in 1..Len(q) : DepthOf(q[i]) = i - 1}

LEMMA WalkGoesOn ==
    ASSUME strings \in Inputs, NEW M, IsDiagram(M), NEW q \in Walks(M)
    PROVE  /\ q[Len(q)] \in NodesOf(M)
           /\ \A s \in Succs(M, q[Len(q)]) : Append(q, s) \in Walks(M)
<1> DEFINE l == Len(q)
<1>1. /\ q \in Seq(NodesOf(M)) /\ l \in Nat /\ l >= 1 /\ q[1] = RootNode(M.side)
      /\ \A i \in 1..l : DepthOf(q[i]) = i - 1
  BY DEF Walks
<1>2. q[l] \in NodesOf(M) /\ DepthOf(q[l]) = l - 1
  BY <1>1
<1>3. ASSUME NEW s \in Succs(M, q[l]) PROVE Append(q, s) \in Walks(M)
  <2>1. s \in NodesOf(M) /\ DepthOf(s) = DepthOf(q[l]) + 1
    BY <1>2, DiagramFacts
  <2>2. /\ Append(q, s) \in Seq(NodesOf(M)) /\ Len(Append(q, s)) = l + 1
        /\ \A i \in 1..(l + 1) : Append(q, s)[i] = IF i = l + 1 THEN s ELSE q[i]
    BY <1>1, <2>1
  <2>3. DepthOf(s) = (l + 1) - 1
    BY <1>1, <1>2, <2>1
  <2>4. \A i \in 1..(l + 1) : DepthOf(Append(q, s)[i]) = i - 1
    BY <1>1, <2>2, <2>3
  <2>5. Append(q, s)[1] = RootNode(M.side) /\ l + 1 >= 1
    BY <1>1, <2>2
  <2> QED BY <2>2, <2>4, <2>5 DEF Walks
<1> QED BY <1>2, <1>3 DEF l

LEMMA OneStepWalk ==
    ASSUME NEW M, RootNode(M.side) \in NodesOf(M), DepthOf(RootNode(M.side)) = 0
    PROVE  <<RootNode(M.side)>> \in Walks(M)
<1> DEFINE q == <<RootNode(M.side)>>
<1>1. q \in Seq(NodesOf(M)) /\ Len(q) = 1 /\ q[1] = RootNode(M.side)
  OBVIOUS
<1>2. \A i \in 1..Len(q) : i = 1
  BY <1>1
<1> HIDE DEF q
<1>3. \A i \in 1..Len(q) : DepthOf(q[i]) = i - 1
  BY <1>1, <1>2
<1> QED BY <1>1, <1>3 DEF Walks, q

(* The successors with the greatest bound, and the walks on which a walk   *)
(* goes on to one of them.                                                 *)
BestSuccs(M, n) == {s \in Succs(M, n) : \A t \in Succs(M, n) : M.facts[t].ub <= M.facts[s].ub}

GoneOn(M, q) == IF Succs(M, q[Len(q)]) = {} THEN {q} ELSE {Append(q, s) : s \in BestSuccs(M, q[Len(q)])}

(* What holds of the walk to the root, and goes on to hold with each step, *)
(* holds of the greedy paths.                                              *)
LEMMA GreedyInduction ==
    ASSUME strings \in Inputs, NEW M, IsDiagram(M), NEW P, <<RootNode(M.side)>> \in P[0],
           \A k \in 1..Sigma : \A q \in P[k - 1] : q \in Walks(M) => GoneOn(M, q) \subseteq P[k]
    PROVE  GreedyPaths(M) \subseteq P[Sigma] \cap Walks(M)
<1> DEFINE K == 0..Sigma
           W == Walks(M)
           V == SUBSET W
           best(n) == {s \in Succs(M, n) : \A t \in Succs(M, n) : M.facts[t].ub <= M.facts[s].ub}
           Further(q) == IF Succs(M, q[Len(q)]) = {} THEN {q} ELSE {Append(q, s) : s \in best(q[Len(q)])}
           Grown(X) == UNION {Further(q) : q \in X}
           Body(g) == [k \in 0..Sigma |-> IF k = 0 THEN {<<RootNode(M.side)>>} ELSE Grown(g[k - 1])]
           F == [g \in [K -> V] |-> Body(g)]
           rank == [k \in K |-> k]
           paths == CHOOSE g : g = Body(g)
<1>1. GreedyPaths(M) = paths[Sigma]
  BY DEF GreedyPaths
<1>2. Sigma \in Nat
  BY CharactersFinite
<1>3. /\ \A X \in V : Grown(X) \in V
      /\ {<<RootNode(M.side)>>} \in V
  <2>1. \A q \in W : Further(q) \subseteq W
    <3> TAKE q \in W
    <3>1. best(q[Len(q)]) \subseteq Succs(M, q[Len(q)])
      OBVIOUS
    <3> HIDE DEF best
    <3> QED BY <3>1, WalkGoesOn
  <2>2. <<RootNode(M.side)>> \in W
    <3>1. RootNode(M.side) \in NodesOf(M) /\ DepthOf(RootNode(M.side)) = 0
      BY DiagramFacts DEF RootNode, DepthOf
    <3> QED BY <3>1, OneStepWalk
  <2> HIDE DEF W, Further
  <2> QED BY <2>1, <2>2
<1>4. \A g \in [K -> V] : Body(g) \in [K -> V]
  <2> SUFFICES ASSUME NEW g \in [K -> V], NEW k \in K
               PROVE  (IF k = 0 THEN {<<RootNode(M.side)>>} ELSE Grown(g[k - 1])) \in V
    OBVIOUS
  <2>1. k # 0 => g[k - 1] \in V
    BY <1>2
  <2> HIDE DEF V, Grown
  <2> QED BY <1>3, <2>1
<1>5. Descends(F, K, V, rank, Sigma) /\ V # {}
  <2>1. rank \in [K -> 0..Sigma]
    OBVIOUS
  <2>2. F \in [[K -> V] -> [K -> V]]
    <3> HIDE DEF Body, K, V
    <3> QED BY <1>4
  <2>3. \A g, h \in [K -> V] : \A k \in K :
           (\A t \in K : rank[t] < rank[k] => g[t] = h[t]) => F[g][k] = F[h][k]
    <3> SUFFICES ASSUME NEW g \in [K -> V], NEW h \in [K -> V], NEW k \in K,
                        \A t \in K : rank[t] < rank[k] => g[t] = h[t]
                 PROVE  F[g][k] = F[h][k]
      <4> HIDE DEF F, K, V, rank
      <4> QED OBVIOUS
    <3>1. k # 0 => g[k - 1] = h[k - 1]
      BY <1>2
    <3> HIDE DEF Grown, V
    <3> QED BY <3>1
  <2>4. {} \in V
    OBVIOUS
  <2> HIDE DEF K, V, F, rank
  <2> QED BY <1>2, <2>1, <2>2, <2>3, <2>4 DEF Descends
<1>6. PICK g \in [K -> V] : F[g] = g
  <2> HIDE DEF K, V, F, rank
  <2> QED BY <1>5, RecursionHasSolution
<1>7. paths = Body(paths)
  <2>1. g = Body(g)
    BY <1>6
  <2> HIDE DEF Body
  <2> QED BY <2>1
<1> HIDE DEF paths
<1>8. \A k \in 0..Sigma : paths[k] = IF k = 0 THEN {<<RootNode(M.side)>>} ELSE Grown(paths[k - 1])
  <2> HIDE DEF Grown
  <2> QED BY <1>7
<1>9. \A q : Further(q) = GoneOn(M, q)
  BY DEF GoneOn, BestSuccs
<1> DEFINE T == {k \in 0..Sigma : ~(paths[k] \subseteq P[k] \cap W)}
<1>10. T = {}
  <2> SUFFICES ASSUME T # {} PROVE FALSE
    OBVIOUS
  <2>1. T \subseteq Nat
    BY <1>2
  <2>2. PICK k \in T : \A j \in T : k <= j
    <3> HIDE DEF T
    <3> QED BY <2>1, LeastNumber
  <2> HIDE DEF W, Further
  <2>3. k # 0
    BY <1>2, <1>3, <1>8, <2>2
  <2>4. k - 1 \in 0..Sigma /\ k - 1 \notin T /\ k \in 1..Sigma
    BY <1>2, <2>1, <2>2, <2>3
  <2>5. paths[k - 1] \subseteq P[k - 1] /\ paths[k - 1] \subseteq W
    BY <2>4
  <2>6. paths[k] = Grown(paths[k - 1])
    BY <1>8, <2>2, <2>3
  <2>7. Grown(paths[k - 1]) \subseteq W
    BY <1>3, <2>5
  <2>8. Grown(paths[k - 1]) \subseteq P[k]
    <3>1. \A q \in paths[k - 1] : Further(q) \subseteq P[k]
      BY <1>9, <2>4, <2>5 DEF W
    <3> QED BY <3>1
  <2> QED BY <2>2, <2>6, <2>7, <2>8
<1>11. Sigma \in 0..Sigma
  BY <1>2
<1>12. paths[Sigma] \subseteq P[Sigma] \cap W
  <2> HIDE DEF W
  <2> QED BY <1>10, <1>11
<1> QED BY <1>1, <1>12

LEMMA GreedyFacts ==
    ASSUME strings \in Inputs, NEW M, IsDiagram(M)
    PROVE  GreedyPaths(M) \subseteq Walks(M)
<1> DEFINE W == Walks(M)
           P == [k \in 0..Sigma |-> W]
<1>1. Sigma \in Nat
  BY CharactersFinite
<1>2. P[0] = W /\ P[Sigma] = W /\ \A k \in 1..Sigma : P[k - 1] = W /\ P[k] = W
  BY <1>1
<1>3. <<RootNode(M.side)>> \in W
  <2>1. RootNode(M.side) \in NodesOf(M) /\ DepthOf(RootNode(M.side)) = 0
    BY DiagramFacts DEF RootNode, DepthOf
  <2> QED BY <2>1, OneStepWalk
<1>4. \A q \in W : GoneOn(M, q) \subseteq W
  <2> TAKE q \in W
  <2>1. BestSuccs(M, q[Len(q)]) \subseteq Succs(M, q[Len(q)])
    BY DEF BestSuccs
  <2> QED BY <2>1, WalkGoesOn DEF GoneOn
<1> HIDE DEF W, P
<1> QED BY <1>2, <1>3, <1>4, GreedyInduction

LEMMA ThinDiagram ==
    ASSUME strings \in Inputs, NEW M, IsDiagram(M), NEW q \in GreedyPaths(M)
    PROVE  LET N == Detached(M, DOMAIN M.facts \ {q[i] : i \in DOMAIN q}, {})
           IN  IsDiagram(N) /\ Smaller(N, M) /\ Thin(N)
<1> DEFINE gone == DOMAIN M.facts \ {q[i] : i \in DOMAIN q}
           N == Detached(M, gone, {})
<1>1. /\ q \in Seq(NodesOf(M)) /\ Len(q) >= 1 /\ q[1] = RootNode(M.side)
      /\ \A i \in 1..Len(q) : DepthOf(q[i]) = i - 1
  BY GreedyFacts DEF Walks
<1>2. DOMAIN q = 1..Len(q) /\ Len(q) \in Nat
  BY <1>1
<1>3. 1 \in 1..Len(q)
  BY <1>1, <1>2
<1>4. RootNode(M.side) \notin gone
  BY <1>1, <1>2, <1>3
<1>5. \A n \in NodesOf(M) \ gone : \E i \in 1..Len(q) : n = q[i]
  BY <1>2, DiagramFacts
<1> HIDE DEF gone
<1>6. /\ IsDiagram(N) /\ N.side = M.side /\ Len(N.levels) = Len(M.levels)
      /\ NodesOf(N) = NodesOf(M) \ gone /\ N.arcs \subseteq M.arcs
  <2>1. LET X == Detached(M, gone, {})
        IN  /\ IsDiagram(X) /\ X.side = M.side /\ Len(X.levels) = Len(M.levels)
            /\ NodesOf(X) = NodesOf(M) \ gone
            /\ X.arcs = {a \in M.arcs : a \notin {} /\ a[1] \notin gone /\ a[2] \notin gone}
    BY <1>4, DetachedDiagram
  <2> QED BY <2>1
<1> HIDE DEF N
<1>7. Smaller(N, M)
  <2>1. Len(M.levels) \in Nat
    BY DiagramFacts
  <2> QED BY <2>1, <1>6 DEF Smaller
<1>8. Thin(N)
  <2> SUFFICES ASSUME NEW n \in NodesOf(N), NEW o \in NodesOf(N), DepthOf(n) = DepthOf(o)
               PROVE  n = o
    BY DEF Thin
  <2>1. PICK i \in 1..Len(q) : n = q[i]
    BY <1>5, <1>6
  <2>2. PICK j \in 1..Len(q) : o = q[j]
    BY <1>5, <1>6
  <2>3. i - 1 = j - 1 /\ i \in Int /\ j \in Int
    BY <1>1, <1>2, <2>1, <2>2
  <2> QED BY <2>1, <2>2, <2>3
<1> QED BY <1>6, <1>7, <1>8 DEF N, gone

-----------------------------------------------------------------------------
(* Layouts and bounds.                                                     *)

LEMMA LaidFacts ==
    ASSUME strings \in Inputs, NEW M, IsDiagram(M)
    PROVE  /\ IsFlat(Laid(M), M.side)
           /\ \A flat : IsFlat(flat, M.side) => IsFlat(StillInFlat(flat, M), M.side)
<1>1. /\ DOMAIN M.levels = 1..Len(M.levels) /\ Len(M.levels) \in Nat \ {0}
      /\ M.levels[1] = {RootNode(M.side)}
  BY DiagramFacts DEF IsDiagram
<1>2. 1 \in 1..Len(M.levels)
  BY <1>1
<1> DEFINE now == Laid(M)
           arcs(i) == {<<MatchOf(a[1]), MatchOf(a[2])>> : a \in {b \in M.arcs : b[1] \in M.levels[i]}}
<1>3. now = [i \in 1..Len(M.levels) |->
               [matches |-> {MatchOf(n) : n \in M.levels[i]}, arcs |-> arcs(i)]]
  BY <1>1 DEF Laid
<1> HIDE DEF arcs, now
<1>4. now[1].matches = {MatchOf(n) : n \in M.levels[1]}
  BY <1>2, <1>3
<1>5. MatchOf(RootNode(M.side)) = Source(M.side)
  BY DEF MatchOf, RootNode
<1>6. now[1].matches = {Source(M.side)}
  BY <1>1, <1>4, <1>5
<1>7. Len(now) = Len(M.levels) /\ DOMAIN now = 1..Len(M.levels)
  BY <1>1, <1>3
<1>10. ASSUME NEW i \in 1..Len(M.levels), NEW x \in now[i].arcs
       PROVE  i < Len(M.levels) /\ x[2] \in SuccessorMatches(M.side, x[1])
  <2>1. now[i].arcs = arcs(i)
    BY <1>3
  <2>2. PICK a \in M.arcs : a[1] \in M.levels[i] /\ x = <<MatchOf(a[1]), MatchOf(a[2])>>
    BY <2>1 DEF arcs
  <2>3. /\ a[2] \in NodesOf(M) /\ DepthOf(a[2]) = DepthOf(a[1]) + 1
        /\ MatchOf(a[2]) \in SuccessorMatches(M.side, MatchOf(a[1]))
    BY DEF IsDiagram
  <2>4. PICK j \in 1..Len(M.levels) : a[2] \in M.levels[j]
    BY <2>3 DEF NodesOf
  <2>5. i < j <=> DepthOf(a[1]) < DepthOf(a[2])
    BY <2>2, <2>4 DEF IsDiagram
  <2>6. DepthOf(a[1]) \in Nat
    <3>1. a[1] \in NodesOf(M)
      BY <2>2 DEF NodesOf
    <3> QED BY <3>1, DiagramFacts
  <2>7. i < j
    BY <2>3, <2>5, <2>6
  <2> QED BY <2>2, <2>3, <2>7, <1>1
<1>8. IsFlat(now, M.side)
  BY <1>1, <1>6, <1>7, <1>10 DEF IsFlat
<1>9. ASSUME NEW flat, IsFlat(flat, M.side) PROVE IsFlat(StillInFlat(flat, M), M.side)
  <2> DEFINE left == StillInFlat(flat, M)
  <2>1. left = [i \in 1..Len(M.levels) |-> [matches |-> flat[i].matches \cap now[i].matches,
                                           arcs |-> flat[i].arcs \cap now[i].arcs]]
    BY <1>7 DEF StillInFlat, now
  <2> HIDE DEF left
  <2>2. left[1].matches = flat[1].matches \cap now[1].matches
    BY <1>2, <2>1
  <2>3. Len(left) = Len(M.levels)
    BY <1>1, <2>1
  <2>4. Source(M.side) \in left[1].matches
    BY <1>6, <1>9, <2>2 DEF IsFlat
  <2>5. \A i \in 1..Len(M.levels) : left[i].arcs \subseteq now[i].arcs
    BY <2>1
  <2> QED BY <1>1, <1>10, <2>3, <2>4, <2>5 DEF IsFlat, left
<1> QED BY <1>8, <1>9 DEF now

(* The bound that the filter finds is a level of the MDD.                  *)
LEMMA BoundByFacts ==
    ASSUME strings \in Inputs, NEW M, IsDiagram(M), upper \in 0..Sigma
    PROVE  BoundBy(M) \in 0..Sigma /\ BoundBy(M) \in Nat /\ BoundBy(M) + 1 <= Len(NonEmpty(M.levels))
<1> DEFINE l == Len(NonEmpty(M.levels))
           b == M.facts[RootNode(M.side)].ub
<1>1. M.levels \in Seq(SUBSET MddNodes) /\ Len(M.levels) >= 1 /\ M.levels[1] = {RootNode(M.side)}
  BY DEF IsDiagram
<1>2. l \in Nat
  BY <1>1, NonEmptyFacts
<1>3. l >= 1
  <2> DEFINE all == M.levels
  <2>5. all \in Seq(SUBSET MddNodes)
    BY <1>1
  <2> HIDE DEF all
  <2>6. \E place \in [1..Len(NonEmpty(all)) -> 1..Len(all)] :
           /\ \A k \in 1..Len(NonEmpty(all)) :
                 /\ NonEmpty(all)[k] = all[place[k]] /\ all[place[k]] # {}
           /\ \A k, m \in 1..Len(NonEmpty(all)) : k < m => place[k] < place[m]
           /\ \A i \in 1..Len(all) : all[i] # {} => \E k \in 1..Len(NonEmpty(all)) : place[k] = i
    BY <2>5, NonEmptyFacts, Zenon
  <2>1. PICK place \in [1..l -> 1..Len(M.levels)] :
           \A i \in 1..Len(M.levels) : M.levels[i] # {} => \E k \in 1..l : place[k] = i
    <3> HIDE DEF l
    <3> QED BY <2>6 DEF all, l
  <2>2. 1 \in 1..Len(M.levels) /\ M.levels[1] # {}
    BY <1>1
  <2>3. PICK k \in 1..l : place[k] = 1
    BY <2>1, <2>2
  <2> QED BY <1>2, <2>3
<1>4. b \in 0..Sigma
  BY DiagramFacts DEF IsDiagram, Known
<1>5. Sigma \in Nat
  BY CharactersFinite
<1> DEFINE m == Min({upper, l - 1, b})
<1>6. BoundBy(M) = m
  BY DEF BoundBy
<1> HIDE DEF l, b
<1>7. /\ m \in {upper, l - 1, b}
      /\ m <= upper /\ m <= l - 1 /\ m <= b
  <2>1. upper \in Int /\ l - 1 \in Int /\ b \in Int
    BY <1>2, <1>4, <1>5
  <2> QED BY <2>1, MinOfThree
<1> HIDE DEF m
<1>8. m \in 0..Sigma /\ m + 1 <= l
  BY <1>2, <1>3, <1>4, <1>5, <1>7
<1>9. m \in Nat
  BY <1>5, <1>8
<1> QED BY <1>6, <1>8, <1>9 DEF l

LEMMA MaxInRange ==
    ASSUME NEW a \in 0..Sigma, NEW b \in 0..Sigma
    PROVE  Max({a, b}) \in 0..Sigma /\ Min({a, b}) \in 0..Sigma
<1>1. a \in Int /\ b \in Int
  BY CharactersFinite
<1>2. Max({a, b}) \in {a, b} /\ Min({a, b}) \in {a, b}
  BY <1>1, MaxOfTwo, MinOfTwo
<1> QED BY <1>2

(* What is left of an MDD within another one lies within that.             *)
LEMMA PrunedWithin ==
    ASSUME strings \in Inputs, NEW M, IsDiagram(M), NEW P, IsDiagram(P), Within(M, P),
           NEW flat, IsFlat(flat, P.side)
    PROVE  LET N == PrunedByFlat(M, flat)
           IN  IsDiagram(N) /\ Within(N, P) /\ (Plain(M) => Plain(N))
<1>1. M.side = P.side /\ Len(flat) > 0 /\ Source(M.side) \in flat[1].matches
  <2>1. M.side = P.side
    BY DEF Within
  <2>2. Len(flat) >= 1
    BY DEF IsFlat
  <2>3. Len(flat) > 0
    BY <2>2
  <2> QED BY <2>1, <2>3 DEF IsFlat
<1> DEFINE N == PrunedByFlat(M, flat)
<1>2. IsDiagram(N) /\ Smaller(N, M)
  BY <1>1, PrunedDiagram
<1> HIDE DEF N
<1> QED BY <1>2, SmallerWithin, SmallerPlain DEF N

LEMMA CopyWithin ==
    ASSUME strings \in Inputs, NEW M, IsDiagram(M), NEW P, IsDiagram(P), Within(M, P)
    PROVE  IsDiagram(CopyOf(M)) /\ Within(CopyOf(M), P) /\ (Plain(M) => Plain(CopyOf(M)))
<1>1. /\ IsDiagram(CopyOf(M)) /\ CopyOf(M).side = M.side /\ CopyOf(M).levels = M.levels
      /\ NodesOf(CopyOf(M)) = NodesOf(M) /\ CopyOf(M).arcs = M.arcs
  BY CopyDiagram
<1>2. Smaller(CopyOf(M), M)
  <2>1. Len(M.levels) \in Nat
    BY DiagramFacts
  <2> QED BY <1>1, <2>1 DEF Smaller
<1> QED BY <1>1, <1>2, SmallerWithin, SmallerPlain

LEMMA SplitWithin ==
    ASSUME strings \in Inputs, NEW M, IsDiagram(M), NEW P, IsDiagram(P), Within(M, P),
           NEW i \in 2..Len(M.levels), NEW c \in Characters, NEW skipped
    PROVE  LET N == SplitLevel(M, i, c, skipped)
           IN  IsDiagram(N) /\ Within(N, P) /\ Len(N.levels) = Len(M.levels)
<1> DEFINE N == SplitLevel(M, i, c, skipped)
<1>1. /\ IsDiagram(N) /\ Len(N.levels) = Len(M.levels) /\ N.side = M.side
      /\ \A n \in NodesOf(N) : \E o \in NodesOf(M) : Unsplit(n) = Unsplit(o)
      /\ \A a \in N.arcs : \E b \in M.arcs : /\ Unsplit(a[1]) = Unsplit(b[1])
                                             /\ Unsplit(a[2]) = Unsplit(b[2])
  BY SplitDiagram
<1> HIDE DEF N
<1>2. Within(N, P)
  BY <1>1 DEF Within
<1> QED BY <1>1, <1>2 DEF N

-----------------------------------------------------------------------------
(* The steps.                                                              *)

LEMMA GraphPartKept ==
    ASSUME GraphPart, step # "graph", step' # "graph", step = "solver" => step' = "solver",
           UNCHANGED fixedVars, upper' \in 0..Sigma
    PROVE  GraphPart'
<1>1. strings' = strings /\ lower' = lower /\ UNCHANGED graphVars
  BY DEF fixedVars
<1>2. step' # "solver" => GraphIsFixed'
  <2> SUFFICES ASSUME step' # "solver" PROVE GraphIsFixed'
    OBVIOUS
  <2>1. GraphIsFixed
    BY DEF GraphPart
  <2> QED BY <1>1, <2>1, GraphStaysFixed
<1> QED BY <1>1, <1>2 DEF GraphPart

(* The shared object keeps its layout.                                     *)
LEMMA SharedPartKept ==
    ASSUME SharedPart, Published, Published', strings' = strings, parent' = parent,
           NEW u \in 0..Sigma, NEW complete, NEW flat, IsFlat(flat, parent.side),
           shared' = [shared EXCEPT !.upper = u, !.complete = complete, !.flat = flat]
    PROVE  SharedPart'
<1>1. /\ shared = [upper |-> shared.upper, complete |-> shared.complete, flat |-> shared.flat,
                   size |-> shared.size, room |-> shared.room]
      /\ shared.room \in Nat /\ SizeOf(parent) <= shared.room /\ shared.size <= shared.room
  BY DEF SharedPart
<1>2. shared' = [upper |-> u, complete |-> complete, flat |-> flat, size |-> shared.size, room |-> shared.room]
  BY <1>1
<1>3. /\ shared'.upper = u /\ shared'.flat = flat /\ shared'.size = shared.size /\ shared'.room = shared.room
      /\ shared'.complete = complete
  BY <1>2
<1>4. IsFlat(flat, parent.side)'
  BY DiagramsUnchanged
<1> QED BY <1>1, <1>2, <1>3, <1>4 DEF SharedPart

LEMMA SharedPartSame ==
    ASSUME SharedPart, Published' <=> Published, strings' = strings, parent' = parent, shared' = shared
    PROVE  SharedPart'
<1>1. \A flat, d : IsFlat(flat, d)' <=> IsFlat(flat, d)
  BY DiagramsUnchanged
<1> QED BY <1>1 DEF SharedPart

LEMMA FilterMoves ==
    ASSUME MddInv, step \in Filtering, step' \in Filtering, step' = "split" => step = "split",
           NEW N, mdd' = N, IsDiagram(N),
           task \in ChildTasks \cup {"parent"} => Within(N, parent),
           task \notin ChildTasks => Plain(N),
           step' \in {"down", "up", "split"} => at' \in 2..Len(N.levels),
           UNCHANGED <<fixedVars, task, childVars, parentVars>>, upper' \in 0..Sigma, SharedPart'
    PROVE  MddInv'
<1>1. /\ StepsFit /\ GraphPart /\ MddPart /\ ParentPart /\ WorkPart /\ SelectionPart
      /\ strings' = strings /\ task' = task /\ work' = work /\ selection' = selection
      /\ trying' = trying /\ split' = split /\ parent' = parent /\ parentUpper' = parentUpper
      /\ UNCHANGED fixedVars
  BY DEF MddInv, fixedVars, childVars, parentVars
<1>2. \A M : IsDiagram(M)' <=> IsDiagram(M)
  BY <1>1, DiagramsUnchanged
<1>3. StepsFit'
  BY <1>1 DEF StepsFit, Filtering, Selecting
<1>4. GraphPart'
  BY <1>1, GraphPartKept DEF Filtering
<1>5. MddPart'
  BY <1>1, <1>2 DEF MddPart
<1>6. ParentPart'
  BY <1>1, <1>2 DEF ParentPart
<1>7. WorkPart'
  BY <1>1, <1>2 DEF WorkPart, Filtering, Selecting
<1>8. SelectionPart'
  BY <1>1, <1>2 DEF SelectionPart, Filtering, Selecting
<1> QED BY <1>3, <1>4, <1>5, <1>6, <1>7, <1>8 DEF MddInv

(* What holds of a part of the MDD that is filtered.                       *)
LEMMA FilteredPart ==
    ASSUME MddInv, step \in Filtering, NEW N, IsDiagram(N), Smaller(N, mdd)
    PROVE  /\ task \in ChildTasks \cup {"parent"} => Within(N, parent)
           /\ task \notin ChildTasks => Plain(N)
<1>1. IsDiagram(mdd) /\ MddPart /\ ParentPart
  BY DEF MddInv, MddPart
<1>2. ASSUME task \in ChildTasks \cup {"parent"} PROVE Within(N, parent)
  <2>1. Within(mdd, parent) /\ IsDiagram(parent)
    BY <1>1, <1>2 DEF MddPart, ParentPart, ChildTasks
  <2> QED BY <1>1, <2>1, SmallerWithin
<1>3. ASSUME task \notin ChildTasks PROVE Plain(N)
  <2>1. Plain(mdd)
    BY <1>1, <1>3 DEF MddPart
  <2> QED BY <2>1, SmallerPlain
<1> QED BY <1>2, <1>3

LEMMA FilterDownKeeps ==
    ASSUME MddInv, FilterDown
    PROVE  MddInv'
<1> DEFINE N == DownVisit(mdd, at).mdd
<1>1. /\ step = "down" /\ mdd' = N /\ UNCHANGED <<fixedVars, upper, task, childVars, parentVars, shared>>
      /\ IF at < Len(mdd.levels) THEN at' = at + 1 /\ step' = step ELSE step' = "up" /\ at' = at
  BY DEF FilterDown
<1>2. /\ IsDiagram(mdd) /\ at \in 2..Len(mdd.levels) /\ strings \in Inputs /\ upper \in 0..Sigma
      /\ SharedPart
  BY <1>1 DEF MddInv, MddPart, GraphPart, Filtering
<1>3. IsDiagram(N) /\ Smaller(N, mdd) /\ Len(N.levels) = Len(mdd.levels)
  BY <1>2, DownVisitDiagram
<1> HIDE DEF N
<1>4. /\ task \in ChildTasks \cup {"parent"} => Within(N, parent)
      /\ task \notin ChildTasks => Plain(N)
  BY <1>1, <1>3, FilteredPart DEF Filtering
<1>5. at' \in 2..Len(N.levels)
  <2>1. Len(mdd.levels) \in Nat
    BY <1>2, DiagramFacts
  <2> QED BY <1>1, <1>2, <1>3, <2>1
<1>6. SharedPart'
  <2>1. Published' <=> Published
    BY <1>1 DEF Published, Filtering
  <2> QED BY <1>1, <1>2, <2>1, SharedPartSame DEF fixedVars, parentVars
<1>7. step \in Filtering /\ step' \in Filtering /\ step' # "split" /\ upper' \in 0..Sigma
  BY <1>1, <1>2 DEF Filtering
<1> QED BY <1>1, <1>3, <1>4, <1>5, <1>6, <1>7, FilterMoves

LEMMA FilterUpKeeps ==
    ASSUME MddInv, FilterUp
    PROVE  MddInv'
<1> DEFINE N == UpVisit(mdd, at).mdd
<1>1. /\ step = "up" /\ mdd' = N /\ UNCHANGED <<fixedVars, upper, task, childVars, parentVars, shared>>
      /\ IF at > 2 THEN at' = at - 1 /\ step' = step ELSE step' = "root" /\ at' = at
  BY DEF FilterUp
<1>2. /\ IsDiagram(mdd) /\ at \in 2..Len(mdd.levels) /\ strings \in Inputs /\ upper \in 0..Sigma
      /\ SharedPart
  BY <1>1 DEF MddInv, MddPart, GraphPart, Filtering
<1>3. Len(mdd.levels) \in Nat
  BY <1>2, DiagramFacts
<1>4. IsDiagram(N) /\ Smaller(N, mdd) /\ Len(N.levels) = Len(mdd.levels)
  <2>1. at \in 1..Len(mdd.levels)
    BY <1>2, <1>3
  <2> QED BY <1>2, <2>1, UpVisitDiagram
<1> HIDE DEF N
<1>5. /\ task \in ChildTasks \cup {"parent"} => Within(N, parent)
      /\ task \notin ChildTasks => Plain(N)
  BY <1>1, <1>4, FilteredPart DEF Filtering
<1>6. at' \in 2..Len(N.levels)
  BY <1>1, <1>2, <1>3, <1>4
<1>7. SharedPart'
  <2>1. Published' <=> Published
    BY <1>1 DEF Published, Filtering
  <2> QED BY <1>1, <1>2, <2>1, SharedPartSame DEF fixedVars, parentVars
<1>8. step \in Filtering /\ step' \in Filtering /\ step' # "split" /\ upper' \in 0..Sigma
  BY <1>1, <1>2 DEF Filtering
<1> QED BY <1>1, <1>4, <1>5, <1>6, <1>7, <1>8, FilterMoves

LEMMA FilterRootKeeps ==
    ASSUME MddInv, FilterRoot
    PROVE  MddInv'
<1> DEFINE V == UpVisit(mdd, 1).mdd
           N == CutOff(V, upper')
<1>1. /\ step = "root" /\ mdd' = N /\ upper' = BoundBy(V) /\ at' = 2
      /\ UNCHANGED <<fixedVars, task, childVars, parentVars>>
      /\ shared' = IF task \in {"forward", "backward"} THEN shared ELSE [shared EXCEPT !.upper = upper']
      /\ step' \in {"root", "down", "filtered"} /\ (step' = "down" => Len(N.levels) # 1)
  BY DEF FilterRoot
<1>2. /\ IsDiagram(mdd) /\ strings \in Inputs /\ upper \in 0..Sigma /\ SharedPart /\ StepsFit
  BY <1>1 DEF MddInv, MddPart, GraphPart, Filtering
<1>3. IsDiagram(V) /\ Smaller(V, mdd)
  <2>1. 1 \in 1..Len(mdd.levels)
    BY <1>2, DiagramFacts
  <2> QED BY <1>2, <2>1, UpVisitDiagram
<1> HIDE DEF V
<1>4. upper' \in 0..Sigma /\ upper' \in Nat /\ upper' + 1 <= Len(NonEmpty(V.levels))
  BY <1>1, <1>2, <1>3, BoundByFacts
<1>5. IsDiagram(N) /\ Smaller(N, V) /\ Len(N.levels) = upper' + 1
  BY <1>2, <1>3, <1>4, CutOffDiagram
<1> HIDE DEF N
<1>6. Smaller(N, mdd)
  <2>1. Len(mdd.levels) \in Nat /\ Len(V.levels) \in Nat /\ Len(N.levels) \in Nat
    BY <1>2, <1>3, <1>5, DiagramFacts
  <2> QED BY <1>3, <1>5, <2>1 DEF Smaller
<1>7. /\ task \in ChildTasks \cup {"parent"} => Within(N, parent)
      /\ task \notin ChildTasks => Plain(N)
  BY <1>1, <1>5, <1>6, FilteredPart DEF Filtering
<1>8. step' \in {"down", "up", "split"} => at' \in 2..Len(N.levels)
  BY <1>1, <1>4, <1>5
<1>9. SharedPart'
  <2>1. strings' = strings /\ parent' = parent /\ task' = task
    BY <1>1 DEF fixedVars, parentVars
  <2>2. Published' <=> Published
    BY <1>1, <2>1 DEF Published, Filtering
  <2>3. CASE task \in {"forward", "backward"}
    BY <1>1, <1>2, <2>1, <2>2, <2>3, SharedPartSame
  <2>4. CASE task \notin {"forward", "backward"}
    <3>1. Published
      BY <2>4 DEF Published
    <3>2. /\ shared = [upper |-> shared.upper, complete |-> shared.complete, flat |-> shared.flat,
                       size |-> shared.size, room |-> shared.room]
          /\ IsFlat(shared.flat, parent.side)
      BY <1>2, <3>1 DEF SharedPart
    <3>3. shared' = [shared EXCEPT !.upper = upper', !.complete = shared.complete, !.flat = shared.flat]
      BY <1>1, <2>4, <3>2
    <3> QED BY <1>2, <1>4, <2>1, <2>2, <3>1, <3>2, <3>3, SharedPartKept
  <2> QED BY <2>3, <2>4
<1>10. step \in Filtering /\ step' \in Filtering /\ step' # "split"
  BY <1>1 DEF Filtering
<1> QED BY <1>1, <1>4, <1>5, <1>7, <1>8, <1>9, <1>10, FilterMoves

LEMMA StartForwardKeeps ==
    ASSUME MddInv, StartForward
    PROVE  MddInv'
<1> DEFINE N == InitialMdd("forward", TRUE)
<1>1. /\ step = "graph" /\ pc = "done" /\ lower < upper /\ task' = "forward"
      /\ BeginFilter(N, upper)
      /\ UNCHANGED <<fixedVars, upper, childVars, parentVars, shared>>
  BY DEF StartForward
<1>2. /\ StepsFit /\ GraphPart /\ ParentPart /\ WorkPart /\ SelectionPart /\ SharedPart
      /\ task = "forward" /\ strings \in Inputs /\ upper \in 0..Sigma /\ IInv /\ BoundedWhenDone
  BY <1>1 DEF MddInv, StepsFit, GraphPart
<1>3. GraphIsFixed /\ GraphIsReduced
  BY <1>1, <1>2 DEF IInv, GraphOK, BoundedWhenDone, Bounded, GraphIsFixed, GraphIsReduced
<1>4. IsDiagram(N) /\ Plain(N)
  BY <1>3, InitialDiagram DEF Plain, Directions
<1> HIDE DEF N
<1>5. /\ mdd' = N /\ at' = 2 /\ step' \in {"filtered", "root", "down"}
      /\ step' = "down" => at' \in 2..Len(N.levels)
  BY <1>1, <1>4, FilterBegins
<1>6. /\ strings' = strings /\ lower' = lower /\ upper' = upper /\ work' = work
      /\ selection' = selection /\ trying' = trying /\ parent' = parent
      /\ parentUpper' = parentUpper /\ shared' = shared /\ UNCHANGED graphVars
  BY <1>1 DEF fixedVars, childVars, parentVars
<1>7. \A M : IsDiagram(M)' <=> IsDiagram(M)
  BY <1>6, DiagramsUnchanged
<1>8. StepsFit'
  BY <1>1, <1>5 DEF StepsFit, Filtering, Selecting
<1>9. GraphPart'
  BY <1>2, <1>3, <1>5, <1>6, GraphStaysFixed DEF GraphPart
<1>10. MddPart'
  BY <1>1, <1>4, <1>5, <1>7 DEF MddPart, ChildTasks, Filtering
<1>11. ParentPart'
  BY <1>1, <1>2, <1>6 DEF ParentPart
<1>12. WorkPart'
  BY <1>1, <1>2, <1>5, <1>6 DEF WorkPart, Filtering, Selecting
<1>13. SelectionPart'
  BY <1>1, <1>2, <1>5, <1>6 DEF SelectionPart, Filtering, Selecting
<1>14. SharedPart'
  <2>1. ~Published /\ ~Published'
    BY <1>1, <1>2 DEF Published
  <2> QED BY <1>2, <1>6, <2>1, SharedPartSame
<1> QED BY <1>8, <1>9, <1>10, <1>11, <1>12, <1>13, <1>14 DEF MddInv

LEMMA StartBackwardKeeps ==
    ASSUME MddInv, StartBackward
    PROVE  MddInv'
<1> DEFINE N == InitialMdd("reverse", ~cached)
<1>1. /\ step = "filtered" /\ task = "forward" /\ task' = "backward" /\ parent' = mdd
      /\ BeginFilter(N, upper)
      /\ UNCHANGED <<fixedVars, upper, childVars, parentUpper, shared>>
  BY DEF StartBackward
<1>2. /\ StepsFit /\ GraphPart /\ ParentPart /\ WorkPart /\ SelectionPart /\ SharedPart
      /\ strings \in Inputs /\ upper \in 0..Sigma /\ GraphIsFixed
      /\ IsDiagram(mdd) /\ Plain(mdd)
  BY <1>1 DEF MddInv, StepsFit, GraphPart, MddPart, Filtering, ChildTasks
<1>3. GraphIsReduced
  BY <1>2 DEF GraphIsFixed, GraphIsReduced, Bounded
<1>4. IsDiagram(N) /\ Plain(N)
  <2>1. "reverse" \in Directions /\ (~cached) \in BOOLEAN
    BY DEF Directions
  <2> QED BY <1>3, <2>1, InitialDiagram DEF Plain
<1> HIDE DEF N
<1>5. /\ mdd' = N /\ at' = 2 /\ step' \in {"filtered", "root", "down"}
      /\ step' = "down" => at' \in 2..Len(N.levels)
  BY <1>1, <1>4, FilterBegins
<1>6. /\ strings' = strings /\ lower' = lower /\ upper' = upper /\ work' = work
      /\ selection' = selection /\ trying' = trying
      /\ parentUpper' = parentUpper /\ shared' = shared
  BY <1>1 DEF fixedVars, childVars
<1>7. \A M : IsDiagram(M)' <=> IsDiagram(M)
  BY <1>6, DiagramsUnchanged
<1>8. StepsFit'
  BY <1>1, <1>5 DEF StepsFit, Filtering, Selecting
<1>9. GraphPart'
  BY <1>1, <1>2, <1>5, <1>6, GraphPartKept
<1>10. MddPart'
  BY <1>1, <1>4, <1>5, <1>7 DEF MddPart, ChildTasks, Filtering
<1>11. ParentPart'
  BY <1>1, <1>2, <1>6, <1>7 DEF ParentPart
<1>12. WorkPart'
  BY <1>1, <1>2, <1>5, <1>6 DEF WorkPart, Filtering, Selecting
<1>13. SelectionPart'
  BY <1>1, <1>2, <1>5, <1>6 DEF SelectionPart, Filtering, Selecting
<1>14. SharedPart'
  <2>1. ~Published /\ ~Published'
    BY <1>1, <1>5 DEF Published, Filtering
  <2> QED BY <1>2, <1>6, <2>1 DEF SharedPart
<1> QED BY <1>8, <1>9, <1>10, <1>11, <1>12, <1>13, <1>14 DEF MddInv

(* From a round of the loop to the next one: there are no MDDs but the     *)
(* parent's, which is what is laid out or contains it.                     *)
LEMMA RoundsKeep ==
    ASSUME MddInv, step # "graph", step # "solver", task # "forward", Published',
           step' \in {"rounds", "merge", "solver"}, UNCHANGED <<fixedVars, task>>,
           upper' \in 0..Sigma, parentUpper' \in 0..Sigma,
           mdd' = NoMdd, work' = NoMdd, selection' = NoMdd, trying' \subseteq Characters,
           NEW P, parent' = P, IsDiagram(P), Plain(P), SharedPart'
    PROVE  MddInv'
<1>1. StepsFit /\ GraphPart /\ strings' = strings /\ task' = task
  BY DEF MddInv, fixedVars
<1>2. \A M : IsDiagram(M)' <=> IsDiagram(M)
  BY <1>1, DiagramsUnchanged
<1>3. StepsFit'
  BY <1>1 DEF StepsFit, Filtering, Selecting
<1>4. GraphPart'
  BY <1>1, GraphPartKept
<1>5. MddPart' /\ WorkPart' /\ SelectionPart'
  BY <1>1 DEF MddPart, WorkPart, SelectionPart, Filtering, Selecting
<1>6. ParentPart'
  BY <1>1, <1>2 DEF ParentPart
<1> QED BY <1>3, <1>4, <1>5, <1>6 DEF MddInv

LEMMA SizeFacts ==
    ASSUME strings \in Inputs, NEW M, IsDiagram(M), Plain(M)
    PROVE  SizeOf(M) \in Nat
  BY PlainWithin, PartSize

LEMMA ChooseSideKeeps ==
    ASSUME MddInv, ChooseSide
    PROVE  MddInv'
<1>1. /\ step = "filtered" /\ task = "backward" /\ step' = "rounds" /\ mdd' = NoMdd
      /\ parent' = IF Cardinality(MatchesIn(parent)) < Cardinality(MatchesIn(mdd)) THEN parent ELSE mdd
      /\ shared' = [upper |-> upper, complete |-> FALSE, flat |-> Laid(parent'),
                    size |-> SizeOf(parent'), room |-> SizeOf(parent')]
      /\ UNCHANGED <<fixedVars, upper, task, childVars, parentUpper>>
  BY DEF ChooseSide
<1>2. /\ GraphPart /\ ParentPart /\ WorkPart /\ SelectionPart
      /\ strings \in Inputs /\ upper \in 0..Sigma
      /\ IsDiagram(mdd) /\ Plain(mdd) /\ IsDiagram(parent) /\ Plain(parent)
      /\ parentUpper \in 0..Sigma
  BY <1>1 DEF MddInv, GraphPart, MddPart, ParentPart, Filtering, ChildTasks
<1> DEFINE P == parent'
<1>3. IsDiagram(P) /\ Plain(P)
  BY <1>1, <1>2
<1>4. IsFlat(Laid(P), P.side) /\ SizeOf(P) \in Nat
  BY <1>2, <1>3, LaidFacts, SizeFacts
<1>5. strings' = strings /\ work' = work /\ selection' = selection /\ trying' = trying
  BY <1>1 DEF fixedVars, childVars
<1>6. Published'
  BY <1>1 DEF Published, Filtering
<1>7. SharedPart'
  <2>1. \A flat, d : IsFlat(flat, d)' <=> IsFlat(flat, d)
    BY <1>5, DiagramsUnchanged
  <2>2. /\ shared'.upper = upper /\ shared'.complete = FALSE /\ shared'.flat = Laid(P)
        /\ shared'.size = SizeOf(P) /\ shared'.room = SizeOf(P)
        /\ shared' = [upper |-> shared'.upper, complete |-> shared'.complete, flat |-> shared'.flat,
                      size |-> shared'.size, room |-> shared'.room]
    BY <1>1
  <2>3. IsFlat(shared'.flat, P.side)
    BY <1>4, <2>2
  <2>4. shared'.room \in Nat /\ SizeOf(P) <= shared'.room /\ shared'.size <= shared'.room
    BY <1>4, <2>2
  <2> QED BY <1>2, <1>6, <2>1, <2>2, <2>3, <2>4 DEF SharedPart
<1>8. work' = NoMdd /\ selection' = NoMdd /\ trying' \subseteq Characters
  BY <1>1, <1>2, <1>5 DEF WorkPart, SelectionPart, Filtering, Selecting
<1> QED BY <1>1, <1>2, <1>3, <1>6, <1>7, <1>8, RoundsKeep

LEMMA ForkKeeps ==
    ASSUME MddInv, Fork
    PROVE  MddInv'
<1> DEFINE N == PrunedByFlat(CopyOf(parent), shared.flat)
<1>1. /\ step = "rounds" /\ task' = "copy" /\ parentUpper' = upper
      /\ BeginFilter(N, upper)
      /\ UNCHANGED <<fixedVars, upper, childVars, parent, shared>>
  BY DEF Fork
<1>2. /\ StepsFit /\ GraphPart /\ ParentPart /\ WorkPart /\ SelectionPart /\ SharedPart
      /\ strings \in Inputs /\ upper \in 0..Sigma /\ task # "forward"
      /\ IsDiagram(parent) /\ Plain(parent)
  BY <1>1 DEF MddInv, StepsFit, GraphPart, ParentPart
<1>3. Published /\ IsFlat(shared.flat, parent.side)
  BY <1>1, <1>2 DEF Published, Filtering, SharedPart
<1>4. Within(parent, parent)
  BY <1>2, PlainWithin
<1>5. IsDiagram(CopyOf(parent)) /\ Within(CopyOf(parent), parent)
  BY <1>2, <1>4, CopyWithin
<1>6. IsDiagram(N) /\ Within(N, parent)
  BY <1>2, <1>3, <1>5, PrunedWithin
<1> HIDE DEF N
<1>7. /\ mdd' = N /\ at' = 2 /\ step' \in {"filtered", "root", "down"}
      /\ step' = "down" => at' \in 2..Len(N.levels)
  BY <1>1, <1>6, FilterBegins
<1>8. /\ strings' = strings /\ lower' = lower /\ upper' = upper /\ work' = work
      /\ selection' = selection /\ trying' = trying /\ shared' = shared /\ parent' = parent
  BY <1>1 DEF fixedVars, childVars
<1>9. \A M : IsDiagram(M)' <=> IsDiagram(M)
  BY <1>8, DiagramsUnchanged
<1>10. StepsFit'
  BY <1>1, <1>7 DEF StepsFit, Filtering, Selecting, ChildTasks
<1>11. GraphPart'
  BY <1>1, <1>2, <1>7, <1>8, GraphPartKept
<1>12. MddPart'
  BY <1>1, <1>6, <1>7, <1>8, <1>9 DEF MddPart, ChildTasks, Filtering
<1>13. ParentPart'
  BY <1>1, <1>2, <1>8, <1>9 DEF ParentPart
<1>14. WorkPart'
  BY <1>1, <1>2, <1>7, <1>8 DEF WorkPart, Filtering, Selecting
<1>15. SelectionPart'
  BY <1>1, <1>2, <1>7, <1>8 DEF SelectionPart, Filtering, Selecting
<1>16. SharedPart'
  <2>1. Published'
    BY <1>1 DEF Published
  <2> QED BY <1>2, <1>3, <1>8, <2>1, SharedPartSame
<1> QED BY <1>10, <1>11, <1>12, <1>13, <1>14, <1>15, <1>16 DEF MddInv

LEMMA ParentResumesKeeps ==
    ASSUME MddInv, ParentResumes
    PROVE  MddInv'
<1> DEFINE N == PrunedByFlat(parent, shared.flat)
<1>1. /\ step = "merge" /\ upper' = Max({lower, Min({parentUpper, shared.upper})})
      /\ UNCHANGED <<fixedVars, childVars, parentVars, shared>>
  BY DEF ParentResumes
<1>2. /\ StepsFit /\ GraphPart /\ MddPart /\ ParentPart /\ WorkPart /\ SelectionPart /\ SharedPart
      /\ strings \in Inputs /\ lower \in 0..Sigma /\ parentUpper \in 0..Sigma /\ task # "forward"
      /\ IsDiagram(parent) /\ Plain(parent)
  BY <1>1 DEF MddInv, StepsFit, GraphPart, ParentPart
<1>3. Published /\ IsFlat(shared.flat, parent.side) /\ shared.upper \in 0..Sigma
  BY <1>1, <1>2 DEF Published, Filtering, SharedPart
<1>4. upper' \in 0..Sigma
  <2>1. Min({parentUpper, shared.upper}) \in 0..Sigma
    BY <1>2, <1>3, MaxInRange
  <2> QED BY <1>1, <1>2, <2>1, MaxInRange
<1>5. /\ strings' = strings /\ lower' = lower /\ work' = work
      /\ selection' = selection /\ trying' = trying /\ shared' = shared
      /\ parent' = parent /\ parentUpper' = parentUpper
  BY <1>1 DEF fixedVars, childVars, parentVars
<1>6. work' = NoMdd /\ selection' = NoMdd /\ trying' \subseteq Characters /\ mdd = NoMdd
  BY <1>1, <1>2, <1>5 DEF MddPart, WorkPart, SelectionPart, Filtering, Selecting
<1>7. CASE lower >= upper'
  <2>1. step' = "rounds" /\ UNCHANGED <<task, filterVars>>
    BY <1>7 DEF ParentResumes
  <2>2. Published'
    BY <1>2, <2>1 DEF Published, Filtering
  <2>3. SharedPart'
    BY <1>2, <1>3, <1>5, <2>2, SharedPartSame
  <2>4. mdd' = NoMdd /\ task' = task
    BY <1>6, <2>1 DEF filterVars
  <2> QED BY <1>1, <1>2, <1>4, <1>5, <1>6, <2>1, <2>2, <2>3, <2>4, RoundsKeep
<1>8. CASE ~(lower >= upper')
  <2>1. task' = "parent" /\ BeginFilter(N, upper')
    BY <1>8 DEF ParentResumes
  <2>2. IsDiagram(N) /\ Within(N, parent) /\ Plain(N)
    BY <1>2, <1>3, PlainWithin, PrunedWithin
  <2> HIDE DEF N
  <2>3. /\ mdd' = N /\ at' = 2 /\ step' \in {"filtered", "root", "down"}
        /\ step' = "down" => at' \in 2..Len(N.levels)
    BY <2>1, <2>2, FilterBegins
  <2>4. \A M : IsDiagram(M)' <=> IsDiagram(M)
    BY <1>5, DiagramsUnchanged
  <2>5. StepsFit'
    BY <2>1, <2>3 DEF StepsFit, Filtering, Selecting, ChildTasks
  <2>6. GraphPart'
    BY <1>1, <1>2, <1>4, <2>3, GraphPartKept
  <2>7. MddPart'
    BY <1>5, <2>1, <2>2, <2>3, <2>4 DEF MddPart, ChildTasks, Filtering
  <2>8. ParentPart'
    BY <1>2, <1>5, <2>1, <2>4 DEF ParentPart
  <2>9. WorkPart' /\ SelectionPart'
    BY <1>6, <2>1, <2>3 DEF WorkPart, SelectionPart, Filtering, Selecting
  <2>10. SharedPart'
    <3>1. Published'
      BY <2>1 DEF Published
    <3> QED BY <1>2, <1>3, <1>5, <3>1, SharedPartSame
  <2> QED BY <2>5, <2>6, <2>7, <2>8, <2>9, <2>10 DEF MddInv
<1> QED BY <1>7, <1>8

(* What is laid out is not larger than the MDD it was taken from.          *)
LEMMA LaidOutPart ==
    ASSUME SharedPart, Published, Published', strings \in Inputs, strings' = strings,
           IsDiagram(parent), Plain(parent), NEW M, IsDiagram(M), Within(M, parent), Plain(M) \/ Thin(M),
           NEW P, parent' = P, IsDiagram(P), P = parent \/ P = M,
           shared' = [shared EXCEPT !.flat = Laid(M), !.size = SizeOf(M)]
    PROVE  SharedPart'
<1>1. /\ shared = [upper |-> shared.upper, complete |-> shared.complete, flat |-> shared.flat,
                   size |-> shared.size, room |-> shared.room]
      /\ shared.upper \in 0..Sigma /\ shared.room \in Nat /\ SizeOf(parent) <= shared.room
  BY DEF SharedPart
<1>2. /\ shared'.upper = shared.upper /\ shared'.flat = Laid(M) /\ shared'.size = SizeOf(M)
      /\ shared'.room = shared.room
      /\ shared' = [upper |-> shared'.upper, complete |-> shared'.complete, flat |-> shared'.flat,
                    size |-> shared'.size, room |-> shared'.room]
  BY <1>1
<1>3. SizeOf(M) <= SizeOf(parent) /\ SizeOf(M) \in Nat /\ SizeOf(parent) \in Nat
  BY PartSize, SizeFacts
<1>4. IsFlat(Laid(M), M.side) /\ M.side = parent.side
  BY LaidFacts DEF Within
<1>5. IsFlat(shared'.flat, P.side)
  BY <1>2, <1>4
<1>6. SizeOf(P) <= shared'.room /\ shared'.size <= shared'.room
  <2>1. SizeOf(M) <= shared.room
    BY <1>1, <1>3
  <2> QED BY <1>1, <1>2, <2>1
<1>7. \A flat, d : IsFlat(flat, d)' <=> IsFlat(flat, d)
  BY DiagramsUnchanged
<1> QED BY <1>1, <1>2, <1>5, <1>6, <1>7 DEF SharedPart

LEMMA ParentLaysOutKeeps ==
    ASSUME MddInv, ParentLaysOut
    PROVE  MddInv'
<1>1. /\ step = "filtered" /\ task = "parent" /\ parent' = mdd /\ step' = "rounds" /\ mdd' = NoMdd
      /\ shared' = [shared EXCEPT !.flat = Laid(mdd), !.size = SizeOf(mdd)]
      /\ upper' = Max({lower, Min({upper, shared.upper})})
      /\ UNCHANGED <<fixedVars, task, childVars, parentUpper>>
  BY DEF ParentLaysOut
<1>2. /\ GraphPart /\ WorkPart /\ SelectionPart /\ SharedPart
      /\ strings \in Inputs /\ upper \in 0..Sigma /\ lower \in 0..Sigma /\ parentUpper \in 0..Sigma
      /\ IsDiagram(mdd) /\ Plain(mdd) /\ Within(mdd, parent) /\ IsDiagram(parent) /\ Plain(parent)
  BY <1>1 DEF MddInv, GraphPart, MddPart, ParentPart, Filtering, ChildTasks
<1>3. Published /\ Published'
  BY <1>1 DEF Published
<1>4. shared.upper \in 0..Sigma
  BY <1>2, <1>3 DEF SharedPart
<1>5. upper' \in 0..Sigma
  <2>1. Min({upper, shared.upper}) \in 0..Sigma
    BY <1>2, <1>4, MaxInRange
  <2> QED BY <1>1, <1>2, <2>1, MaxInRange
<1>6. strings' = strings /\ work' = work /\ selection' = selection /\ trying' = trying
  BY <1>1 DEF fixedVars, childVars
<1>7. SharedPart'
  BY <1>1, <1>2, <1>3, <1>6, LaidOutPart
<1>8. work' = NoMdd /\ selection' = NoMdd /\ trying' \subseteq Characters
  BY <1>1, <1>2, <1>6 DEF WorkPart, SelectionPart, Filtering, Selecting
<1> QED BY <1>1, <1>2, <1>3, <1>5, <1>7, <1>8, RoundsKeep

LEMMA EndReductionKeeps ==
    ASSUME MddInv, EndReduction
    PROVE  MddInv'
<1>1. /\ step = "rounds" /\ step' = "solver" /\ upper' = Max({lower, upper})
      /\ strings' = strings /\ lower' = lower /\ task' = task
      /\ shared' = [shared EXCEPT !.complete = @ \/ lower >= upper]
      /\ UNCHANGED <<filterVars, childVars, parentVars>>
  BY DEF EndReduction
<1>2. /\ StepsFit /\ GraphPart /\ MddPart /\ ParentPart /\ WorkPart /\ SelectionPart /\ SharedPart
      /\ strings \in Inputs /\ lower \in 0..Sigma /\ upper \in 0..Sigma /\ task # "forward"
  BY <1>1 DEF MddInv, StepsFit, GraphPart
<1>3. /\ mdd' = mdd /\ work' = work /\ selection' = selection /\ trying' = trying
      /\ parent' = parent /\ parentUpper' = parentUpper
  BY <1>1 DEF filterVars, childVars, parentVars
<1>4. \A M : IsDiagram(M)' <=> IsDiagram(M)
  BY <1>1, DiagramsUnchanged
<1>5. StepsFit'
  BY <1>1, <1>2 DEF StepsFit, Filtering, Selecting
<1>6. GraphPart'
  BY <1>1, <1>2, MaxInRange DEF GraphPart
<1>7. MddPart' /\ WorkPart' /\ SelectionPart'
  BY <1>1, <1>2, <1>3 DEF MddPart, WorkPart, SelectionPart, Filtering, Selecting
<1>8. ParentPart'
  BY <1>1, <1>2, <1>3, <1>4 DEF ParentPart
<1>9. SharedPart'
  <2>1. Published /\ Published'
    BY <1>1, <1>2 DEF Published, Filtering
  <2>2. /\ shared = [upper |-> shared.upper, complete |-> shared.complete, flat |-> shared.flat,
                     size |-> shared.size, room |-> shared.room]
        /\ shared.upper \in 0..Sigma /\ IsFlat(shared.flat, parent.side)
    BY <1>2, <2>1 DEF SharedPart
  <2>3. PICK c : c = (shared.complete \/ lower >= upper)
    OBVIOUS
  <2> DEFINE u == shared.upper
             flat == shared.flat
  <2>4. shared' = [shared EXCEPT !.upper = u, !.complete = c, !.flat = flat]
    BY <1>1, <2>2, <2>3
  <2>5. u \in 0..Sigma /\ IsFlat(flat, parent.side)
    BY <2>2
  <2> HIDE DEF u, flat
  <2> QED BY <1>1, <1>2, <1>3, <2>1, <2>4, <2>5, SharedPartKept
<1> QED BY <1>5, <1>6, <1>7, <1>8, <1>9 DEF MddInv

(* In the child, whose task it is to filter or to refine.                  *)
LEMMA ChildEndsKeeps ==
    ASSUME MddInv, task \in ChildTasks, step # "graph", step # "solver", ChildEnds,
           UNCHANGED <<fixedVars, task, parentVars>>, SharedPart'
    PROVE  MddInv'
<1>1. /\ step' = "merge" /\ upper' = parentUpper
      /\ mdd' = NoMdd /\ work' = NoMdd /\ selection' = NoMdd /\ trying' = {}
      /\ parent' = parent /\ parentUpper' = parentUpper
  BY DEF ChildEnds, parentVars
<1>2. parentUpper \in 0..Sigma /\ IsDiagram(parent) /\ Plain(parent)
  BY DEF MddInv, ParentPart, ChildTasks
<1>3. Published' /\ task # "forward"
  BY <1>1 DEF Published, ChildTasks
<1> QED BY <1>1, <1>2, <1>3, RoundsKeep

LEMMA KillKeeps ==
    ASSUME MddInv, Kill
    PROVE  MddInv'
<1>1. /\ ChildRuns /\ ChildEnds /\ UNCHANGED <<fixedVars, task, parentVars, shared>>
  BY DEF Kill
<1>2. StepsFit /\ SharedPart
  BY DEF MddInv
<1>3. task \in ChildTasks /\ step # "graph" /\ step # "solver"
  BY <1>1, <1>2 DEF ChildRuns, StepsFit, ChildTasks, Selecting
<1>4. SharedPart'
  <2>1. Published /\ Published'
    BY <1>1, <1>3 DEF Published, ChildTasks
  <2>2. strings' = strings /\ parent' = parent /\ shared' = shared
    BY <1>1 DEF fixedVars, parentVars
  <2> QED BY <1>2, <2>1, <2>2, SharedPartSame
<1> QED BY <1>1, <1>3, <1>4, ChildEndsKeeps

(* The filter of a child's MDD begins.                                     *)
LEMMA SplitBegins ==
    ASSUME NEW M, NEW c, IsDiagram(M), BeginSplit(M, c)
    PROVE  /\ mdd' = M /\ at' = 2 /\ split' = c /\ step' \in {"filtered", "root", "down", "split"}
           /\ step' \in {"down", "split"} => at' \in 2..Len(M.levels)
<1>1. Len(M.levels) \in Nat \ {0}
  BY DEF IsDiagram
<1>2. split' = c /\ at' = 2
  BY DEF BeginSplit
<1>3. CASE Len(M.levels) = 1
  <2>1. BeginFilter(M, upper)
    BY <1>3 DEF BeginSplit
  <2>2. step' # "split"
    BY <2>1, FilterBegins
  <2> QED BY <1>2, <2>1, <2>2, FilterBegins
<1>4. CASE Len(M.levels) # 1
  <2>1. mdd' = M /\ step' = "split"
    BY <1>4 DEF BeginSplit
  <2>2. \A k \in Nat \ {0} : k # 1 => 2 \in 2..k
    OBVIOUS
  <2> QED BY <1>1, <1>2, <1>4, <2>1, <2>2
<1> QED BY <1>3, <1>4

LEMMA ChildShared ==
    ASSUME MddInv, task \in ChildTasks, task' \in ChildTasks, strings' = strings, parent' = parent
    PROVE  /\ SharedPart /\ Published /\ Published'
           /\ shared' = shared => SharedPart'
           /\ shared = [upper |-> shared.upper, complete |-> shared.complete, flat |-> shared.flat,
                        size |-> shared.size, room |-> shared.room]
           /\ shared.upper \in 0..Sigma /\ IsFlat(shared.flat, parent.side)
<1>1. SharedPart /\ Published /\ Published'
  BY DEF MddInv, Published, ChildTasks
<1>2. shared' = shared => SharedPart'
  BY <1>1, SharedPartSame
<1>3. /\ shared = [upper |-> shared.upper, complete |-> shared.complete, flat |-> shared.flat,
                   size |-> shared.size, room |-> shared.room]
      /\ shared.upper \in 0..Sigma /\ IsFlat(shared.flat, parent.side)
  BY <1>1 DEF SharedPart
<1> QED BY <1>1, <1>2, <1>3

LEMMA CompleteShared ==
    ASSUME MddInv, task \in ChildTasks, task' \in ChildTasks, strings' = strings, parent' = parent,
           shared' = [shared EXCEPT !.complete = TRUE]
    PROVE  SharedPart'
<1> DEFINE u == shared.upper
           flat == shared.flat
<1>1. /\ shared = [upper |-> shared.upper, complete |-> shared.complete, flat |-> shared.flat,
                   size |-> shared.size, room |-> shared.room]
      /\ u \in 0..Sigma /\ IsFlat(flat, parent.side) /\ SharedPart /\ Published /\ Published'
  BY ChildShared
<1>2. PICK c : c = TRUE
  OBVIOUS
<1>3. shared' = [shared EXCEPT !.upper = u, !.complete = c, !.flat = flat]
  BY <1>1, <1>2
<1> HIDE DEF u, flat
<1> QED BY <1>1, <1>3, SharedPartKept

LEMMA ChildParts ==
    ASSUME MddInv, task \in ChildTasks
    PROVE  /\ strings \in Inputs /\ upper \in 0..Sigma /\ lower \in 0..Sigma
           /\ IsDiagram(parent) /\ Plain(parent) /\ trying \subseteq Characters
           /\ step \in Filtering => IsDiagram(mdd) /\ Within(mdd, parent)
           /\ step \in Selecting \/ (step \in Filtering /\ task = "trial") =>
                 IsDiagram(work) /\ Within(work, parent)
           /\ step \in Selecting \/ (step \in Filtering /\ task \in {"trial", "refine"}) =>
                 IsDiagram(selection) /\ Within(selection, parent)
  BY DEF MddInv, GraphPart, MddPart, ParentPart, WorkPart, SelectionPart, ChildTasks

LEMMA ChildMoves ==
    ASSUME MddInv, task \in ChildTasks, task' \in ChildTasks, step # "graph", step # "solver",
           step' \in Selecting, UNCHANGED <<fixedVars, parentVars>>, upper' \in 0..Sigma, mdd' = NoMdd,
           NEW W, work' = W, IsDiagram(W), Within(W, parent), step' = "layout" => Thin(W),
           NEW S, selection' = S, IsDiagram(S), Within(S, parent), trying' \subseteq Characters,
           SharedPart'
    PROVE  MddInv'
<1>1. /\ StepsFit /\ GraphPart /\ ParentPart /\ strings' = strings /\ parent' = parent
      /\ parentUpper' = parentUpper
  BY DEF MddInv, fixedVars, parentVars
<1>2. \A M : IsDiagram(M)' <=> IsDiagram(M)
  BY <1>1, DiagramsUnchanged
<1>3. StepsFit'
  BY <1>1 DEF StepsFit, Filtering, Selecting, ChildTasks
<1>4. GraphPart'
  BY <1>1, GraphPartKept DEF Selecting
<1>5. MddPart'
  BY DEF MddPart, Filtering, Selecting
<1>6. WorkPart'
  BY <1>1, <1>2 DEF WorkPart
<1>7. SelectionPart'
  BY <1>1, <1>2 DEF SelectionPart, Selecting
<1>8. ParentPart'
  BY <1>1, <1>2 DEF ParentPart, ChildTasks
<1> QED BY <1>3, <1>4, <1>5, <1>6, <1>7, <1>8 DEF MddInv

LEMMA ChildFilters ==
    ASSUME MddInv, task \in ChildTasks, task' \in {"trial", "refine"}, step # "graph", step # "solver",
           step' \in Filtering, UNCHANGED <<fixedVars, parentVars>>, upper' \in 0..Sigma,
           NEW N, mdd' = N, IsDiagram(N), Within(N, parent),
           step' \in {"down", "up", "split"} => at' \in 2..Len(N.levels),
           step' = "split" => split' \in Characters,
           NEW W, work' = W, task' = "trial" => IsDiagram(W) /\ Within(W, parent),
           task' = "refine" => W = NoMdd,
           NEW S, selection' = S, IsDiagram(S), Within(S, parent), trying' \subseteq Characters,
           SharedPart'
    PROVE  MddInv'
<1>1. /\ StepsFit /\ GraphPart /\ ParentPart /\ strings' = strings /\ parent' = parent
      /\ parentUpper' = parentUpper
  BY DEF MddInv, fixedVars, parentVars
<1>2. \A M : IsDiagram(M)' <=> IsDiagram(M)
  BY <1>1, DiagramsUnchanged
<1>3. StepsFit'
  BY <1>1 DEF StepsFit, Filtering, Selecting, ChildTasks
<1>4. GraphPart'
  BY <1>1, GraphPartKept DEF Filtering
<1>5. MddPart'
  BY <1>1, <1>2 DEF MddPart, ChildTasks
<1>6. WorkPart'
  <2>1. step' \notin Selecting /\ step' # "layout"
    BY DEF Filtering, Selecting
  <2> QED BY <1>1, <1>2, <2>1 DEF WorkPart
<1>7. SelectionPart'
  BY <1>1, <1>2 DEF SelectionPart
<1>8. ParentPart'
  BY <1>1, <1>2 DEF ParentPart, ChildTasks
<1> QED BY <1>3, <1>4, <1>5, <1>6, <1>7, <1>8 DEF MddInv

LEMMA CopyIsFilteredKeeps ==
    ASSUME MddInv, CopyIsFiltered
    PROVE  MddInv'
<1>1. /\ step = "filtered" /\ task = "copy" /\ UNCHANGED <<fixedVars, task, parentVars>>
      /\ task \in ChildTasks /\ task' \in ChildTasks /\ strings' = strings /\ parent' = parent
  BY DEF CopyIsFiltered, ChildTasks, fixedVars, parentVars
<1>2. CASE lower >= upper
  <2>1. shared' = [shared EXCEPT !.complete = TRUE] /\ ChildEnds
    BY <1>2 DEF CopyIsFiltered
  <2>2. SharedPart'
    BY <1>1, <2>1, CompleteShared
  <2> QED BY <1>1, <2>1, <2>2, ChildEndsKeeps
<1>3. CASE ~(lower >= upper)
  <2>1. /\ work' = mdd /\ selection' = CopyOf(mdd) /\ trying' = Repeated(mdd) /\ step' = "select"
        /\ mdd' = NoMdd /\ upper' = upper /\ shared' = shared
    BY <1>3 DEF CopyIsFiltered
  <2>2. /\ IsDiagram(mdd) /\ Within(mdd, parent) /\ upper \in 0..Sigma /\ strings \in Inputs
        /\ IsDiagram(parent)
    BY <1>1, ChildParts DEF Filtering
  <2>3. IsDiagram(CopyOf(mdd)) /\ Within(CopyOf(mdd), parent)
    BY <2>2, CopyWithin
  <2>4. Repeated(mdd) \subseteq Characters
    BY DEF Repeated
  <2>5. SharedPart'
    BY <1>1, <2>1, ChildShared
  <2> QED BY <1>1, <2>1, <2>2, <2>3, <2>4, <2>5, ChildMoves DEF Selecting
<1> QED BY <1>2, <1>3

LEMMA TryCharacterKeeps ==
    ASSUME MddInv, TryCharacter
    PROVE  MddInv'
<1> DEFINE M == IF refined = {} THEN work ELSE selection
           N == CopyOf(M)
<1>1. /\ step = "select" /\ task' = "trial"
      /\ UNCHANGED <<fixedVars, upper, work, selection, parentVars, shared>>
      /\ strings' = strings /\ parent' = parent
  BY DEF TryCharacter, fixedVars, parentVars
<1>2. PICK c \in trying : trying' = trying \ {c} /\ BeginSplit(N, c)
  BY DEF TryCharacter
<1>3. task \in ChildTasks /\ task' \in ChildTasks
  BY <1>1 DEF MddInv, StepsFit, Selecting, ChildTasks
<1>4. /\ strings \in Inputs /\ upper \in 0..Sigma /\ IsDiagram(parent) /\ trying \subseteq Characters
      /\ IsDiagram(work) /\ Within(work, parent) /\ IsDiagram(selection) /\ Within(selection, parent)
  BY <1>1, <1>3, ChildParts DEF Selecting
<1>5. IsDiagram(M) /\ Within(M, parent)
  BY <1>4
<1> HIDE DEF M
<1>6. IsDiagram(N) /\ Within(N, parent)
  BY <1>4, <1>5, CopyWithin
<1> HIDE DEF N
<1>7. /\ mdd' = N /\ at' = 2 /\ split' = c /\ step' \in {"filtered", "root", "down", "split"}
      /\ step' \in {"down", "split"} => at' \in 2..Len(N.levels)
  BY <1>2, <1>6, SplitBegins
<1>8. SharedPart'
  BY <1>1, <1>3, ChildShared
<1>9. /\ step' \in Filtering
      /\ step' \in {"down", "up", "split"} => at' \in 2..Len(N.levels)
      /\ split' \in Characters /\ trying' \subseteq Characters /\ upper' \in 0..Sigma
      /\ work' = work /\ selection' = selection
  BY <1>1, <1>2, <1>4, <1>7 DEF Filtering
<1>10. step # "graph" /\ step # "solver" /\ task' \in {"trial", "refine"} /\ task' # "refine"
  BY <1>1
<1> QED BY <1>1, <1>3, <1>4, <1>6, <1>7, <1>8, <1>9, <1>10, ChildFilters

LEMMA TrialIsOverKeeps ==
    ASSUME MddInv, TrialIsOver
    PROVE  MddInv'
<1>1. /\ step = "filtered" /\ task = "trial" /\ step' = "select" /\ mdd' = NoMdd
      /\ UNCHANGED <<fixedVars, upper, task, childVars, parentVars, shared>>
      /\ strings' = strings /\ parent' = parent /\ work' = work /\ selection' = selection
      /\ trying' = trying
  BY DEF TrialIsOver, fixedVars, parentVars, childVars
<1>2. task \in ChildTasks /\ task' \in ChildTasks
  BY <1>1 DEF ChildTasks
<1>3. /\ upper \in 0..Sigma /\ trying \subseteq Characters
      /\ IsDiagram(work) /\ Within(work, parent) /\ IsDiagram(selection) /\ Within(selection, parent)
  BY <1>1, <1>2, ChildParts DEF Filtering
<1>4. SharedPart'
  BY <1>1, <1>2, ChildShared
<1>5. step' \in Selecting /\ step' # "layout" /\ step # "graph" /\ step # "solver" /\ upper' \in 0..Sigma
  BY <1>1, <1>3 DEF Selecting
<1> QED BY <1>1, <1>2, <1>3, <1>4, <1>5, ChildMoves

LEMMA RefineCharacterKeeps ==
    ASSUME MddInv, RefineCharacter
    PROVE  MddInv'
<1>1. /\ step = "select" /\ trying = {} /\ task' = "refine" /\ work' = NoMdd
      /\ UNCHANGED <<fixedVars, upper, selection, trying, parentVars, shared>>
      /\ strings' = strings /\ parent' = parent
  BY DEF RefineCharacter, fixedVars, parentVars
<1>2. PICK c \in Characters \ refined : BeginSplit(work, c)
  BY DEF RefineCharacter
<1>3. task \in ChildTasks /\ task' \in ChildTasks
  BY <1>1 DEF MddInv, StepsFit, Selecting, ChildTasks
<1>4. /\ strings \in Inputs /\ upper \in 0..Sigma /\ IsDiagram(parent)
      /\ IsDiagram(work) /\ Within(work, parent) /\ IsDiagram(selection) /\ Within(selection, parent)
  BY <1>1, <1>3, ChildParts DEF Selecting
<1>5. /\ mdd' = work /\ at' = 2 /\ split' = c /\ step' \in {"filtered", "root", "down", "split"}
      /\ step' \in {"down", "split"} => at' \in 2..Len(work.levels)
  BY <1>2, <1>4, SplitBegins
<1>6. SharedPart'
  BY <1>1, <1>3, ChildShared
<1>7. /\ step' \in Filtering
      /\ step' \in {"down", "up", "split"} => at' \in 2..Len(work.levels)
      /\ split' \in Characters /\ trying' \subseteq Characters /\ upper' \in 0..Sigma
      /\ selection' = selection
  BY <1>1, <1>2, <1>4, <1>5 DEF Filtering
<1>8. step # "graph" /\ step # "solver" /\ task' \in {"trial", "refine"} /\ task' # "trial"
  BY <1>1
<1> QED BY <1>1, <1>3, <1>4, <1>5, <1>6, <1>7, <1>8, ChildFilters

LEMMA SplitNextLevelKeeps ==
    ASSUME MddInv, SplitNextLevel
    PROVE  MddInv'
<1>1. /\ step = "split" /\ UNCHANGED <<fixedVars, upper, task, childVars, parentVars, shared>>
      /\ strings' = strings /\ parent' = parent /\ task' = task
  BY DEF SplitNextLevel, fixedVars, parentVars
<1>2. PICK skipped :
         LET M == SplitLevel(mdd, at, split, skipped)
         IN  IF at = Len(mdd.levels) THEN BeginFilter(M, upper)
             ELSE mdd' = M /\ at' = at + 1 /\ UNCHANGED <<step, changing, changed>>
  BY DEF SplitNextLevel
<1>3. task \in ChildTasks /\ task' \in ChildTasks /\ task \in {"trial", "refine"} /\ split \in Characters
  BY <1>1 DEF MddInv, StepsFit, ChildTasks, SelectionPart
<1>4. /\ strings \in Inputs /\ upper \in 0..Sigma /\ IsDiagram(parent)
      /\ IsDiagram(mdd) /\ Within(mdd, parent) /\ at \in 2..Len(mdd.levels)
  <2>1. MddPart
    BY DEF MddInv
  <2> QED BY <1>1, <1>3, <2>1, ChildParts DEF Filtering, MddPart
<1> DEFINE N == SplitLevel(mdd, at, split, skipped)
<1>5. IsDiagram(N) /\ Within(N, parent) /\ Len(N.levels) = Len(mdd.levels)
  BY <1>3, <1>4, SplitWithin
<1>6. IF at = Len(mdd.levels) THEN BeginFilter(N, upper)
      ELSE mdd' = N /\ at' = at + 1 /\ step' = step
  BY <1>2
<1> HIDE DEF N
<1>7. /\ mdd' = N /\ step' \in Filtering
      /\ step' \in {"down", "up", "split"} => at' \in 2..Len(N.levels)
  <2>1. CASE at = Len(mdd.levels)
    <3>1. /\ mdd' = N /\ at' = 2 /\ step' \in {"filtered", "root", "down"}
          /\ step' = "down" => at' \in 2..Len(N.levels)
      BY <1>5, <1>6, <2>1, FilterBegins
    <3> QED BY <3>1 DEF Filtering
  <2>2. CASE at # Len(mdd.levels)
    <3>1. mdd' = N /\ at' = at + 1 /\ step' = step
      BY <1>6, <2>2
    <3>2. Len(mdd.levels) \in Nat
      BY <1>4, DiagramFacts
    <3>3. at + 1 \in 2..Len(mdd.levels)
      BY <1>4, <2>2, <3>2
    <3> QED BY <1>1, <1>5, <3>1, <3>3 DEF Filtering
  <2> QED BY <2>1, <2>2
<1>8. SharedPart'
  BY <1>1, <1>3, ChildShared
<1>9. step \in Filtering /\ upper' \in 0..Sigma
  BY <1>1, <1>4 DEF Filtering
<1> QED BY <1>1, <1>3, <1>5, <1>7, <1>8, <1>9, FilterMoves

LEMMA BottomBoundType ==
    ASSUME strings \in Inputs, lower \in 0..Sigma, NEW u \in 0..Sigma, NEW M, IsDiagram(M), NEW n \in NodesOf(M)
    PROVE  BottomBound(u, M, n) \in 0..Sigma
<1> DEFINE a == lower
           b == Min({u, DepthOf(n)})
           c == M.facts[n].ub
<1>1. DepthOf(n) \in 0..Sigma /\ c \in 0..Sigma
  BY DiagramFacts DEF IsDiagram, Known
<1>2. b \in 0..Sigma
  BY <1>1, MaxInRange
<1>3. BottomBound(u, M, n) = Max({a, b, c})
  BY DEF BottomBound
<1>4. a \in Int /\ b \in Int /\ c \in Int /\ a \in 0..Sigma
  BY <1>1, <1>2, CharactersFinite
<1> HIDE DEF a, b, c
<1>5. \E x \in {a, b, c} : \A y \in {a, b, c} : y <= x
  BY <1>4
<1>6. Max({a, b, c}) \in {a, b, c}
  BY <1>5 DEF Max
<1> QED BY <1>1, <1>2, <1>3, <1>4, <1>6

LEMMA ReportRefinedKeeps ==
    ASSUME MddInv, ReportRefined
    PROVE  MddInv'
<1>1. /\ step = "filtered" /\ task = "refine" /\ step' = "next" /\ mdd' = NoMdd /\ work' = mdd
      /\ UNCHANGED <<fixedVars, upper, task, selection, trying, parentVars>>
      /\ strings' = strings /\ parent' = parent /\ selection' = selection /\ trying' = trying
  BY DEF ReportRefined, fixedVars, parentVars
<1>2. PICK n \in mdd.levels[Len(mdd.levels)] :
         shared' = [shared EXCEPT !.upper = BottomBound(@, mdd, n), !.flat = StillInFlat(@, mdd)]
  BY DEF ReportRefined
<1>3. task \in ChildTasks /\ task' \in ChildTasks
  BY <1>1 DEF ChildTasks
<1>4. /\ strings \in Inputs /\ upper \in 0..Sigma /\ lower \in 0..Sigma /\ trying \subseteq Characters
      /\ IsDiagram(parent) /\ IsDiagram(mdd) /\ Within(mdd, parent)
      /\ IsDiagram(selection) /\ Within(selection, parent)
  BY <1>1, <1>3, ChildParts DEF Filtering
<1>5. SharedPart'
  <2> DEFINE u == BottomBound(shared.upper, mdd, n)
             flat == StillInFlat(shared.flat, mdd)
             c == shared.complete
  <2>1. /\ shared = [upper |-> shared.upper, complete |-> shared.complete, flat |-> shared.flat,
                     size |-> shared.size, room |-> shared.room]
        /\ shared.upper \in 0..Sigma /\ IsFlat(shared.flat, parent.side)
        /\ SharedPart /\ Published /\ Published'
    BY <1>1, <1>3, ChildShared
  <2>2. n \in NodesOf(mdd)
    <3>1. Len(mdd.levels) \in 1..Len(mdd.levels)
      BY <1>4, DiagramFacts
    <3> QED BY <1>4, <3>1, DiagramFacts
  <2>3. u \in 0..Sigma
    BY <1>4, <2>1, <2>2, BottomBoundType
  <2>4. IsFlat(flat, parent.side)
    <3>1. mdd.side = parent.side
      BY <1>4 DEF Within
    <3> QED BY <1>4, <2>1, <3>1, LaidFacts
  <2>5. shared' = [shared EXCEPT !.upper = u, !.complete = c, !.flat = flat]
    <3> HIDE DEF u, flat, c
    <3>1. shared' = [shared EXCEPT !.upper = u, !.flat = flat]
      BY <1>2, <2>1 DEF u, flat
    <3> QED BY <2>1, <3>1 DEF c
  <2> HIDE DEF u, flat, c
  <2> QED BY <1>1, <2>1, <2>3, <2>4, <2>5, SharedPartKept
<1>6. step' \in Selecting /\ step' # "layout" /\ step # "graph" /\ step # "solver"
  BY <1>1 DEF Selecting
<1>7. upper' \in 0..Sigma /\ trying' \subseteq Characters
  BY <1>1, <1>4
<1> QED BY <1>1, <1>3, <1>4, <1>5, <1>6, <1>7, ChildMoves

LEMMA NextCharacterKeeps ==
    ASSUME MddInv, NextCharacter
    PROVE  MddInv'
<1>1. /\ step = "next" /\ step' = "select"
      /\ UNCHANGED <<fixedVars, upper, task, filterVars, work, parentVars, shared>>
      /\ strings' = strings /\ parent' = parent /\ work' = work /\ mdd' = mdd
  BY DEF NextCharacter, fixedVars, parentVars, filterVars
<1>2. task \in ChildTasks /\ task' \in ChildTasks
  BY <1>1 DEF MddInv, StepsFit, Selecting, ChildTasks
<1>3. /\ strings \in Inputs /\ upper \in 0..Sigma /\ IsDiagram(parent)
      /\ IsDiagram(work) /\ Within(work, parent) /\ IsDiagram(selection) /\ Within(selection, parent)
  BY <1>1, <1>2, ChildParts DEF Selecting
<1>4. mdd' = NoMdd
  BY <1>1 DEF MddInv, MddPart, Filtering
<1>5. SharedPart' /\ IsFlat(shared.flat, parent.side)
  BY <1>1, <1>2, ChildShared
<1> DEFINE N == PrunedByFlat(selection, shared.flat)
<1>6. IsDiagram(N) /\ Within(N, parent)
  BY <1>3, <1>5, PrunedWithin
<1>7. /\ selection' = N \/ selection' = selection
      /\ trying' \subseteq Characters
  <2>1. CASE IsPowerOfTwo(Cardinality(refined))
    <3>1. selection' = N
      BY <2>1 DEF NextCharacter
    <3>2. PICK S \in SUBSET (Characters \ refined) : trying' = S \cap Repeated(selection')
      BY <2>1 DEF NextCharacter
    <3> HIDE DEF N
    <3> QED BY <3>1, <3>2
  <2>2. CASE ~IsPowerOfTwo(Cardinality(refined))
    BY <2>2 DEF NextCharacter
  <2> QED BY <2>1, <2>2
<1> HIDE DEF N
<1>8. PICK S : selection' = S /\ IsDiagram(S) /\ Within(S, parent)
  BY <1>3, <1>6, <1>7
<1>9. step' \in Selecting /\ step' # "layout" /\ step # "graph" /\ step # "solver" /\ upper' \in 0..Sigma
  BY <1>1, <1>3 DEF Selecting
<1> QED BY <1>1, <1>2, <1>3, <1>4, <1>5, <1>7, <1>8, <1>9, ChildMoves

LEMMA MarkCompleteKeeps ==
    ASSUME MddInv, MarkComplete
    PROVE  MddInv'
<1>1. /\ step = "next" /\ step' = "complete" /\ shared' = [shared EXCEPT !.complete = TRUE]
      /\ UNCHANGED <<fixedVars, upper, task, filterVars, childVars, parentVars>>
      /\ strings' = strings /\ parent' = parent /\ work' = work /\ mdd' = mdd
      /\ selection' = selection /\ trying' = trying
  BY DEF MarkComplete, fixedVars, parentVars, filterVars, childVars
<1>2. task \in ChildTasks /\ task' \in ChildTasks
  BY <1>1 DEF MddInv, StepsFit, Selecting, ChildTasks
<1>3. /\ upper \in 0..Sigma /\ trying \subseteq Characters
      /\ IsDiagram(work) /\ Within(work, parent) /\ IsDiagram(selection) /\ Within(selection, parent)
  BY <1>1, <1>2, ChildParts DEF Selecting
<1>4. mdd' = NoMdd
  BY <1>1 DEF MddInv, MddPart, Filtering
<1>5. SharedPart'
  BY <1>1, <1>2, CompleteShared
<1>6. step' \in Selecting /\ step' # "layout" /\ step # "graph" /\ step # "solver" /\ upper' \in 0..Sigma
  BY <1>1, <1>3 DEF Selecting
<1> QED BY <1>1, <1>2, <1>3, <1>4, <1>5, <1>6, ChildMoves

LEMMA KeepOnlyOneKeeps ==
    ASSUME MddInv, KeepOnlyOne
    PROVE  MddInv'
<1>1. /\ step = "complete" /\ step' = "layout"
      /\ shared' = [shared EXCEPT !.flat = StillInFlat(@, work')]
      /\ UNCHANGED <<fixedVars, upper, task, filterVars, selection, trying, parentVars>>
      /\ strings' = strings /\ parent' = parent /\ mdd' = mdd
      /\ selection' = selection /\ trying' = trying
  BY DEF KeepOnlyOne, fixedVars, parentVars, filterVars
<1>2. PICK q \in GreedyPaths(work) :
         work' = Detached(work, DOMAIN work.facts \ {q[i] : i \in DOMAIN q}, {})
  BY DEF KeepOnlyOne
<1>3. task \in ChildTasks /\ task' \in ChildTasks
  BY <1>1 DEF MddInv, StepsFit, Selecting, ChildTasks
<1>4. /\ strings \in Inputs /\ upper \in 0..Sigma /\ trying \subseteq Characters /\ IsDiagram(parent)
      /\ IsDiagram(work) /\ Within(work, parent) /\ IsDiagram(selection) /\ Within(selection, parent)
  BY <1>1, <1>3, ChildParts DEF Selecting
<1> DEFINE W == Detached(work, DOMAIN work.facts \ {q[i] : i \in DOMAIN q}, {})
<1>5. IsDiagram(W) /\ Smaller(W, work) /\ Thin(W) /\ work' = W
  BY <1>2, <1>4, ThinDiagram
<1> HIDE DEF W
<1>6. Within(W, parent)
  BY <1>4, <1>5, SmallerWithin
<1>7. mdd' = NoMdd
  BY <1>1 DEF MddInv, MddPart, Filtering
<1>8. SharedPart'
  <2> DEFINE u == shared.upper
             flat == StillInFlat(shared.flat, W)
             c == shared.complete
  <2>1. /\ shared = [upper |-> shared.upper, complete |-> shared.complete, flat |-> shared.flat,
                     size |-> shared.size, room |-> shared.room]
        /\ u \in 0..Sigma /\ IsFlat(shared.flat, parent.side)
        /\ SharedPart /\ Published /\ Published'
    BY <1>1, <1>3, ChildShared
  <2>2. IsFlat(flat, parent.side)
    <3>1. W.side = parent.side
      BY <1>6 DEF Within
    <3> QED BY <1>4, <1>5, <2>1, <3>1, LaidFacts
  <2>3. shared' = [shared EXCEPT !.upper = u, !.complete = c, !.flat = flat]
    <3> HIDE DEF flat
    <3>1. shared' = [shared EXCEPT !.flat = flat]
      BY <1>1, <1>5, <2>1 DEF flat
    <3> QED BY <2>1, <3>1
  <2> HIDE DEF u, flat, c
  <2> QED BY <1>1, <2>1, <2>2, <2>3, SharedPartKept
<1>9. step' \in Selecting /\ step # "graph" /\ step # "solver" /\ upper' \in 0..Sigma
  BY <1>1, <1>4 DEF Selecting
<1> QED BY <1>1, <1>3, <1>4, <1>5, <1>6, <1>7, <1>8, <1>9, ChildMoves

LEMMA LayOutKeeps ==
    ASSUME MddInv, LayOut
    PROVE  MddInv'
<1>1. /\ step = "layout" /\ ChildEnds /\ UNCHANGED <<fixedVars, task, parentVars>>
      /\ shared' = [shared EXCEPT !.flat = Laid(work), !.size = SizeOf(work)]
      /\ strings' = strings /\ parent' = parent
  BY DEF LayOut, fixedVars, parentVars
<1>2. task \in ChildTasks /\ task' \in ChildTasks
  BY <1>1 DEF MddInv, StepsFit, Selecting, ChildTasks
<1>3. /\ strings \in Inputs /\ IsDiagram(parent) /\ Plain(parent)
      /\ IsDiagram(work) /\ Within(work, parent) /\ Thin(work)
  <2>1. Thin(work)
    BY <1>1 DEF MddInv, WorkPart
  <2> QED BY <1>1, <1>2, <2>1, ChildParts DEF Selecting
<1>4. SharedPart /\ Published /\ Published'
  BY <1>1, <1>2, ChildShared
<1>5. SharedPart'
  BY <1>1, <1>3, <1>4, LaidOutPart
<1> QED BY <1>1, <1>2, <1>5, ChildEndsKeeps

LEMMA GraphStepKeeps ==
    ASSUME MddInv, GraphStep
    PROVE  MddInv'
<1>1. step = "graph" /\ Next /\ UNCHANGED mddVars
  BY DEF GraphStep
<1>2. /\ step' = step /\ task' = task /\ mdd' = mdd /\ work' = work /\ selection' = selection
      /\ trying' = trying /\ parent' = parent /\ parentUpper' = parentUpper /\ shared' = shared
  BY <1>1 DEF mddVars, filterVars, childVars, parentVars
<1>3. /\ StepsFit /\ GraphPart /\ MddPart /\ ParentPart /\ WorkPart /\ SelectionPart /\ SharedPart
      /\ task = "forward" /\ IInv /\ BoundedWhenDone
  BY <1>1 DEF MddInv, StepsFit, GraphPart
<1>4. IInv' /\ BoundedWhenDone'
  BY <1>1, <1>3, EveryStep, GraphStaysBounded
<1>5. GraphPart'
  <2>1. opt' = opt
    BY <1>1 DEF Next, HeuristicImproves, HeuristicStops, StartRelaxation, RelaxCharacter, SkipCharacter,
                EndRelaxationRound, RelaxSelected, EndRelaxation, CalculateSimpleUpperBounds,
                DeactivateMatches, ReduceGraph
  <2>2. opt \in 0..Sigma /\ Sigma \in Nat
    BY <1>3, LongestSolution, CharactersFinite DEF IInv, GraphOK, ControlOK
  <2>3. strings' \in Inputs /\ lower' \in 0..opt /\ upper' \in 0..Sigma
    BY <1>4, <2>1 DEF IInv, GraphOK, ControlOK
  <2>4. lower' \in 0..Sigma
    BY <2>2, <2>3
  <2> QED BY <1>1, <1>2, <1>4, <2>3, <2>4 DEF GraphPart
<1>6. StepsFit'
  BY <1>2, <1>3 DEF StepsFit
<1>7. MddPart' /\ WorkPart' /\ SelectionPart'
  BY <1>1, <1>2, <1>3 DEF MddPart, WorkPart, SelectionPart, Filtering, Selecting
<1>8. ParentPart'
  BY <1>2, <1>3 DEF ParentPart
<1>9. SharedPart'
  BY <1>2, <1>3 DEF SharedPart, Published
<1> QED BY <1>5, <1>6, <1>7, <1>8, <1>9 DEF MddInv

LEMMA MddStutter ==
    ASSUME MddInv, UNCHANGED <<vars, mddVars>>
    PROVE  MddInv'
<1>1. /\ step' = step /\ task' = task /\ mdd' = mdd /\ at' = at /\ work' = work /\ selection' = selection
      /\ trying' = trying /\ split' = split /\ parent' = parent /\ parentUpper' = parentUpper
      /\ shared' = shared /\ strings' = strings /\ lower' = lower /\ upper' = upper /\ pc' = pc
      /\ UNCHANGED graphVars /\ UNCHANGED vars
  BY DEF vars, mddVars, filterVars, childVars, parentVars
<1>2. /\ StepsFit /\ GraphPart /\ MddPart /\ ParentPart /\ WorkPart /\ SelectionPart /\ SharedPart
  BY DEF MddInv
<1>3. \A M : IsDiagram(M)' <=> IsDiagram(M)
  BY <1>1, DiagramsUnchanged
<1>4. GraphPart'
  <2>1. ASSUME IInv PROVE IInv'
    BY <1>1, <2>1, EveryStep
  <2>2. ASSUME BoundedWhenDone PROVE BoundedWhenDone'
    BY <1>1, <2>2 DEF BoundedWhenDone, Bounded, graphVars
  <2>3. ASSUME GraphIsFixed PROVE GraphIsFixed'
    BY <1>1, <2>3, GraphStaysFixed
  <2> QED BY <1>1, <1>2, <2>1, <2>2, <2>3 DEF GraphPart
<1>5. StepsFit'
  BY <1>1, <1>2 DEF StepsFit
<1>6. MddPart'
  BY <1>1, <1>2, <1>3 DEF MddPart
<1>7. WorkPart' /\ SelectionPart'
  BY <1>1, <1>2, <1>3 DEF WorkPart, SelectionPart
<1>8. ParentPart'
  BY <1>1, <1>2, <1>3 DEF ParentPart
<1>9. SharedPart'
  <2>1. Published' <=> Published
    BY <1>1 DEF Published
  <2> QED BY <1>1, <1>2, <2>1, SharedPartSame
<1> QED BY <1>4, <1>5, <1>6, <1>7, <1>8, <1>9 DEF MddInv

LEMMA MddInitially == MddInit => MddInv
<1> SUFFICES ASSUME MddInit PROVE MddInv
  OBVIOUS
<1>1. /\ Init /\ step = "graph" /\ task = "forward" /\ mdd = NoMdd /\ parent = NoMdd
      /\ parentUpper = 0 /\ work = NoMdd /\ selection = NoMdd /\ trying = {} /\ shared = NotShared
  BY DEF MddInit
<1>2. IInv
  BY <1>1, Initially
<1>3. Sigma \in Nat
  BY CharactersFinite
<1>4. GraphPart
  <2>1. strings \in Inputs /\ lower = 0 /\ upper = Sigma /\ pc = "heuristic"
    BY <1>1 DEF Init
  <2>2. BoundedWhenDone
    BY <2>1 DEF BoundedWhenDone
  <2>3. lower \in 0..Sigma /\ upper \in 0..Sigma
    BY <1>3, <2>1
  <2> QED BY <1>1, <1>2, <2>1, <2>2, <2>3 DEF GraphPart
<1>5. StepsFit
  BY <1>1 DEF StepsFit, Filtering, Selecting
<1>6. MddPart /\ WorkPart /\ SelectionPart
  BY <1>1 DEF MddPart, WorkPart, SelectionPart, Filtering, Selecting
<1>7. ParentPart
  BY <1>1, <1>3 DEF ParentPart
<1>8. SharedPart
  BY <1>1 DEF SharedPart, Published
<1> QED BY <1>4, <1>5, <1>6, <1>7, <1>8 DEF MddInv

LEMMA MddStep == MddInv /\ [MddNext]_<<vars, mddVars>> => MddInv'
<1> SUFFICES ASSUME MddInv, [MddNext]_<<vars, mddVars>> PROVE MddInv'
  OBVIOUS
<1>1. CASE GraphStep \/ FilterDown \/ FilterUp \/ FilterRoot
  BY <1>1, GraphStepKeeps, FilterDownKeeps, FilterUpKeeps, FilterRootKeeps
<1>2. CASE StartForward \/ StartBackward \/ ChooseSide
  BY <1>2, StartForwardKeeps, StartBackwardKeeps, ChooseSideKeeps
<1>3. CASE Fork \/ ParentResumes \/ ParentLaysOut \/ EndReduction \/ Kill
  BY <1>3, ForkKeeps, ParentResumesKeeps, ParentLaysOutKeeps, EndReductionKeeps, KillKeeps
<1>4. CASE CopyIsFiltered \/ TryCharacter \/ TrialIsOver \/ RefineCharacter \/ SplitNextLevel
  BY <1>4, CopyIsFilteredKeeps, TryCharacterKeeps, TrialIsOverKeeps, RefineCharacterKeeps,
     SplitNextLevelKeeps
<1>5. CASE ReportRefined \/ NextCharacter \/ MarkComplete \/ KeepOnlyOne \/ LayOut
  BY <1>5, ReportRefinedKeeps, NextCharacterKeeps, MarkCompleteKeeps, KeepOnlyOneKeeps, LayOutKeeps
<1>6. CASE UNCHANGED <<vars, mddVars>>
  BY <1>6, MddStutter
<1> QED BY <1>1, <1>2, <1>3, <1>4, <1>5, <1>6 DEF MddNext, ChildNext

-----------------------------------------------------------------------------
(* MddInv is invariant: whatever is filtered, split, killed and laid out,  *)
(* MDDs stay what initial_mdd.cpp has built, and what a child works on     *)
(* lies, but for the splits, within its parent's MDD.                      *)
THEOREM MddInvariance == MddSpec => []MddInv
<1>1. MddInit => MddInv
  BY MddInitially
<1>2. MddInv /\ [MddNext]_<<vars, mddVars>> => MddInv'
  BY MddStep
<1> QED BY <1>1, <1>2, PTL DEF MddSpec

(* The arcs of an MDD lead to nodes of it on the next depth, and nodes     *)
(* know existing characters and bounds in range (mdd_node.hpp).            *)
THEOREM MddTypeCorrect == MddSpec => []MddTypeOK
<1>1. MddInv => MddTypeOK
  <2> SUFFICES ASSUME MddInv PROVE MddTypeOK
    OBVIOUS
  <2>1. /\ strings \in Inputs /\ upper \in 0..Sigma /\ parentUpper \in 0..Sigma
        /\ SharedPart /\ Sigma \in Nat
    BY CharactersFinite DEF MddInv, GraphPart, ParentPart
  <2>2. shared.upper \in 0..Sigma
    BY <2>1 DEF SharedPart, NotShared
  <2>3. \A M \in Diagrams : IsDiagram(M)
    BY DEF MddInv, MddPart, WorkPart, SelectionPart, ParentPart, Diagrams
  <2>4. ASSUME NEW M \in Diagrams
        PROVE  /\ DOMAIN M.facts = UNION {M.levels[i] : i \in DOMAIN M.levels}
               /\ \A a \in M.arcs : {a[1], a[2]} \subseteq DOMAIN M.facts /\ DepthOf(a[2]) = DepthOf(a[1]) + 1
               /\ \A n \in DOMAIN M.facts : /\ M.facts[n].ub \in 0..Sigma
                                            /\ M.facts[n].toRoot \cup M.facts[n].sink \subseteq Characters
    <3>1. IsDiagram(M)
      BY <2>3
    <3>2. DOMAIN M.facts = NodesOf(M) /\ DOMAIN M.levels = 1..Len(M.levels)
      BY <2>1, <3>1, DiagramFacts
    <3>3. \A a \in M.arcs : {a[1], a[2]} \subseteq NodesOf(M) /\ DepthOf(a[2]) = DepthOf(a[1]) + 1
      BY <3>1 DEF IsDiagram
    <3>4. \A n \in NodesOf(M) : /\ M.facts[n].ub \in 0..Sigma
                                /\ M.facts[n].toRoot \cup M.facts[n].sink \subseteq Characters
      BY <3>1 DEF IsDiagram, Known
    <3> QED BY <3>2, <3>3, <3>4 DEF NodesOf
  <2> QED BY <2>1, <2>2, <2>4 DEF MddTypeOK
<1> QED BY <1>1, MddInvariance, PTL

(* What is laid out fits into the memory that was sized for the first MDD, *)
(* also after characters have been split (shared_object.cpp): a child lays *)
(* out one node on every depth, and these come from different nodes of its *)
(* parent's MDD.                                                           *)
THEOREM LayoutAlwaysFits == MddSpec => []LayoutFits
<1>1. MddInv => LayoutFits
  BY DEF MddInv, SharedPart, NotShared, LayoutFits
<1> QED BY <1>1, MddInvariance, PTL

(* A path of k arcs from the root on which no character is repeated.       *)
IsFree(M, q, k) ==
    /\ q \in [1..(k + 1) -> NodesOf(M)]
    /\ q[1] = RootNode(M.side)
    /\ \A i \in 1..k : <<q[i], q[i + 1]>> \in M.arcs
    /\ \A i, j \in 2..(k + 1) : Letter(q[i]) = Letter(q[j]) => i = j

(* The paths longer by one.                                                *)
Longer(M, X, k) ==
    UNION {{Append(q, s) : s \in {t \in Succs(M, q[k]) : \A i \in 2..k : Letter(q[i]) # Letter(t)}} : q \in X}

LEMMA FreeGoesOn ==
    ASSUME strings \in Inputs, NEW M, IsDiagram(M), NEW k \in Nat \ {0}, NEW X,
           \A q : q \in X <=> IsFree(M, q, k - 1)
    PROVE  \A q : q \in Longer(M, X, k) <=> IsFree(M, q, k)
<1>1. ASSUME NEW q, q \in Longer(M, X, k)
      PROVE  IsFree(M, q, k)
  <2>1. PICK p \in X : \E s \in Succs(M, p[k]) :
           (\A i \in 2..k : Letter(p[i]) # Letter(s)) /\ q = Append(p, s)
    BY <1>1 DEF Longer
  <2>0. PICK s \in Succs(M, p[k]) : (\A i \in 2..k : Letter(p[i]) # Letter(s)) /\ q = Append(p, s)
    BY <2>1
  <2>2. IsFree(M, p, k - 1)
    BY <2>1
  <2>3. /\ p \in [1..k -> NodesOf(M)] /\ p[1] = RootNode(M.side)
        /\ \A i \in 1..(k - 1) : <<p[i], p[i + 1]>> \in M.arcs
        /\ \A i, j \in 2..k : Letter(p[i]) = Letter(p[j]) => i = j
    BY <2>2 DEF IsFree
  <2>4. p[k] \in NodesOf(M)
    BY <2>3
  <2>5. s \in NodesOf(M) /\ <<p[k], s>> \in M.arcs
    BY <2>0, <2>4, DiagramFacts
  <2>6. p \in Seq(NodesOf(M)) /\ Len(p) = k
    BY <2>3
  <2>7. /\ q \in [1..(k + 1) -> NodesOf(M)]
        /\ q[k + 1] = s /\ \A i \in 1..k : q[i] = p[i]
    <3>1. /\ q \in Seq(NodesOf(M)) /\ Len(q) = k + 1
          /\ \A i \in 1..(k + 1) : q[i] = IF i = k + 1 THEN s ELSE p[i]
      BY <2>0, <2>5, <2>6
    <3>2. q \in [1..(k + 1) -> NodesOf(M)]
      BY <3>1
    <3> QED BY <3>1, <3>2
  <2> HIDE DEF Longer
  <2>8. \A i \in 1..k : <<q[i], q[i + 1]>> \in M.arcs
    <3> TAKE i \in 1..k
    <3>1. CASE i = k
      BY <3>1, <2>5, <2>7
    <3>2. CASE i # k
      <4>1. i \in 1..(k - 1) /\ i + 1 \in 1..k
        BY <3>2
      <4> QED BY <4>1, <2>3, <2>7
    <3> QED BY <3>1, <3>2
  <2>9. \A i, j \in 2..(k + 1) : Letter(q[i]) = Letter(q[j]) => i = j
    <3> SUFFICES ASSUME NEW i \in 2..(k + 1), NEW j \in 2..(k + 1), Letter(q[i]) = Letter(q[j]), i # j
                 PROVE  FALSE
      OBVIOUS
    <3>1. CASE i = k + 1
      <4>1. j \in 2..k
        BY <3>1
      <4> QED BY <4>1, <3>1, <2>0, <2>7
    <3>2. CASE j = k + 1
      <4>1. i \in 2..k
        BY <3>2
      <4> QED BY <4>1, <3>2, <2>0, <2>7
    <3>3. CASE i # k + 1 /\ j # k + 1
      <4>1. i \in 2..k /\ j \in 2..k
        BY <3>3
      <4> QED BY <4>1, <2>3, <2>7
    <3> QED BY <3>1, <3>2, <3>3
  <2> QED BY <2>3, <2>7, <2>8, <2>9 DEF IsFree
<1>2. ASSUME NEW q, IsFree(M, q, k)
      PROVE  q \in Longer(M, X, k)
  <2> DEFINE p == [i \in 1..k |-> q[i]]
             s == q[k + 1]
  <2>1. /\ q \in [1..(k + 1) -> NodesOf(M)] /\ q[1] = RootNode(M.side)
        /\ \A i \in 1..k : <<q[i], q[i + 1]>> \in M.arcs
        /\ \A i, j \in 2..(k + 1) : Letter(q[i]) = Letter(q[j]) => i = j
    BY <1>2 DEF IsFree
  <2>2. p \in [1..k -> NodesOf(M)] /\ \A i \in 1..k : p[i] = q[i]
    BY <2>1
  <2>3. s \in NodesOf(M) /\ <<p[k], s>> \in M.arcs
    BY <2>1, <2>2
  <2> HIDE DEF p
  <2>4. s \in Succs(M, p[k])
    BY <2>3 DEF Succs
  <2>5. IsFree(M, p, k - 1)
    <3>1. \A i \in 1..(k - 1) : <<p[i], p[i + 1]>> \in M.arcs
      BY <2>1, <2>2
    <3>2. \A i, j \in 2..k : Letter(p[i]) = Letter(p[j]) => i = j
      BY <2>1, <2>2
    <3>3. p[1] = RootNode(M.side) /\ (k - 1) + 1 = k
      BY <2>1, <2>2
    <3> QED BY <2>2, <3>1, <3>2, <3>3 DEF IsFree
  <2>6. \A i \in 2..k : Letter(p[i]) # Letter(s)
    BY <2>1, <2>2
  <2>7. q = Append(p, s)
    <3>1. p \in Seq(NodesOf(M)) /\ Len(p) = k
      BY <2>2
    <3> DEFINE r == Append(p, s)
    <3>2. /\ r \in Seq(NodesOf(M)) /\ Len(r) = k + 1
          /\ \A i \in 1..(k + 1) : r[i] = IF i = k + 1 THEN s ELSE p[i]
      BY <3>1, <2>3
    <3> HIDE DEF r
    <3>3. r \in [1..(k + 1) -> NodesOf(M)]
      BY <3>2
    <3>4. \A i \in 1..(k + 1) : r[i] = q[i]
      BY <3>2, <2>2
    <3>5. q = r
      BY <2>1, <3>3, <3>4
    <3> QED BY <3>5 DEF r
  <2>8. p \in X
    BY <2>5
  <2> QED BY <2>4, <2>6, <2>7, <2>8 DEF Longer
<1> QED BY <1>1, <1>2

LEMMA FreePathsUnfold ==
    ASSUME strings \in Inputs, NEW M, IsDiagram(M)
    PROVE  \A k \in 0..Sigma : FreePaths(M)[k] = IF k = 0 THEN {<<RootNode(M.side)>>}
                                                 ELSE Longer(M, FreePaths(M)[k - 1], k)
<1> DEFINE K == 0..Sigma
           W == Seq(NodesOf(M))
           V == SUBSET W
           Grown(X, k) == UNION {{Append(q, s) : s \in {t \in Succs(M, q[k]) :
                                               \A i \in 2..k : Letter(q[i]) # Letter(t)}} : q \in X}
           Body(g) == [k \in 0..Sigma |-> IF k = 0 THEN {<<RootNode(M.side)>>} ELSE Grown(g[k - 1], k)]
           F == [g \in [K -> V] |-> Body(g)]
           rank == [k \in K |-> k]
           paths == CHOOSE g : g = Body(g)
<1>1. FreePaths(M) = paths
  BY DEF FreePaths
<1>2. Sigma \in Nat
  BY CharactersFinite
<1>3. /\ \A X \in V, k \in K : Grown(X, k) \in V
      /\ {<<RootNode(M.side)>>} \in V
  <2>1. ASSUME NEW q \in W, NEW k \in K
        PROVE  {Append(q, s) : s \in {t \in Succs(M, q[k]) : \A i \in 2..k : Letter(q[i]) # Letter(t)}} \subseteq W
    <3>1. Succs(M, q[k]) \subseteq NodesOf(M)
      BY DEF Succs, IsDiagram
    <3> QED BY <3>1
  <2>2. <<RootNode(M.side)>> \in W
    BY DiagramFacts
  <2>3. ASSUME NEW X \in V, NEW k \in K PROVE Grown(X, k) \subseteq W
    <3>1. \A q \in X : q \in W
      OBVIOUS
    <3> HIDE DEF W, K
    <3> QED BY <2>1, <3>1
  <2> QED BY <2>2, <2>3
<1>4. \A g \in [K -> V] : Body(g) \in [K -> V]
  <2> SUFFICES ASSUME NEW g \in [K -> V], NEW k \in K
               PROVE  (IF k = 0 THEN {<<RootNode(M.side)>>} ELSE Grown(g[k - 1], k)) \in V
    OBVIOUS
  <2>1. k # 0 => g[k - 1] \in V
    BY <1>2
  <2> HIDE DEF V, Grown
  <2> QED BY <1>3, <2>1
<1>5. Descends(F, K, V, rank, Sigma) /\ V # {}
  <2>1. rank \in [K -> 0..Sigma]
    OBVIOUS
  <2>2. F \in [[K -> V] -> [K -> V]]
    <3> HIDE DEF Body, K, V
    <3> QED BY <1>4
  <2>3. \A g, h \in [K -> V] : \A k \in K :
           (\A t \in K : rank[t] < rank[k] => g[t] = h[t]) => F[g][k] = F[h][k]
    <3> SUFFICES ASSUME NEW g \in [K -> V], NEW h \in [K -> V], NEW k \in K,
                        \A t \in K : rank[t] < rank[k] => g[t] = h[t]
                 PROVE  F[g][k] = F[h][k]
      <4> HIDE DEF F, K, V, rank
      <4> QED OBVIOUS
    <3>1. k # 0 => g[k - 1] = h[k - 1]
      BY <1>2
    <3> HIDE DEF Grown, V
    <3> QED BY <3>1
  <2>4. {} \in V
    OBVIOUS
  <2> HIDE DEF K, V, F, rank
  <2> QED BY <1>2, <2>1, <2>2, <2>3, <2>4 DEF Descends
<1>6. PICK g \in [K -> V] : F[g] = g
  <2> HIDE DEF K, V, F, rank
  <2> QED BY <1>5, RecursionHasSolution
<1>7. paths = Body(paths)
  <2>1. g = Body(g)
    BY <1>6
  <2> HIDE DEF Body
  <2> QED BY <2>1
<1> HIDE DEF paths
<1>8. \A X, k : Grown(X, k) = Longer(M, X, k)
  BY DEF Longer
<1> HIDE DEF Grown
<1> QED BY <1>1, <1>7, <1>8

(* The paths of the model are the paths described above.                   *)
LEMMA FreePathsAre ==
    ASSUME strings \in Inputs, NEW M, IsDiagram(M), NEW k \in 0..Sigma
    PROVE  \A q : q \in FreePaths(M)[k] <=> IsFree(M, q, k)
<1> DEFINE T == {j \in 0..Sigma : ~(\A q : q \in FreePaths(M)[j] <=> IsFree(M, q, j))}
<1>1. Sigma \in Nat
  BY CharactersFinite
<1>2. T = {}
  <2> SUFFICES ASSUME T # {} PROVE FALSE
    OBVIOUS
  <2>1. T \subseteq Nat
    BY <1>1
  <2>2. PICK j \in T : \A l \in T : j <= l
    <3> HIDE DEF T
    <3> QED BY <2>1, LeastNumber
  <2>3. CASE j = 0
    <3>1. FreePaths(M)[0] = {<<RootNode(M.side)>>}
      <4>1. 0 \in 0..Sigma
        BY <1>1
      <4> QED BY <4>1, FreePathsUnfold
    <3>2. RootNode(M.side) \in NodesOf(M)
      BY DiagramFacts
    <3>3. \A q : q \in [1..(0 + 1) -> NodesOf(M)] /\ q[1] = RootNode(M.side) <=> q = <<RootNode(M.side)>>
      <4>1. ASSUME NEW q, q \in [1..(0 + 1) -> NodesOf(M)], q[1] = RootNode(M.side)
            PROVE  q = <<RootNode(M.side)>>
        <5>1. q \in [1..1 -> NodesOf(M)]
          BY <4>1
        <5> QED BY <4>1, <5>1
      <4>2. <<RootNode(M.side)>> \in [1..(0 + 1) -> NodesOf(M)]
        BY <3>2
      <4> QED BY <4>1, <4>2
    <3>4. \A q : IsFree(M, q, 0) <=> q \in [1..(0 + 1) -> NodesOf(M)] /\ q[1] = RootNode(M.side)
      BY DEF IsFree
    <3> QED BY <2>3, <3>1, <3>3, <3>4
  <2>4. CASE j # 0
    <3>1. j - 1 \in 0..Sigma /\ j - 1 \notin T /\ j \in Nat \ {0}
      BY <1>1, <2>1, <2>2, <2>4
    <3>2. \A q : q \in FreePaths(M)[j - 1] <=> IsFree(M, q, j - 1)
      BY <3>1
    <3>3. FreePaths(M)[j] = Longer(M, FreePaths(M)[j - 1], j)
      BY <2>4, FreePathsUnfold
    <3> HIDE DEF T
    <3>4. \A q : q \in Longer(M, FreePaths(M)[j - 1], j) <=> IsFree(M, q, j)
      BY <3>1, <3>2, FreeGoesOn
    <3> QED BY <2>2, <3>3, <3>4 DEF T
  <2> QED BY <2>3, <2>4
<1> QED BY <1>2

(* The characters of a path up to its i-th node, and those behind it.      *)
Part(q, a, b) == {Letter(q[j]) : j \in (a + 1)..b}
Passed(q, i) == Part(q, 1, i)
Coming(q, i, k) == Part(q, i, k + 1)

(* What a node is said to know is true of a path with the characters of P  *)
(* up to the node and those of C behind it, which are b; and of its place  *)
(* i on a path q of k arcs.                                                *)
Holds(f, P, C, b) ==
    /\ f.allRoot \subseteq P /\ P \subseteq f.toRoot
    /\ f.allSink \subseteq C /\ C \subseteq f.sink
    /\ f.ub >= b

Knows(f, q, i, k) == Holds(f, Passed(q, i), Coming(q, i, k), k + 1 - i)

Sound(M) ==
    \A k \in (lower + 1)..Sigma : \A q : IsFree(M, q, k) =>
       \A i \in 1..(k + 1) : Knows(M.facts[q[i]], q, i, k)

(* The characters of the part of a path behind its a-th node.              *)
LEMMA PartCount ==
    ASSUME strings \in Inputs, NEW M, IsDiagram(M), NEW k \in Nat, NEW q, IsFree(M, q, k),
           NEW a \in 1..(k + 1), NEW b \in a..(k + 1)
    PROVE  /\ Part(q, a, b) \subseteq Characters /\ IsFiniteSet(Part(q, a, b))
           /\ Cardinality(Part(q, a, b)) = b - a
<1> DEFINE X == {Letter(q[j]) : j \in (a + 1)..b}
           w == [j \in 1..(b - a) |-> Letter(q[a + j])]
<1>1. /\ q \in [1..(k + 1) -> NodesOf(M)] /\ q[1] = RootNode(M.side)
      /\ \A i \in 1..k : <<q[i], q[i + 1]>> \in M.arcs
      /\ \A i, j \in 2..(k + 1) : Letter(q[i]) = Letter(q[j]) => i = j
  BY DEF IsFree
<1>2. ASSUME NEW i \in 2..(k + 1) PROVE Letter(q[i]) \in Characters
  <2>1. i - 1 \in 1..k /\ (i - 1) + 1 = i
    OBVIOUS
  <2>2. q[i - 1] \in NodesOf(M) /\ q[i] \in NodesOf(M) /\ <<q[i - 1], q[i]>> \in M.arcs
    BY <1>1, <2>1
  <2>3. q[i] \in Succs(M, q[i - 1])
    BY <2>2 DEF Succs
  <2> QED BY <2>2, <2>3, DiagramFacts
<1>3. b - a \in Nat
  OBVIOUS
<1>4. \A j \in 1..(b - a) : a + j \in 2..(k + 1)
  OBVIOUS
<1>5. w \in Seq(Characters) /\ Len(w) = b - a
  BY <1>2, <1>3, <1>4
<1>6. Distinct(w)
  <2> SUFFICES ASSUME NEW i \in 1..Len(w), NEW j \in 1..Len(w), w[i] = w[j]
               PROVE  i = j
    BY DEF Distinct
  <2>1. a + i \in 2..(k + 1) /\ a + j \in 2..(k + 1) /\ i \in 1..(b - a) /\ j \in 1..(b - a)
    BY <1>5
  <2>2. Letter(q[a + i]) = Letter(q[a + j])
    BY <2>1
  <2>3. a + i = a + j
    BY <1>1, <2>1, <2>2
  <2> QED BY <2>1, <2>3
<1>7. InWord(w) = X
  <2>1. \A j \in 1..(b - a) : w[j] = Letter(q[a + j]) /\ a + j \in (a + 1)..b
    OBVIOUS
  <2>2. \A j \in (a + 1)..b : j - a \in 1..(b - a) /\ a + (j - a) = j
    OBVIOUS
  <2>3. Len(w) = b - a
    BY <1>5
  <2> HIDE DEF w
  <2>4. InWord(w) \subseteq X
    BY <2>1, <2>3 DEF InWord
  <2>5. ASSUME NEW j \in (a + 1)..b PROVE Letter(q[j]) \in InWord(w)
    <3>1. w[j - a] = Letter(q[j])
      BY <2>1, <2>2
    <3> QED BY <2>2, <2>3, <3>1 DEF InWord
  <2> QED BY <2>4, <2>5
<1> HIDE DEF w
<1>8. /\ InWord(w) \subseteq Characters /\ IsFiniteSet(InWord(w))
      /\ Cardinality(InWord(w)) = Len(w)
  BY <1>5, <1>6, DistinctCount
<1> QED BY <1>5, <1>7, <1>8 DEF Part

(* The nodes of a path, and the characters before and behind them.         *)
LEMMA PathFacts ==
    ASSUME strings \in Inputs, NEW M, IsDiagram(M), NEW k \in Nat, NEW q, IsFree(M, q, k)
    PROVE  /\ \A i \in 1..(k + 1) : q[i] \in NodesOf(M) /\ DepthOf(q[i]) = i - 1
           /\ \A i \in 2..(k + 1) : /\ q[i] # RootNode(M.side) /\ MatchOf(q[i]) \in Inner
                                    /\ Letter(q[i]) \in Characters
           /\ \A i \in 1..k : /\ <<q[i], q[i + 1]>> \in M.arcs
                              /\ q[i + 1] \in Succs(M, q[i]) /\ q[i] \in Preds(M, q[i + 1])
                              /\ MatchOf(q[i + 1]) \in SuccessorMatches(M.side, MatchOf(q[i]))
           /\ q[1] = RootNode(M.side)
<1>1. /\ q \in [1..(k + 1) -> NodesOf(M)] /\ q[1] = RootNode(M.side)
      /\ \A i \in 1..k : <<q[i], q[i + 1]>> \in M.arcs
  BY DEF IsFree
<1>2. ASSUME NEW i \in 1..k
      PROVE  /\ q[i + 1] \in Succs(M, q[i]) /\ q[i] \in Preds(M, q[i + 1])
             /\ MatchOf(q[i + 1]) \in SuccessorMatches(M.side, MatchOf(q[i]))
             /\ DepthOf(q[i + 1]) = DepthOf(q[i]) + 1
  <2>1. <<q[i], q[i + 1]>> \in M.arcs
    BY <1>1
  <2>2. q[i + 1] \in Succs(M, q[i]) /\ q[i] \in Preds(M, q[i + 1])
    BY <2>1 DEF Succs, Preds
  <2>3. \A a \in M.arcs : /\ DepthOf(a[2]) = DepthOf(a[1]) + 1
                          /\ MatchOf(a[2]) \in SuccessorMatches(M.side, MatchOf(a[1]))
    BY DEF IsDiagram
  <2>4. <<q[i], q[i + 1]>>[1] = q[i] /\ <<q[i], q[i + 1]>>[2] = q[i + 1]
    OBVIOUS
  <2> QED BY <2>1, <2>2, <2>3, <2>4
<1>3. \A i \in 1..(k + 1) : q[i] \in NodesOf(M)
  BY <1>1
<1> DEFINE T == {i \in 1..(k + 1) : DepthOf(q[i]) # i - 1}
<1>4. T = {}
  <2> SUFFICES ASSUME T # {} PROVE FALSE
    OBVIOUS
  <2>1. PICK i \in T : \A j \in T : i <= j
    <3>1. T \subseteq Nat
      OBVIOUS
    <3> HIDE DEF T
    <3> QED BY <3>1, LeastNumber
  <2>2. i # 1
    BY <1>1 DEF DepthOf, RootNode
  <2>3. i - 1 \in 1..k /\ i - 1 \notin T /\ (i - 1) + 1 = i
    BY <2>1, <2>2
  <2>4. DepthOf(q[i - 1]) = (i - 1) - 1
    BY <2>3
  <2>5. DepthOf(q[i]) = ((i - 1) - 1) + 1
    BY <1>2, <2>3, <2>4
  <2> QED BY <2>1, <2>5
<1>5. \A i \in 1..(k + 1) : DepthOf(q[i]) = i - 1
  BY <1>4
<1>6. ASSUME NEW i \in 2..(k + 1)
      PROVE  q[i] # RootNode(M.side) /\ MatchOf(q[i]) \in Inner /\ Letter(q[i]) \in Characters
  <2>1. DepthOf(q[i]) # 0 /\ q[i] \in NodesOf(M)
    BY <1>3, <1>5
  <2>2. q[i] # RootNode(M.side)
    BY <2>1 DEF DepthOf, RootNode
  <2> QED BY <2>1, <2>2, DiagramFacts DEF IsDiagram
<1> QED BY <1>1, <1>2, <1>3, <1>5, <1>6

(* How many characters there are before and behind a node of a path.       *)
LEMMA LetterCounts ==
    ASSUME strings \in Inputs, NEW M, IsDiagram(M), NEW k \in Nat, NEW q, IsFree(M, q, k),
           NEW i \in 1..(k + 1)
    PROVE  /\ IsFiniteSet(Passed(q, i)) /\ Cardinality(Passed(q, i)) = i - 1
           /\ IsFiniteSet(Coming(q, i, k)) /\ Cardinality(Coming(q, i, k)) = k + 1 - i
           /\ Passed(q, i) \cap Coming(q, i, k) = {}
           /\ Passed(q, i) \subseteq Characters /\ Coming(q, i, k) \subseteq Characters
           /\ i = k + 1 => Coming(q, i, k) = {}
           /\ i = 1 => Passed(q, i) = {}
           /\ i > 1 => Letter(q[i]) \in Passed(q, i) /\ Letter(q[i]) \notin Coming(q, i, k)
<1>1. \A u, v \in 2..(k + 1) : Letter(q[u]) = Letter(q[v]) => u = v
  BY DEF IsFree
<1>0. 1 \in 1..(k + 1) /\ k + 1 \in 1..(k + 1) /\ i \in 1..(k + 1) /\ k + 1 \in i..(k + 1)
  OBVIOUS
<1>2. /\ Passed(q, i) \subseteq Characters /\ IsFiniteSet(Passed(q, i))
      /\ Cardinality(Passed(q, i)) = i - 1
  BY <1>0, PartCount DEF Passed
<1>3. /\ Coming(q, i, k) \subseteq Characters /\ IsFiniteSet(Coming(q, i, k))
      /\ Cardinality(Coming(q, i, k)) = k + 1 - i
  BY <1>0, PartCount DEF Coming
<1>4. Passed(q, i) \cap Coming(q, i, k) = {}
  BY <1>1 DEF Passed, Coming, Part
<1>7. i = k + 1 => Coming(q, i, k) = {}
  BY DEF Coming, Part
<1>8. i = 1 => Passed(q, i) = {}
  BY DEF Passed, Part
<1>9. i > 1 => Letter(q[i]) \in Passed(q, i) /\ Letter(q[i]) \notin Coming(q, i, k)
  BY <1>4 DEF Passed, Part
<1> QED BY <1>2, <1>3, <1>4, <1>7, <1>8, <1>9

(* Going one node further, from the i-th to the j-th.                      *)
LEMMA LetterSteps ==
    ASSUME strings \in Inputs, NEW M, NEW k \in Nat, NEW q, IsFree(M, q, k),
           NEW i \in 1..k, NEW j, j = i + 1
    PROVE  /\ \A c : c \in Coming(q, i, k) <=> c \in Coming(q, j, k) \/ c = Letter(q[j])
           /\ \A c : c \in Passed(q, j) <=> c \in Passed(q, i) \/ c = Letter(q[j])
           /\ Letter(q[j]) \notin Passed(q, i)
           /\ Letter(q[j]) \notin Coming(q, j, k)
<1>1. \A u, v \in 2..(k + 1) : Letter(q[u]) = Letter(q[v]) => u = v
  BY DEF IsFree
<1>2. /\ (i + 1)..(k + 1) = (j + 1)..(k + 1) \cup {j}
      /\ (1 + 1)..j = (1 + 1)..i \cup {j}
  OBVIOUS
<1>3. j \in 2..(k + 1) /\ j \notin 2..i /\ j \notin (j + 1)..(k + 1)
  OBVIOUS
<1>4. \A l \in 2..i : l \in 2..(k + 1)
  OBVIOUS
<1>5. \A l \in (j + 1)..(k + 1) : l \in 2..(k + 1)
  OBVIOUS
<1>6. \A c : c \in Coming(q, i, k) <=> c \in Coming(q, j, k) \/ c = Letter(q[j])
  BY <1>2 DEF Coming, Part
<1>7. \A c : c \in Passed(q, j) <=> c \in Passed(q, i) \/ c = Letter(q[j])
  BY <1>2 DEF Passed, Part
<1>8. Letter(q[j]) \notin Passed(q, i)
  BY <1>1, <1>3, <1>4 DEF Passed, Part
<1>9. Letter(q[j]) \notin Coming(q, j, k)
  BY <1>1, <1>3, <1>5 DEF Coming, Part
<1> QED BY <1>6, <1>7, <1>8, <1>9

(* What its relatives tell a node.                                         *)
SomePred(M, n) == UNION {M.facts[p].toRoot : p \in Preds(M, n)}
EveryPred(M, n) == Common({M.facts[p].allRoot : p \in Preds(M, n)})
SomeSucc(M, n) == UNION {M.facts[s].sink \cup {Letter(s)} : s \in Succs(M, n)}
EverySucc(M, n) ==
    Common({M.facts[s].allSink \cup (IF DepthOf(n) \in 1..lower THEN {Letter(s)} ELSE {}) : s \in Succs(M, n)})
Longest(M, n) == MaxOr(0, {M.facts[s].ub : s \in Succs(M, n)})


(* What an update changes, part by part.                                   *)
LEMMA FromPredsParts ==
    ASSUME strings \in Inputs, NEW M, IsDiagram(M), NEW n \in NodesOf(M)
    PROVE  /\ UpdatedFromPreds(M, n).toRoot = (M.facts[n].toRoot \cap SomePred(M, n)) \cup {Letter(n)}
           /\ Cardinality(UpdatedFromPreds(M, n).toRoot) = DepthOf(n)
                => UpdatedFromPreds(M, n).allRoot = UpdatedFromPreds(M, n).toRoot
           /\ Cardinality(UpdatedFromPreds(M, n).toRoot) # DepthOf(n)
                => UpdatedFromPreds(M, n).allRoot = EveryPred(M, n) \cup {Letter(n)}
           /\ UpdatedFromPreds(M, n).sink = M.facts[n].sink \ UpdatedFromPreds(M, n).allRoot
           /\ UpdatedFromPreds(M, n).needPred = FALSE
           /\ UpdatedFromPreds(M, n).allSink = M.facts[n].allSink
           /\ UpdatedFromPreds(M, n).ub = M.facts[n].ub
           /\ UpdatedFromPreds(M, n).needSucc = M.facts[n].needSucc
           /\ UpdatedFromPreds(M, n).active = M.facts[n].active
<1> DEFINE f == M.facts[n]
           toRoot == (f.toRoot \cap SomePred(M, n)) \cup {Letter(n)}
           allRoot == IF Cardinality(toRoot) = DepthOf(n) THEN toRoot
                      ELSE EveryPred(M, n) \cup {Letter(n)}
<1>1. f \in Known
  BY DiagramFacts DEF IsDiagram
<1>2. UpdatedFromPreds(M, n) = [f EXCEPT !.toRoot = toRoot, !.allRoot = allRoot,
                                         !.sink = @ \ allRoot, !.needPred = FALSE]
  BY DEF UpdatedFromPreds, SomePred, EveryPred
<1>3. /\ toRoot = (f.toRoot \cap SomePred(M, n)) \cup {Letter(n)}
      /\ allRoot = IF Cardinality(toRoot) = DepthOf(n) THEN toRoot
                   ELSE EveryPred(M, n) \cup {Letter(n)}
  OBVIOUS
<1> HIDE DEF toRoot, allRoot, f
<1>4. f = [toRoot |-> f.toRoot, allRoot |-> f.allRoot, sink |-> f.sink, allSink |-> f.allSink,
           ub |-> f.ub, needPred |-> f.needPred, needSucc |-> f.needSucc, active |-> f.active]
  BY <1>1 DEF Known
<1>5. UpdatedFromPreds(M, n) =
        [toRoot |-> toRoot, allRoot |-> allRoot, sink |-> f.sink \ allRoot, allSink |-> f.allSink,
         ub |-> f.ub, needPred |-> FALSE, needSucc |-> f.needSucc, active |-> f.active]
  BY <1>2, <1>4
<1> QED BY <1>3, <1>5 DEF f

(* That visit leaves what is known of the other direction as it is, and    *)
(* only takes characters from the ones below.                              *)
LEMMA FromPredsKeeps ==
    ASSUME strings \in Inputs, NEW M, IsDiagram(M), NEW n \in NodesOf(M)
    PROVE  /\ UpdatedFromPreds(M, n).sink \subseteq M.facts[n].sink
           /\ UpdatedFromPreds(M, n).allSink = M.facts[n].allSink
           /\ UpdatedFromPreds(M, n).ub = M.facts[n].ub
           /\ UpdatedFromPreds(M, n).needSucc = M.facts[n].needSucc
           /\ UpdatedFromPreds(M, n).active = M.facts[n].active
<1>1. UpdatedFromPreds(M, n).sink \subseteq M.facts[n].sink
  <2>1. UpdatedFromPreds(M, n).sink = M.facts[n].sink \ UpdatedFromPreds(M, n).allRoot
    BY FromPredsParts
  <2> QED BY <2>1
<1>2. UpdatedFromPreds(M, n).allSink = M.facts[n].allSink
  BY FromPredsParts
<1>3. UpdatedFromPreds(M, n).ub = M.facts[n].ub
  BY FromPredsParts
<1>4. UpdatedFromPreds(M, n).needSucc = M.facts[n].needSucc
  BY FromPredsParts
<1>5. UpdatedFromPreds(M, n).active = M.facts[n].active
  BY FromPredsParts
<1> QED BY <1>1, <1>2, <1>3, <1>4, <1>5

LEMMA BoundsOfSuccs ==
    ASSUME strings \in Inputs, NEW M, IsDiagram(M), NEW n \in NodesOf(M)
    PROVE  /\ Longest(M, n) \in Nat
           /\ \A s \in Succs(M, n) : M.facts[s].ub \in Nat /\ M.facts[s].ub <= Longest(M, n)
           /\ Longest(M, n) = 0 \/ \E s \in Succs(M, n) : M.facts[s].ub = Longest(M, n)
<1> DEFINE bounds == {M.facts[s].ub : s \in Succs(M, n)}
<1>0. Longest(M, n) = MaxOr(0, bounds)
  BY DEF Longest
<1>1. \A s \in Succs(M, n) : M.facts[s] \in Known
  BY DiagramFacts DEF IsDiagram
<1>2. bounds \subseteq 0..Sigma
  BY <1>1 DEF Known
<1>3. IsFiniteSet(bounds)
  <2>1. Sigma \in Int /\ 0 \in Int
    BY CharactersFinite
  <2>2. IsFiniteSet(0..Sigma)
    BY <2>1, FS_Interval
  <2> HIDE DEF bounds
  <2> QED BY <1>2, <2>2, FS_Subset
<1>4. bounds \subseteq Int /\ 0 \in Int /\ \A b \in bounds : b \in Nat
  BY <1>2, CharactersFinite
<1>5. \A s \in Succs(M, n) : M.facts[s].ub \in bounds
  OBVIOUS
<1>6. \A b \in bounds : \E s \in Succs(M, n) : M.facts[s].ub = b
  OBVIOUS
<1> HIDE DEF bounds
<1>7. MaxOr(0, bounds) \in bounds \cup {0} /\ \A b \in bounds : b <= MaxOr(0, bounds)
  BY <1>3, <1>4, MaxOrFacts
<1>8. Longest(M, n) \in Nat
  <2> DEFINE x == MaxOr(0, bounds)
  <2>1. x \in bounds \cup {0} /\ bounds \cup {0} \subseteq Nat
    BY <1>4, <1>7
  <2> HIDE DEF x
  <2>2. x \in Nat
    BY <2>1
  <2> QED BY <2>2, <1>0 DEF x
<1>9. \A s \in Succs(M, n) : M.facts[s].ub \in Nat /\ M.facts[s].ub <= Longest(M, n)
  BY <1>0, <1>4, <1>5, <1>7
<1>10. Longest(M, n) = 0 \/ \E s \in Succs(M, n) : M.facts[s].ub = Longest(M, n)
  BY <1>0, <1>6, <1>7
<1> QED BY <1>8, <1>9, <1>10

LEMMA FromSuccsParts ==
    ASSUME strings \in Inputs, NEW M, IsDiagram(M), NEW n \in NodesOf(M)
    PROVE  LET f == M.facts[n]
               g == UpdatedFromSuccs(M, n)
               longest == Longest(M, n)
           IN  /\ g.sink = f.sink \cap SomeSucc(M, n)
               /\ g.allSink = EverySucc(M, n)
               /\ g.ub \in {f.ub, longest + 1, Cardinality(g.sink)}
               /\ g.ub <= f.ub /\ g.ub <= longest + 1 /\ g.ub <= Cardinality(g.sink)
               /\ IsFiniteSet(g.sink)
               /\ g.toRoot = f.toRoot /\ g.allRoot = f.allRoot
               /\ g.needSucc = FALSE /\ g.needPred = f.needPred /\ g.active = f.active
<1> DEFINE f == M.facts[n]
           sink == f.sink \cap SomeSucc(M, n)
           allSink == EverySucc(M, n)
           longest == Longest(M, n)
           ub == Min({f.ub, longest + 1, Cardinality(sink)})
<1>1. f \in Known
  BY DiagramFacts DEF IsDiagram
<1>2. longest \in Nat
  BY BoundsOfSuccs
<1>3. sink \subseteq f.sink /\ f.sink \subseteq Characters /\ f.ub \in Int
  BY <1>1, CharactersFinite DEF Known
<1>4. UpdatedFromSuccs(M, n) =
        [f EXCEPT !.sink = sink, !.allSink = allSink, !.ub = ub, !.needSucc = FALSE]
  BY DEF UpdatedFromSuccs, Longest, SomeSucc, EverySucc
<1>5. /\ sink = f.sink \cap SomeSucc(M, n)
      /\ allSink = EverySucc(M, n)
  OBVIOUS
<1> HIDE DEF sink, allSink, longest, f
<1>6. IsFiniteSet(sink) /\ Cardinality(sink) \in Int
  <2>1. sink \in SUBSET Characters
    BY <1>3
  <2>2. IsFiniteSet(sink)
    BY <2>1, CharactersFinite, FS_Subset
  <2> QED BY <2>2, FS_CardinalityType
<1>7. ub \in {f.ub, longest + 1, Cardinality(sink)} /\ ub <= f.ub /\ ub <= longest + 1 /\ ub <= Cardinality(sink)
  <2>1. longest + 1 \in Int
    BY <1>2
  <2> QED BY <1>3, <1>6, <2>1, MinOfThree
<1>8. f = [toRoot |-> f.toRoot, allRoot |-> f.allRoot, sink |-> f.sink, allSink |-> f.allSink,
           ub |-> f.ub, needPred |-> f.needPred, needSucc |-> f.needSucc, active |-> f.active]
  BY <1>1 DEF Known
<1> HIDE DEF ub
<1>9. UpdatedFromSuccs(M, n) =
        [toRoot |-> f.toRoot, allRoot |-> f.allRoot, sink |-> sink, allSink |-> allSink,
         ub |-> ub, needPred |-> f.needPred, needSucc |-> FALSE, active |-> f.active]
  BY <1>4, <1>8
<1> QED BY <1>5, <1>6, <1>7, <1>9 DEF f, longest

(* In an MDD where no node has its own character behind it, nor is any     *)
(* character on all paths behind the lower bound, and where the nodes that *)
(* a longest solution can reach are on the level of their depth.           *)
Local(M) ==
    \A n \in NodesOf(M) : n # RootNode(M.side) =>
       /\ Letter(n) \notin M.facts[n].sink
       /\ DepthOf(n) > lower => M.facts[n].allSink = {}

(* What a node learns from its predecessors is true of a path that comes   *)
(* from one of them of which it was true.                                  *)
LEMMA PredsTeach ==
    ASSUME strings \in Inputs, NEW M, IsDiagram(M), NEW n \in NodesOf(M), n # RootNode(M.side),
           NEW p \in Preds(M, n), NEW P, NEW C, NEW b, IsFiniteSet(P), Cardinality(P) = DepthOf(n),
           P \cap C = {}, Letter(n) \in P, Holds(M.facts[n], P, C, b),
           M.facts[p].allRoot \subseteq P, P \subseteq M.facts[p].toRoot \cup {Letter(n)}
    PROVE  Holds(UpdatedFromPreds(M, n), P, C, b)
<1> DEFINE f == M.facts[n]
           g == UpdatedFromPreds(M, n)
           both == SomePred(M, n)
           common == EveryPred(M, n)
<1>a. g.toRoot = (f.toRoot \cap both) \cup {Letter(n)}
  BY FromPredsParts
<1>b. Cardinality(g.toRoot) = DepthOf(n) => g.allRoot = g.toRoot
  BY FromPredsParts
<1>c. Cardinality(g.toRoot) # DepthOf(n) => g.allRoot = common \cup {Letter(n)}
  BY FromPredsParts
<1>d. g.sink = f.sink \ g.allRoot /\ g.allSink = f.allSink /\ g.ub = f.ub
  <2>1. g.sink = f.sink \ g.allRoot
    BY FromPredsParts
  <2>2. g.allSink = f.allSink
    BY FromPredsKeeps
  <2>3. g.ub = f.ub
    BY FromPredsKeeps
  <2> QED BY <2>1, <2>2, <2>3
<1>1. /\ g.toRoot = (f.toRoot \cap both) \cup {Letter(n)}
      /\ Cardinality(g.toRoot) = DepthOf(n) => g.allRoot = g.toRoot
      /\ Cardinality(g.toRoot) # DepthOf(n) => g.allRoot = common \cup {Letter(n)}
      /\ g.sink = f.sink \ g.allRoot /\ g.allSink = f.allSink /\ g.ub = f.ub
  BY <1>a, <1>b, <1>c, <1>d
<1>2. IsFiniteSet(g.toRoot)
  <2>1. g \in Known
    BY FromPredsType
  <2> QED BY <2>1, CharactersFinite, FS_Subset DEF Known
<1>3. M.facts[p].toRoot \subseteq both
  BY DEF SomePred
<1>4. common \subseteq M.facts[p].allRoot
  BY DEF Common, EveryPred
<1>5. /\ f.allRoot \subseteq P /\ P \subseteq f.toRoot /\ f.allSink \subseteq C
      /\ C \subseteq f.sink /\ f.ub >= b
  BY DEF Holds
<1> HIDE DEF f, g, both, common
<1>6. P \subseteq g.toRoot
  BY <1>1, <1>3, <1>5
<1>7. g.allRoot \subseteq P
  <2>1. CASE Cardinality(g.toRoot) = DepthOf(n)
    <3>1. P = g.toRoot
      BY <2>1, <1>2, <1>6, FS_Subset
    <3> QED BY <2>1, <1>1, <3>1
  <2>2. CASE Cardinality(g.toRoot) # DepthOf(n)
    BY <2>2, <1>1, <1>4
  <2> QED BY <2>1, <2>2
<1>8. C \subseteq g.sink /\ g.allSink \subseteq C /\ g.ub >= b
  BY <1>1, <1>5, <1>7
<1>9. Holds(g, P, C, b)
  BY <1>6, <1>7, <1>8 DEF Holds
<1> QED BY <1>9 DEF g

(* What a node learns from its successors is true of a path that goes on   *)
(* to one of them of which it was true, or that ends behind the lower      *)
(* bound.                                                                  *)
LEMMA SuccsTeach ==
    ASSUME strings \in Inputs, NEW M, IsDiagram(M), NEW n \in NodesOf(M),
           NEW P, NEW C, NEW b \in Nat, IsFiniteSet(C), Cardinality(C) = b, Holds(M.facts[n], P, C, b),
           \/ \E t \in Succs(M, n) :
                 /\ M.facts[t].allSink \subseteq C /\ Letter(t) \in C
                 /\ C \subseteq M.facts[t].sink \cup {Letter(t)} /\ M.facts[t].ub >= b - 1
           \/ /\ C = {} /\ b = 0 /\ lower \in Int /\ DepthOf(n) > lower
              /\ \A s \in Succs(M, n) : M.facts[s].allSink = {}
    PROVE  Holds(UpdatedFromSuccs(M, n), P, C, b)
<1> DEFINE f == M.facts[n]
           g == UpdatedFromSuccs(M, n)
           longest == Longest(M, n)
           either == SomeSucc(M, n)
           common == EverySucc(M, n)
<1>1. /\ g.sink = f.sink \cap either
      /\ g.allSink = common
      /\ g.ub \in {f.ub, longest + 1, Cardinality(g.sink)}
      /\ IsFiniteSet(g.sink)
      /\ g.toRoot = f.toRoot /\ g.allRoot = f.allRoot
  BY FromSuccsParts
<1>2. longest \in Nat /\ \A s \in Succs(M, n) : M.facts[s].ub \in Nat /\ M.facts[s].ub <= longest
  BY BoundsOfSuccs
<1>3. /\ f.allRoot \subseteq P /\ P \subseteq f.toRoot /\ f.allSink \subseteq C
      /\ C \subseteq f.sink /\ f.ub >= b
  BY DEF Holds
<1>4. DepthOf(n) \in Int
  BY DiagramFacts
<1>5. C \subseteq g.sink /\ g.allSink \subseteq C /\ longest + 1 >= b
  <2>1. ASSUME NEW t \in Succs(M, n), M.facts[t].allSink \subseteq C, Letter(t) \in C,
               C \subseteq M.facts[t].sink \cup {Letter(t)}, M.facts[t].ub >= b - 1
        PROVE  C \subseteq g.sink /\ g.allSink \subseteq C /\ longest + 1 >= b
    <3>1. M.facts[t].sink \cup {Letter(t)} \subseteq either
      BY DEF SomeSucc
    <3>2. common \subseteq M.facts[t].allSink \cup {Letter(t)}
      <4> DEFINE S == {M.facts[s].allSink \cup (IF DepthOf(n) \in 1..lower THEN {Letter(s)} ELSE {}) :
                               s \in Succs(M, n)}
                 X == M.facts[t].allSink \cup (IF DepthOf(n) \in 1..lower THEN {Letter(t)} ELSE {})
      <4>1. X \in S
        OBVIOUS
      <4>2. Common(S) \subseteq X
        BY <4>1 DEF Common
      <4>3. X \subseteq M.facts[t].allSink \cup {Letter(t)}
        OBVIOUS
      <4> QED BY <4>2, <4>3 DEF EverySucc
    <3>3. longest + 1 >= b
      BY <2>1, <1>2
    <3> HIDE DEF f, g, longest, either, common
    <3> QED BY <2>1, <3>1, <3>2, <3>3, <1>1, <1>3
  <2>2. ASSUME C = {}, b = 0, lower \in Int, DepthOf(n) > lower, \A s \in Succs(M, n) : M.facts[s].allSink = {}
        PROVE  C \subseteq g.sink /\ g.allSink \subseteq C /\ longest + 1 >= b
    <3>1. DepthOf(n) \notin 1..lower
      BY <2>2, <1>4
    <3>2. \A s \in Succs(M, n) :
             M.facts[s].allSink \cup (IF DepthOf(n) \in 1..lower THEN {Letter(s)} ELSE {}) \subseteq {}
      BY <2>2, <3>1
    <3>3. common \subseteq {}
      <4> DEFINE S == {M.facts[s].allSink \cup (IF DepthOf(n) \in 1..lower THEN {Letter(s)} ELSE {}) :
                               s \in Succs(M, n)}
      <4>1. \A Y \in S : Y \subseteq {}
        BY <3>2
      <4>2. common = Common(S)
        BY DEF EverySucc
      <4> HIDE DEF S, common
      <4> QED BY <4>1, <4>2 DEF Common
    <3> HIDE DEF f, g, longest, either, common
    <3> QED BY <2>2, <3>3, <1>1, <1>2
  <2> HIDE DEF f, g, longest, either, common
  <2> QED BY <2>1, <2>2
<1> HIDE DEF f, g, longest, either, common
<1>6. g.ub >= b
  <2>1. Cardinality(C) <= Cardinality(g.sink) /\ Cardinality(g.sink) \in Nat
    BY <1>1, <1>5, FS_Subset, FS_CardinalityType
  <2> QED BY <2>1, <1>1, <1>2, <1>3, <1>5
<1>7. Holds(g, P, C, b)
  BY <1>1, <1>3, <1>5, <1>6 DEF Holds
<1> QED BY <1>7 DEF g

(* What is known of a node, but for what is pending.                       *)
SameKnown(f, g) ==
    /\ f.toRoot = g.toRoot /\ f.allRoot = g.allRoot /\ f.sink = g.sink
    /\ f.allSink = g.allSink /\ f.ub = g.ub

LEMMA FlaggedParts ==
    ASSUME NEW D, NEW F \in [D -> Known], NEW A, NEW B, NEW n \in D
    PROVE  /\ SameKnown(Flagged(F, A, B)[n], F[n])
           /\ Flagged(F, A, B)[n].active = F[n].active
           /\ Flagged(F, A, B)[n].needSucc <=> F[n].needSucc \/ n \in A
           /\ Flagged(F, A, B)[n].needPred <=> F[n].needPred \/ n \in B
<1> DEFINE f == F[n]
           s == f.needSucc \/ n \in A
           p == f.needPred \/ n \in B
<1>1. f \in Known
  OBVIOUS
<1>2. Flagged(F, A, B)[n] = [f EXCEPT !.needSucc = s, !.needPred = p]
  BY DEF Flagged
<1>3. s \in BOOLEAN /\ p \in BOOLEAN /\ (s <=> F[n].needSucc \/ n \in A) /\ (p <=> F[n].needPred \/ n \in B)
  BY <1>1 DEF Known
<1> HIDE DEF f, s, p
<1>4. f = [toRoot |-> f.toRoot, allRoot |-> f.allRoot, sink |-> f.sink, allSink |-> f.allSink,
           ub |-> f.ub, needPred |-> f.needPred, needSucc |-> f.needSucc, active |-> f.active]
  BY <1>1 DEF Known
<1>5. Flagged(F, A, B)[n] =
        [toRoot |-> f.toRoot, allRoot |-> f.allRoot, sink |-> f.sink, allSink |-> f.allSink,
         ub |-> f.ub, needPred |-> p, needSucc |-> s, active |-> f.active]
  BY <1>2, <1>4
<1>6. SameKnown(Flagged(F, A, B)[n], f) /\ Flagged(F, A, B)[n].active = f.active
  BY <1>5 DEF SameKnown
<1>7. Flagged(F, A, B)[n].needSucc = s /\ Flagged(F, A, B)[n].needPred = p
  BY <1>5
<1> QED BY <1>3, <1>6, <1>7 DEF f

(* What the end of nodes and arcs leaves of what is known.                 *)
LEMMA DetachedParts ==
    ASSUME NEW M, IsDiagram(M), NEW gone, NEW cut, RootNode(M.side) \notin gone
    PROVE  LET N == Detached(M, gone, cut)
           IN  \A n \in NodesOf(M) \ gone :
                  /\ SameKnown(N.facts[n], M.facts[n])
                  /\ N.facts[n].active = M.facts[n].active
                  /\ N.facts[n].needSucc <=> \/ M.facts[n].needSucc
                                             \/ \E a \in M.arcs \cup cut :
                                                   /\ a[1] = n
                                                   /\ a \in cut \/ a[1] \in gone \/ a[2] \in gone
                  /\ N.facts[n].needPred <=> \/ M.facts[n].needPred
                                             \/ \E a \in M.arcs \cup cut :
                                                   /\ a[2] = n
                                                   /\ a \in cut \/ a[1] \in gone \/ a[2] \in gone
<1> DEFINE lost == cut \cup {a \in M.arcs : a[1] \in gone \/ a[2] \in gone}
           left == [n \in NodesOf(M) \ gone |-> M.facts[n]]
           A == {a[1] : a \in lost}
           B == {a[2] : a \in lost}
<1>1. DOMAIN M.facts = NodesOf(M)
  BY DEF IsDiagram
<1>2. Detached(M, gone, cut).facts = Flagged(left, A, B)
  <2> DEFINE levels == [i \in DOMAIN M.levels |-> M.levels[i] \ gone]
  <2>1. M = [side |-> M.side, levels |-> M.levels, arcs |-> M.arcs, facts |-> M.facts]
    BY DEF IsDiagram
  <2>2. Detached(M, gone, cut) =
          [M EXCEPT !.levels = [i \in DOMAIN @ |-> M.levels[i] \ gone], !.arcs = @ \ lost,
                    !.facts = Flagged([n \in DOMAIN M.facts \ gone |-> M.facts[n]], A, B)]
    BY DEF Detached
  <2>3. Detached(M, gone, cut) = [M EXCEPT !.levels = levels, !.arcs = M.arcs \ lost, !.facts = Flagged(left, A, B)]
    BY <2>1, <2>2, <1>1
  <2> HIDE DEF levels, lost, left, A, B
  <2> QED BY <2>1, <2>3
<1>3. left \in [NodesOf(M) \ gone -> Known] /\ \A n \in NodesOf(M) \ gone : left[n] = M.facts[n]
  BY DEF IsDiagram
<1>4. ASSUME NEW n
      PROVE  /\ n \in A <=> \E a \in M.arcs \cup cut : a[1] = n /\ (a \in cut \/ a[1] \in gone \/ a[2] \in gone)
             /\ n \in B <=> \E a \in M.arcs \cup cut : a[2] = n /\ (a \in cut \/ a[1] \in gone \/ a[2] \in gone)
  OBVIOUS
<1> HIDE DEF lost, left, A, B
<1> SUFFICES ASSUME NEW n \in NodesOf(M) \ gone
             PROVE  LET g == Flagged(left, A, B)[n]
                    IN  /\ SameKnown(g, M.facts[n])
                        /\ g.active = M.facts[n].active
                        /\ g.needSucc <=> M.facts[n].needSucc \/ n \in A
                        /\ g.needPred <=> M.facts[n].needPred \/ n \in B
  BY <1>2, <1>4
<1> QED BY <1>3, FlaggedParts

(* A path of what is left of an MDD is a path of the MDD.                  *)
LEMMA FreeInSmaller ==
    ASSUME NEW M, NEW N, N.side = M.side, NodesOf(N) \subseteq NodesOf(M), N.arcs \subseteq M.arcs,
           NEW k \in Nat, NEW q, IsFree(N, q, k)
    PROVE  IsFree(M, q, k)
  BY DEF IsFree

Aligned(M) ==
    \A i \in 1..Len(M.levels) : \A n \in M.levels[i] : DepthOf(n) <= opt => i = DepthOf(n) + 1

(* The facts of an MDD are true, also of what it may become.               *)
Fine(M) == Sound(M) /\ Local(M) /\ Aligned(M)

LEMMA SmallerFine ==
    ASSUME strings \in Inputs, lower \in Nat, NEW M, IsDiagram(M), Fine(M), NEW N, IsDiagram(N), Smaller(N, M),
           \A n \in NodesOf(N) : SameKnown(N.facts[n], M.facts[n]),
           \A i \in 1..Len(N.levels) : N.levels[i] \subseteq M.levels[i]
    PROVE  Fine(N)
<1>1. Sound(N)
  <2> SUFFICES ASSUME NEW k \in (lower + 1)..Sigma, NEW q, IsFree(N, q, k), NEW i \in 1..(k + 1)
               PROVE  Knows(N.facts[q[i]], q, i, k)
    BY DEF Sound
  <2>1. k \in Nat
    OBVIOUS
  <2>2. IsFree(M, q, k)
    BY <2>1, FreeInSmaller DEF Smaller
  <2>3. Knows(M.facts[q[i]], q, i, k)
    BY <2>2 DEF Fine, Sound
  <2>4. q[i] \in NodesOf(N)
    BY DEF IsFree
  <2> QED BY <2>3, <2>4 DEF Knows, Holds, SameKnown
<1>2. Local(N)
  BY DEF Fine, Local, Smaller, SameKnown
<1>3. Aligned(N)
  <2>1. Len(N.levels) \in Nat /\ Len(M.levels) \in Nat
    BY DiagramFacts
  <2>2. \A i \in 1..Len(N.levels) : i \in 1..Len(M.levels)
    BY <2>1 DEF Smaller
  <2> QED BY <2>2 DEF Fine, Aligned
<1> QED BY <1>1, <1>2, <1>3 DEF Fine

(* How far a match is from where one comes from, in string_1.              *)
LEMMA PositionFacts ==
    ASSUME strings \in Inputs, NEW d \in Directions, NEW s \in Inner, NEW t \in Inner
    PROVE  /\ Position(d, s, 1) \in 0..Size1 /\ Size1 \in Nat
           /\ Nearer(d, s, t) => Position(d, s, 1) < Position(d, t, 1)
           /\ Nearer(d, s, t) <=> Before(d, s, t)
<1>1. Size1 \in Nat /\ Size2 \in Nat /\ s[1] \in 1..Size1 /\ t[1] \in 1..Size1 /\ s[2] \in 1..Size2 /\ t[2] \in 1..Size2
  BY InputFacts, InnerFacts
<1>2. Leaf[1] = Size1 + 1 /\ Leaf[2] = Size2 + 1
  BY DEF Leaf, Size1, Size2
<1>3. CASE d = "forward"
  BY <1>1, <1>3 DEF Position, Nearer, Before, Ahead
<1>4. CASE d = "reverse"
  BY <1>1, <1>2, <1>4 DEF Position, Nearer, Before, Ahead
<1> QED BY <1>3, <1>4 DEF Directions

(* What filter_succ_edges_of_node looks at, successor by successor.        *)
AllowedSuccs(M, n, f) ==
    {s \in Succs(M, n) :
        /\ Letter(s) \in f.sink \ f.allRoot
        /\ DepthOf(n) + 1 + M.facts[s].ub > lower
        /\ Cardinality(f.toRoot \cup (M.facts[s].sink \cup {Letter(s)})) > lower
        /\ DepthOf(n) + Cardinality((M.facts[s].sink \cup {Letter(s)}) \ f.allRoot) > lower
        /\ f.allRoot \cap M.facts[s].allSink = {}}

Undominated(M, n, f, before) ==
    /\ \A t \in before : Letter(t) \in f.toRoot
    /\ ~Dominated(M.side, {MatchOf(t) : t \in before}, DepthOf(n) - Cardinality(f.allRoot) + 1)

(* The recursive definition of what it keeps has a solution.               *)
LEMMA KeptUnfold ==
    ASSUME strings \in Inputs, NEW M, IsDiagram(M), NEW n \in NodesOf(M), NEW f
    PROVE  \A s : s \in KeptSuccs(M, n, f) <=>
                     /\ s \in AllowedSuccs(M, n, f)
                     /\ Undominated(M, n, f, {t \in AllowedSuccs(M, n, f) :
                                                 /\ Nearer(M.side, MatchOf(t), MatchOf(s))
                                                 /\ t \in KeptSuccs(M, n, f)})
<1> DEFINE K == AllowedSuccs(M, n, f)
           V == BOOLEAN
           before(g, s) == {t \in K : Nearer(M.side, MatchOf(t), MatchOf(s)) /\ g[t]}
           Body(g) == [s \in K |-> Undominated(M, n, f, before(g, s))]
           F == [g \in [K -> V] |-> Body(g)]
           rank == [s \in K |-> Position(M.side, MatchOf(s), 1)]
           kept == CHOOSE g : g = Body(g)
<1>1. KeptSuccs(M, n, f) = {s \in K : kept[s]}
  BY DEF KeptSuccs, AllowedSuccs, Undominated
<1>2. M.side \in Directions /\ \A s \in K : MatchOf(s) \in Inner
  <2>1. ASSUME NEW s \in K PROVE MatchOf(s) \in Inner
    <3>1. s \in Succs(M, n)
      BY DEF AllowedSuccs
    <3>2. s \in NodesOf(M) /\ s # RootNode(M.side)
      BY <3>1, DiagramFacts
    <3> QED BY <3>2 DEF IsDiagram
  <2> QED BY <2>1 DEF IsDiagram
<1>3. \A g \in [K -> V] : Body(g) \in [K -> V]
  BY DEF Undominated
<1>4. Descends(F, K, V, rank, Size1) /\ V # {}
  <2>1. rank \in [K -> 0..Size1]
    BY <1>2, PositionFacts
  <2>2. F \in [[K -> V] -> [K -> V]]
    <3> HIDE DEF Body, K, V
    <3> QED BY <1>3
  <2>3. \A g, h \in [K -> V] : \A s \in K :
           (\A t \in K : rank[t] < rank[s] => g[t] = h[t]) => F[g][s] = F[h][s]
    <3> SUFFICES ASSUME NEW g \in [K -> V], NEW h \in [K -> V], NEW s \in K,
                        \A t \in K : rank[t] < rank[s] => g[t] = h[t]
                 PROVE  F[g][s] = F[h][s]
      <4> HIDE DEF F, K, V, rank
      <4> QED OBVIOUS
    <3>1. \A t \in K : Nearer(M.side, MatchOf(t), MatchOf(s)) => rank[t] < rank[s]
      BY <1>2, PositionFacts
    <3>2. before(g, s) = before(h, s)
      <4> HIDE DEF rank, K
      <4> QED BY <3>1
    <3>3. F[g][s] = Undominated(M, n, f, before(g, s)) /\ F[h][s] = Undominated(M, n, f, before(h, s))
      OBVIOUS
    <3> HIDE DEF F, before
    <3> QED BY <3>2, <3>3
  <2>4. Size1 \in Nat
    BY InputFacts
  <2> HIDE DEF K, V, F, rank
  <2> QED BY <2>1, <2>2, <2>3, <2>4 DEF Descends, V
<1>5. PICK g \in [K -> V] : F[g] = g
  <2> HIDE DEF K, V, F, rank
  <2> QED BY <1>4, RecursionHasSolution
<1>6. kept = Body(kept)
  <2>1. g = Body(g)
    BY <1>5
  <2> HIDE DEF Body
  <2> QED BY <2>1
<1> HIDE DEF kept, K
<1>7. \A s \in K : kept[s] = Undominated(M, n, f, before(kept, s))
  <2> HIDE DEF before
  <2> QED BY <1>6
<1>8. \A s : before(kept, s) = {t \in K : Nearer(M.side, MatchOf(t), MatchOf(s)) /\ t \in KeptSuccs(M, n, f)}
  BY <1>1
<1> HIDE DEF before
<1>9. \A s : s \in KeptSuccs(M, n, f) <=> s \in K /\ Undominated(M, n, f, before(kept, s))
  BY <1>1, <1>7
<1> QED BY <1>8, <1>9 DEF K

(* The candidates of set_arcs..., and what decides about each.             *)
Candidates(d, depth, m) ==
    {s \in succ[d][m] \cap Inner :
        /\ depth + 1 <= up[Opposite(d)][s]
        /\ CharacterOf(s) \in avail[d][m] \ (IF m \in Inner THEN {CharacterOf(m)} ELSE {})
        /\ depth + 1 + up[d][s] > lower
        /\ EnoughCharactersAvailable(depth + 1, avail[Opposite(d)][m], avail[d][s])}

Unbeaten(d, depth, m, before) ==
    /\ \A t \in before : CharacterOf(t) \in avail[Opposite(d)][m]
    /\ ~Dominated(d, before, depth)

LEMMA LinkedUnfold ==
    ASSUME strings \in Inputs, NEW d \in Directions, NEW depth, NEW m
    PROVE  \E passed \in SUBSET Candidates(d, depth, m) :
              /\ LinkedMatches(d, depth, m) = passed \cap active
              /\ \A s : s \in passed <=>
                     /\ s \in Candidates(d, depth, m)
                     /\ Unbeaten(d, depth, m, {t \in Candidates(d, depth, m) : Nearer(d, t, s) /\ t \in passed})
<1> DEFINE K == Candidates(d, depth, m)
           V == BOOLEAN
           before(g, s) == {t \in K : Nearer(d, t, s) /\ g[t]}
           Body(g) == [s \in K |-> Unbeaten(d, depth, m, before(g, s))]
           F == [g \in [K -> V] |-> Body(g)]
           rank == [s \in K |-> Position(d, s, 1)]
           kept == CHOOSE g : g = Body(g)
           passed == {s \in K : kept[s]}
<1>1. LinkedMatches(d, depth, m) = {s \in K : kept[s] /\ s \in active}
  BY DEF LinkedMatches, Candidates, Unbeaten
<1>2. \A s \in K : s \in Inner
  BY DEF Candidates
<1>3. \A g \in [K -> V] : Body(g) \in [K -> V]
  BY DEF Unbeaten
<1>4. Descends(F, K, V, rank, Size1) /\ V # {}
  <2>1. rank \in [K -> 0..Size1]
    BY <1>2, PositionFacts
  <2>2. F \in [[K -> V] -> [K -> V]]
    <3> HIDE DEF Body, K, V
    <3> QED BY <1>3
  <2>3. \A g, h \in [K -> V] : \A s \in K :
           (\A t \in K : rank[t] < rank[s] => g[t] = h[t]) => F[g][s] = F[h][s]
    <3> SUFFICES ASSUME NEW g \in [K -> V], NEW h \in [K -> V], NEW s \in K,
                        \A t \in K : rank[t] < rank[s] => g[t] = h[t]
                 PROVE  F[g][s] = F[h][s]
      <4> HIDE DEF F, K, V, rank
      <4> QED OBVIOUS
    <3>1. \A t \in K : Nearer(d, t, s) => rank[t] < rank[s]
      BY <1>2, PositionFacts
    <3>2. before(g, s) = before(h, s)
      <4> HIDE DEF rank, K
      <4> QED BY <3>1
    <3>3. F[g][s] = Unbeaten(d, depth, m, before(g, s)) /\ F[h][s] = Unbeaten(d, depth, m, before(h, s))
      OBVIOUS
    <3> HIDE DEF F, before
    <3> QED BY <3>2, <3>3
  <2>4. Size1 \in Nat
    BY InputFacts
  <2> HIDE DEF K, V, F, rank
  <2> QED BY <2>1, <2>2, <2>3, <2>4 DEF Descends, V
<1>5. PICK g \in [K -> V] : F[g] = g
  <2> HIDE DEF K, V, F, rank
  <2> QED BY <1>4, RecursionHasSolution
<1>6. kept = Body(kept)
  <2>1. g = Body(g)
    BY <1>5
  <2> HIDE DEF Body
  <2> QED BY <2>1
<1> HIDE DEF kept, K
<1>7. \A s \in K : kept[s] = Unbeaten(d, depth, m, before(kept, s))
  <2> HIDE DEF before
  <2> QED BY <1>6
<1>8. \A s : before(kept, s) = {t \in K : Nearer(d, t, s) /\ t \in passed}
  OBVIOUS
<1> HIDE DEF before
<1>9. \A s : s \in passed <=> s \in K /\ Unbeaten(d, depth, m, before(kept, s))
  BY <1>7
<1>10. passed \in SUBSET K /\ LinkedMatches(d, depth, m) = passed \cap active
  BY <1>1
<1> HIDE DEF passed
<1>11. \A s : s \in passed <=> s \in K /\ Unbeaten(d, depth, m, {t \in K : Nearer(d, t, s) /\ t \in passed})
  BY <1>8, <1>9
<1> QED BY <1>10, <1>11 DEF K

(* A node has one successor match for each character.                      *)
LEMMA OneForEach ==
    ASSUME strings \in Inputs, NEW d \in Directions, NEW m \in Nodes,
           NEW s \in SuccessorMatches(d, m), NEW t \in SuccessorMatches(d, m), CharacterOf(s) = CharacterOf(t)
    PROVE  s = t
<1>1. /\ s \in Inner /\ t \in Inner /\ Before(d, m, s) /\ Before(d, m, t)
      /\ NotAfter(d, s, t) /\ NotAfter(d, t, s)
  BY SuccessorFacts
<1>2. /\ s = <<s[1], s[2]>> /\ t = <<t[1], t[2]>>
      /\ s[1] \in 1..Size1 /\ s[2] \in 1..Size2 /\ t[1] \in 1..Size1 /\ t[2] \in 1..Size2
      /\ Size1 \in Nat /\ Size2 \in Nat
  BY <1>1, InnerFacts, InputFacts
<1>3. s[1] = t[1] /\ s[2] = t[2]
  BY <1>1, <1>2 DEF NotAfter, Ahead, Directions
<1> QED BY <1>2, <1>3

(* Fewer characters come before a successor than there are in X.           *)
LEMMA NotDominated ==
    ASSUME strings \in Inputs, NEW d \in Directions, NEW m \in Nodes,
           NEW B, B \subseteq SuccessorMatches(d, m), NEW X, IsFiniteSet(X),
           \A t \in B : CharacterOf(t) \in X, NEW depth \in Int, Cardinality(X) < depth
    PROVE  ~Dominated(d, B, depth)
<1> DEFINE T == {Position(d, s, 2) : s \in B}
           one == [p \in T |-> CHOOSE s \in B : Position(d, s, 2) = p]
           f == [p \in T |-> CharacterOf(one[p])]
<1>1. \A p \in T : one[p] \in B /\ Position(d, one[p], 2) = p
  OBVIOUS
<1>2. f \in [T -> X] /\ \A p \in T : f[p] = CharacterOf(one[p])
  BY <1>1
<1>3. \A p, r \in T : f[p] = f[r] => p = r
  <2> SUFFICES ASSUME NEW p \in T, NEW r \in T, f[p] = f[r] PROVE p = r
    OBVIOUS
  <2>1. one[p] \in SuccessorMatches(d, m) /\ one[r] \in SuccessorMatches(d, m)
    BY <1>1
  <2>2. CharacterOf(one[p]) = CharacterOf(one[r])
    BY <1>2
  <2> HIDE DEF T, one, f
  <2>3. one[p] = one[r]
    BY <2>1, <2>2, OneForEach
  <2> QED BY <2>3, <1>1
<1> HIDE DEF T, f, one
<1>4. f \in Injection(T, X)
  BY <1>2, <1>3 DEF Injection, IsInjective
<1>5. IsFiniteSet(T) /\ Cardinality(T) <= Cardinality(X)
  BY <1>4, FS_Injection
<1>6. Cardinality(T) \in Nat /\ Cardinality(X) \in Nat
  BY <1>5, FS_CardinalityType
<1>7. ~(Cardinality(T) >= depth)
  BY <1>5, <1>6
<1> QED BY <1>7 DEF Dominated, T

LEMMA SizeFact ==
    ASSUME NEW P, NEW C, IsFiniteSet(P), IsFiniteSet(C), P \cap C = {}
    PROVE  /\ Cardinality(P) \in Nat /\ Cardinality(C) \in Nat /\ IsFiniteSet(P \cup C)
           /\ Cardinality(P \cup C) = Cardinality(P) + Cardinality(C)
<1>1. Cardinality(P \cup C) = Cardinality(P) + Cardinality(C) - Cardinality({})
  BY FS_Union
<1> QED BY <1>1, FS_Union, FS_CardinalityType, FS_EmptySet

LEMMA AtLeast ==
    ASSUME NEW X, NEW Y, IsFiniteSet(Y), X \subseteq Y
    PROVE  Cardinality(X) \in Nat /\ Cardinality(Y) \in Nat /\ Cardinality(X) <= Cardinality(Y)
  BY FS_Subset, FS_CardinalityType

(* The arc to a successor s stays if a path longer than the lower bound    *)
(* goes over it of which everything known is true, and if nothing before s *)
(* has a character that is not on the path up to here.                     *)
LEMMA KeptOnWay ==
    ASSUME strings \in Inputs, lower \in Nat, NEW M, IsDiagram(M), NEW n \in NodesOf(M), NEW s \in Succs(M, n),
           NEW f \in Known, NEW P, NEW C, NEW b \in Nat, IsFiniteSet(P), IsFiniteSet(C),
           Cardinality(P) = DepthOf(n), Cardinality(C) = b, P \cap C = {}, DepthOf(n) + b > lower,
           Holds(f, P, C, b), Letter(s) \in C,
           M.facts[s].allSink \subseteq C, C \subseteq M.facts[s].sink \cup {Letter(s)}, M.facts[s].ub >= b - 1,
           \A t \in Succs(M, n) : Nearer(M.side, MatchOf(t), MatchOf(s)) => Letter(t) \in P
    PROVE  s \in KeptSuccs(M, n, f)
<1> DEFINE g == M.facts[s]
           behind == g.sink \cup {Letter(s)}
           before == {t \in AllowedSuccs(M, n, f) : /\ Nearer(M.side, MatchOf(t), MatchOf(s))
                                                    /\ t \in KeptSuccs(M, n, f)}
<1>1. /\ f.allRoot \subseteq P /\ P \subseteq f.toRoot /\ f.allSink \subseteq C
      /\ C \subseteq f.sink /\ f.ub >= b
  BY DEF Holds
<1>2. /\ s \in NodesOf(M) /\ Letter(s) \in Characters /\ g \in Known /\ DepthOf(n) \in Nat
      /\ M.side \in Directions
  <2>1. s \in NodesOf(M) /\ s # RootNode(M.side)
    BY DiagramFacts
  <2> QED BY <2>1, DiagramFacts DEF IsDiagram
<1>3. IsFiniteSet(f.toRoot) /\ IsFiniteSet(behind) /\ g.ub \in Int /\ f.toRoot \subseteq Characters /\ behind \subseteq Characters
  BY <1>2, CharactersFinite, FS_Subset DEF Known
<1>4. /\ Cardinality(P) \in Nat /\ Cardinality(C) \in Nat /\ IsFiniteSet(P \cup C)
      /\ Cardinality(P \cup C) = Cardinality(P) + Cardinality(C)
  BY SizeFact
<1>5. s \in AllowedSuccs(M, n, f)
  <2>1. Letter(s) \in f.sink \ f.allRoot
    BY <1>1
  <2>2. DepthOf(n) + 1 + g.ub > lower
    BY <1>2, <1>3
  <2>3. Cardinality(f.toRoot \cup behind) > lower
    <3>1. P \cup C \subseteq f.toRoot \cup behind
      BY <1>1
    <3>2. IsFiniteSet(f.toRoot \cup behind)
      BY <1>3, FS_Union
    <3>3. /\ Cardinality(P \cup C) <= Cardinality(f.toRoot \cup behind)
          /\ Cardinality(f.toRoot \cup behind) \in Nat
      <4> HIDE DEF behind
      <4> QED BY <3>1, <3>2, AtLeast
    <3> HIDE DEF behind
    <3> QED BY <3>3, <1>2, <1>4
  <2>4. DepthOf(n) + Cardinality(behind \ f.allRoot) > lower
    <3>1. C \subseteq behind \ f.allRoot
      BY <1>1
    <3>2. IsFiniteSet(behind \ f.allRoot)
      BY <1>3, FS_Difference
    <3>3. /\ Cardinality(C) <= Cardinality(behind \ f.allRoot)
          /\ Cardinality(behind \ f.allRoot) \in Nat
      <4> HIDE DEF behind
      <4> QED BY <3>1, <3>2, AtLeast
    <3> HIDE DEF behind
    <3> QED BY <3>3, <1>2, <1>4
  <2>5. f.allRoot \cap g.allSink = {}
    BY <1>1
  <2> QED BY <2>1, <2>2, <2>3, <2>4, <2>5 DEF AllowedSuccs
<1>6. \A t \in before : Letter(t) \in P \ f.allRoot /\ t \in Succs(M, n)
  BY DEF AllowedSuccs
<1>7. ~Dominated(M.side, {MatchOf(t) : t \in before}, DepthOf(n) - Cardinality(f.allRoot) + 1)
  <2> DEFINE B == {MatchOf(t) : t \in before}
  <2>1. B \subseteq SuccessorMatches(M.side, MatchOf(n))
    <3> SUFFICES ASSUME NEW t \in before PROVE MatchOf(t) \in SuccessorMatches(M.side, MatchOf(n))
      OBVIOUS
    <3>1. t \in NodesOf(M) /\ t \in Succs(M, n)
      BY <1>6, DiagramFacts
    <3>2. <<n, t>> \in M.arcs
      BY <3>1, DiagramFacts
    <3> QED BY <3>2 DEF IsDiagram
  <2>2. \A m \in B : CharacterOf(m) \in P \ f.allRoot
    BY <1>6 DEF Letter
  <2>3. /\ IsFiniteSet(P \ f.allRoot)
        /\ Cardinality(P \ f.allRoot) = Cardinality(P) - Cardinality(f.allRoot)
    <3>1. P \cap f.allRoot = f.allRoot
      BY <1>1
    <3> QED BY <3>1, FS_Difference
  <2>4. Cardinality(f.allRoot) \in Nat
    BY <1>1, AtLeast
  <2>5. MatchOf(n) \in Nodes
    BY DiagramFacts
  <2> DEFINE depth == DepthOf(n) - Cardinality(f.allRoot) + 1
  <2>6. depth \in Int /\ Cardinality(P \ f.allRoot) < depth
    BY <2>3, <2>4, <1>2
  <2> HIDE DEF B, depth
  <2>7. ~Dominated(M.side, B, depth)
    BY <1>2, <2>1, <2>2, <2>3, <2>5, <2>6, NotDominated
  <2> QED BY <2>7 DEF B, depth
<1>8. Undominated(M, n, f, before)
  BY <1>1, <1>6, <1>7 DEF Undominated
<1> QED BY <1>5, <1>8, KeptUnfold

(* Nor is a node on such a path pruned.                                    *)
LEMMA WayNotPrunable ==
    ASSUME strings \in Inputs, lower \in Nat, NEW M, IsDiagram(M), NEW n \in NodesOf(M),
           NEW f \in Known, NEW P, NEW C, NEW b \in Nat, IsFiniteSet(P), IsFiniteSet(C),
           Cardinality(P) = DepthOf(n), Cardinality(C) = b, P \cap C = {}, DepthOf(n) + b > lower,
           Holds(f, P, C, b), Preds(M, n) # {}
    PROVE  ~Prunable(M, n, f)
<1>1. /\ f.allRoot \subseteq P /\ P \subseteq f.toRoot /\ f.allSink \subseteq C
      /\ C \subseteq f.sink /\ f.ub >= b
  BY DEF Holds
<1>2. DepthOf(n) \in Nat /\ f.ub \in Int /\ IsFiniteSet(f.toRoot \cup f.sink)
  <2>1. f.toRoot \cup f.sink \subseteq Characters /\ f.ub \in Int
    BY CharactersFinite DEF Known
  <2> QED BY <2>1, DiagramFacts, CharactersFinite, FS_Subset
<1>3. /\ Cardinality(P) \in Nat /\ Cardinality(C) \in Nat /\ IsFiniteSet(P \cup C)
      /\ Cardinality(P \cup C) = Cardinality(P) + Cardinality(C)
  BY SizeFact
<1>4. P \cup C \subseteq f.toRoot \cup f.sink
  BY <1>1
<1>5. /\ Cardinality(P \cup C) <= Cardinality(f.toRoot \cup f.sink)
      /\ Cardinality(f.toRoot \cup f.sink) \in Nat
  BY <1>2, <1>4, AtLeast
<1>6. ~(Cardinality(f.toRoot \cup f.sink) <= lower)
  BY <1>2, <1>3, <1>5
<1>7. ~(DepthOf(n) + f.ub <= lower)
  BY <1>1, <1>2
<1>8. f.allRoot \cap f.allSink = {}
  BY <1>1
<1> QED BY <1>6, <1>7, <1>8 DEF Prunable

(* What Visited calls gone, cut, below and above.                          *)
VisitCut(M, new, filtered) ==
    UNION {{<<n, s>> : s \in Succs(M, n) \ KeptSuccs(M, n, new[n])} : n \in filtered}

VisitPruned(M, i, new) ==
    {n \in M.levels[i] : /\ i > 1
                         /\ M.facts[n].needPred \/ M.facts[n].needSucc
                         /\ Prunable(M, n, new[n])}

VisitGone(M, i, new) ==
    IF VisitPruned(M, i, new) = {} THEN {}
    ELSE VisitPruned(M, i, new) \cup {n \in M.levels[i] : ~M.facts[n].active}

VisitBelow(M, i, new) ==
    {n \in M.levels[i] : new[n].ub # M.facts[n].ub}
      \cup {n \in M.levels[i] : new[n].sink # M.facts[n].sink \/ new[n].allSink # M.facts[n].allSink}

VisitAbove(M, i, new) ==
    {n \in M.levels[i] : new[n].ub # M.facts[n].ub}
      \cup {n \in M.levels[i] : new[n].toRoot # M.facts[n].toRoot \/ new[n].allRoot # M.facts[n].allRoot}

(* What is known of a node when its level is visited.                      *)
NowKnown(M, i, new, n) == IF n \in M.levels[i] THEN new[n] ELSE M.facts[n]

LEMMA VisitedParts ==
    ASSUME strings \in Inputs, NEW M, IsDiagram(M), NEW i \in 1..Len(M.levels),
           NEW new \in [M.levels[i] -> Known], NEW filtered
    PROVE  LET N == Visited(M, i, new, filtered).mdd
               gone == VisitGone(M, i, new)
               cut == VisitCut(M, new, filtered)
           IN  /\ \A j \in 1..Len(M.levels) : N.levels[j] = M.levels[j] \ gone
               /\ NodesOf(N) = NodesOf(M) \ gone
               /\ N.arcs = {a \in M.arcs : a \notin cut /\ a[1] \notin gone /\ a[2] \notin gone}
               /\ \A n \in NodesOf(M) \ gone :
                     /\ SameKnown(N.facts[n], NowKnown(M, i, new, n))
                     /\ N.facts[n].active = NowKnown(M, i, new, n).active
                     /\ N.facts[n].needSucc <=>
                           \/ NowKnown(M, i, new, n).needSucc
                           \/ \E m \in VisitBelow(M, i, new) : n \in Preds(M, m)
                           \/ \E a \in M.arcs \cup cut : a[1] = n /\ (a \in cut \/ a[1] \in gone \/ a[2] \in gone)
                     /\ N.facts[n].needPred <=>
                           \/ NowKnown(M, i, new, n).needPred
                           \/ \E m \in VisitAbove(M, i, new) : n \in Succs(M, m)
                           \/ \E a \in M.arcs \cup cut : a[2] = n /\ (a \in cut \/ a[1] \in gone \/ a[2] \in gone)
<1> DEFINE nodes == M.levels[i]
           cut == VisitCut(M, new, filtered)
           gone == VisitGone(M, i, new)
           told == [n \in DOMAIN M.facts |-> IF n \in nodes THEN new[n] ELSE M.facts[n]]
           A == UNION {Preds(M, n) : n \in VisitBelow(M, i, new)}
           B == UNION {Succs(M, n) : n \in VisitAbove(M, i, new)}
           F == Flagged(told, A, B)
<1>1. Visited(M, i, new, filtered).mdd = Detached([M EXCEPT !.facts = F], gone, cut)
  BY DEF Visited, VisitCut, VisitGone, VisitPruned, VisitBelow, VisitAbove
<1>2. told \in [NodesOf(M) -> Known] /\ \A n \in NodesOf(M) : told[n] = NowKnown(M, i, new, n)
  BY DiagramFacts DEF IsDiagram, NowKnown
<1>3. RootNode(M.side) \notin gone
  <2>1. i = 1 \/ RootNode(M.side) \notin nodes
    BY DiagramFacts
  <2>2. i = 1 => VisitPruned(M, i, new) = {}
    BY DEF VisitPruned
  <2>3. gone = {} \/ (i # 1 /\ gone \subseteq nodes)
    BY <2>2 DEF VisitGone, VisitPruned
  <2> QED BY <2>1, <2>3
<1>a. \A n : n \in A <=> \E m \in VisitBelow(M, i, new) : n \in Preds(M, m)
  OBVIOUS
<1>b. \A n : n \in B <=> \E m \in VisitAbove(M, i, new) : n \in Succs(M, m)
  OBVIOUS
<1> HIDE DEF told, gone, cut, A, B
<1>4. F \in [NodesOf(M) -> Known]
  BY <1>2, FlaggedFacts
<1>c. \A n \in NodesOf(M) : /\ SameKnown(F[n], NowKnown(M, i, new, n))
                            /\ F[n].active = NowKnown(M, i, new, n).active
                            /\ F[n].needSucc <=> NowKnown(M, i, new, n).needSucc \/ n \in A
                            /\ F[n].needPred <=> NowKnown(M, i, new, n).needPred \/ n \in B
  BY <1>2, FlaggedParts
<1> HIDE DEF F
<1> DEFINE N == [M EXCEPT !.facts = F]
           D == Detached(N, gone, cut)
<1>5. /\ IsDiagram(N) /\ NodesOf(N) = NodesOf(M)
      /\ N.side = M.side /\ N.levels = M.levels /\ N.arcs = M.arcs /\ N.facts = F
  BY <1>4, NewFactsDiagram
<1> HIDE DEF N
<1>d. RootNode(N.side) \notin gone
  BY <1>3, <1>5
<1>6. /\ \A j \in 1..Len(N.levels) : D.levels[j] = N.levels[j] \ gone
      /\ NodesOf(D) = NodesOf(N) \ gone
      /\ D.arcs = {a \in N.arcs : a \notin cut /\ a[1] \notin gone /\ a[2] \notin gone}
  BY <1>d, <1>5, DetachedDiagram
<1>7. \A n \in NodesOf(N) \ gone :
         /\ SameKnown(D.facts[n], F[n])
         /\ D.facts[n].active = F[n].active
         /\ D.facts[n].needSucc <=> \/ F[n].needSucc
                                    \/ \E a \in N.arcs \cup cut :
                                          /\ a[1] = n
                                          /\ a \in cut \/ a[1] \in gone \/ a[2] \in gone
         /\ D.facts[n].needPred <=> \/ F[n].needPred
                                    \/ \E a \in N.arcs \cup cut :
                                          /\ a[2] = n
                                          /\ a \in cut \/ a[1] \in gone \/ a[2] \in gone
  BY <1>d, <1>5, DetachedParts
<1> HIDE DEF D
<1>8. Visited(M, i, new, filtered).mdd = D
  BY <1>1 DEF D, N
<1>9. ASSUME NEW n \in NodesOf(M) \ gone
      PROVE  /\ SameKnown(D.facts[n], NowKnown(M, i, new, n))
             /\ D.facts[n].active = NowKnown(M, i, new, n).active
             /\ D.facts[n].needSucc <=>
                   \/ NowKnown(M, i, new, n).needSucc
                   \/ \E m \in VisitBelow(M, i, new) : n \in Preds(M, m)
                   \/ \E a \in M.arcs \cup cut : a[1] = n /\ (a \in cut \/ a[1] \in gone \/ a[2] \in gone)
             /\ D.facts[n].needPred <=>
                   \/ NowKnown(M, i, new, n).needPred
                   \/ \E m \in VisitAbove(M, i, new) : n \in Succs(M, m)
                   \/ \E a \in M.arcs \cup cut : a[2] = n /\ (a \in cut \/ a[1] \in gone \/ a[2] \in gone)
  <2>1. SameKnown(D.facts[n], F[n]) /\ SameKnown(F[n], NowKnown(M, i, new, n))
    BY <1>5, <1>7, <1>c
  <2>2. SameKnown(D.facts[n], NowKnown(M, i, new, n))
    BY <2>1 DEF SameKnown
  <2>3. D.facts[n].active = NowKnown(M, i, new, n).active
    BY <1>5, <1>7, <1>c
  <2>4. D.facts[n].needSucc <=>
           \/ NowKnown(M, i, new, n).needSucc
           \/ \E m \in VisitBelow(M, i, new) : n \in Preds(M, m)
           \/ \E a \in M.arcs \cup cut : a[1] = n /\ (a \in cut \/ a[1] \in gone \/ a[2] \in gone)
    BY <1>5, <1>7, <1>a, <1>c
  <2>5. D.facts[n].needPred <=>
           \/ NowKnown(M, i, new, n).needPred
           \/ \E m \in VisitAbove(M, i, new) : n \in Succs(M, m)
           \/ \E a \in M.arcs \cup cut : a[2] = n /\ (a \in cut \/ a[1] \in gone \/ a[2] \in gone)
    BY <1>5, <1>7, <1>b, <1>c
  <2> QED BY <2>2, <2>3, <2>4, <2>5
<1>10. /\ \A j \in 1..Len(M.levels) : D.levels[j] = M.levels[j] \ gone
       /\ NodesOf(D) = NodesOf(M) \ gone
       /\ D.arcs = {a \in M.arcs : a \notin cut /\ a[1] \notin gone /\ a[2] \notin gone}
  BY <1>5, <1>6
<1> QED BY <1>8, <1>9, <1>10 DEF gone, cut

(* A longest solution as a path of an MDD through the matches of W, whose  *)
(* nodes are active.                                                       *)
Way(M, q, W) ==
    /\ IsFree(M, q, opt)
    /\ \A i \in 1..(opt + 1) : MatchOf(q[i]) = W[i] /\ M.facts[q[i]].active

(* The characters of the first matches of W, behind the source.            *)
Used(W, i) == {CharacterOf(W[j]) : j \in 2..i}

(* Nothing that comes before the next match of W can dominate it: it has a *)
(* character that W has used.                                              *)
Safe(M, W) ==
    \A i \in 1..opt : \A n \in NodesOf(M) : DepthOf(n) = i - 1 /\ MatchOf(n) = W[i] =>
       \A t \in Succs(M, n) : Nearer(M.side, MatchOf(t), W[i + 1]) => Letter(t) \in Used(W, i)

Keeps(M, W) == Safe(M, W) /\ \E q : Way(M, q, W)

LEMMA UsedOnWay ==
    ASSUME opt \in Nat, NEW M, NEW q, NEW W, Way(M, q, W), NEW i \in 1..(opt + 1)
    PROVE  Passed(q, i) = Used(W, i)
<1>1. \A j \in 2..i : Letter(q[j]) = CharacterOf(W[j])
  <2> SUFFICES ASSUME NEW j \in 2..i PROVE Letter(q[j]) = CharacterOf(W[j])
    OBVIOUS
  <2>1. j \in 1..(opt + 1)
    OBVIOUS
  <2> QED BY <2>1 DEF Way, Letter
<1>2. Passed(q, i) = {Letter(q[j]) : j \in 2..i}
  BY DEF Passed, Part
<1> QED BY <1>1, <1>2 DEF Used

LEMMA SafeSmaller ==
    ASSUME NEW M, NEW N, N.side = M.side, NodesOf(N) \subseteq NodesOf(M), N.arcs \subseteq M.arcs,
           NEW W, Safe(M, W)
    PROVE  Safe(N, W)
<1>1. \A n : Succs(N, n) \subseteq Succs(M, n)
  BY DEF Succs
<1> QED BY <1>1 DEF Safe

LEMMA WayStays ==
    ASSUME NEW M, NEW N, N.side = M.side, opt \in Nat, NEW q, NEW W, Way(M, q, W),
           \A i \in 1..(opt + 1) : q[i] \in NodesOf(N) /\ N.facts[q[i]].active,
           \A i \in 1..opt : <<q[i], q[i + 1]>> \in N.arcs
    PROVE  Way(N, q, W)
  BY DEF Way, IsFree

(* What is known anew is true of the paths through a level.                *)
Teaches(M, i, new) ==
    \A k \in (lower + 1)..Sigma : \A q : IsFree(M, q, k) =>
       \A j \in 1..(k + 1) : q[j] \in M.levels[i] => Knows(new[q[j]], q, j, k)

LEMMA VisitedFine ==
    ASSUME strings \in Inputs, lower \in Nat, NEW M, IsDiagram(M), NEW i \in 1..Len(M.levels),
           NEW new \in [M.levels[i] -> Known], NEW filtered, Fine(M), Teaches(M, i, new),
           \A n \in M.levels[i] : n # RootNode(M.side) =>
              new[n].sink \subseteq M.facts[n].sink /\ (DepthOf(n) > lower => new[n].allSink = {})
    PROVE  Fine(Visited(M, i, new, filtered).mdd)
<1> DEFINE N == Visited(M, i, new, filtered).mdd
<1>1. /\ NodesOf(N) \subseteq NodesOf(M) /\ N.side = M.side /\ N.arcs \subseteq M.arcs
      /\ Len(N.levels) = Len(M.levels)
  BY VisitedDiagram DEF Smaller
<1>2. /\ \A j \in 1..Len(M.levels) : N.levels[j] \subseteq M.levels[j]
      /\ \A n \in NodesOf(N) : SameKnown(N.facts[n], NowKnown(M, i, new, n))
  BY VisitedParts
<1> HIDE DEF N
<1>3. Sound(N)
  <2> SUFFICES ASSUME NEW k \in (lower + 1)..Sigma, NEW q, IsFree(N, q, k), NEW j \in 1..(k + 1)
               PROVE  Knows(N.facts[q[j]], q, j, k)
    BY DEF Sound
  <2>1. k \in Nat
    OBVIOUS
  <2>2. IsFree(M, q, k)
    BY <2>1, <1>1, FreeInSmaller
  <2>3. Knows(M.facts[q[j]], q, j, k)
    BY <2>2 DEF Fine, Sound
  <2>4. q[j] \in M.levels[i] => Knows(new[q[j]], q, j, k)
    BY <2>2 DEF Teaches
  <2>5. Knows(NowKnown(M, i, new, q[j]), q, j, k)
    BY <2>3, <2>4 DEF NowKnown
  <2>6. q[j] \in NodesOf(N)
    BY DEF IsFree
  <2>7. SameKnown(N.facts[q[j]], NowKnown(M, i, new, q[j]))
    BY <2>6, <1>2
  <2> QED BY <2>5, <2>7 DEF Knows, Holds, SameKnown
<1>4. Local(N)
  <2> SUFFICES ASSUME NEW n \in NodesOf(N), n # RootNode(N.side)
               PROVE  Letter(n) \notin N.facts[n].sink /\ (DepthOf(n) > lower => N.facts[n].allSink = {})
    BY DEF Local
  <2>1. n \in NodesOf(M) /\ n # RootNode(M.side)
    BY <1>1
  <2>2. Letter(n) \notin M.facts[n].sink /\ (DepthOf(n) > lower => M.facts[n].allSink = {})
    BY <2>1 DEF Fine, Local
  <2>3. NowKnown(M, i, new, n).sink \subseteq M.facts[n].sink
    BY <2>1 DEF NowKnown
  <2>4. DepthOf(n) > lower => NowKnown(M, i, new, n).allSink = {}
    BY <2>1, <2>2 DEF NowKnown
  <2> QED BY <1>2, <2>2, <2>3, <2>4 DEF SameKnown
<1>5. Aligned(N)
  BY <1>1, <1>2 DEF Fine, Aligned
<1> QED BY <1>3, <1>4, <1>5 DEF Fine, N

LEMMA VisitedKeeps ==
    ASSUME strings \in Inputs, lower \in Nat, opt \in 0..Sigma, lower < opt,
           NEW M, IsDiagram(M), NEW i \in 1..Len(M.levels),
           NEW new \in [M.levels[i] -> Known], NEW filtered, filtered \subseteq M.levels[i],
           Fine(M), Teaches(M, i, new),
           \A n \in M.levels[i] : new[n].active = M.facts[n].active,
           NEW W, Keeps(M, W)
    PROVE  Keeps(Visited(M, i, new, filtered).mdd, W)
<1> DEFINE N == Visited(M, i, new, filtered).mdd
           gone == VisitGone(M, i, new)
           cut == VisitCut(M, new, filtered)
<1>1. /\ NodesOf(N) \subseteq NodesOf(M) /\ N.side = M.side /\ N.arcs \subseteq M.arcs
  BY VisitedDiagram DEF Smaller
<1>2. /\ NodesOf(N) = NodesOf(M) \ gone
      /\ N.arcs = {a \in M.arcs : a \notin cut /\ a[1] \notin gone /\ a[2] \notin gone}
      /\ \A n \in NodesOf(M) \ gone : N.facts[n].active = NowKnown(M, i, new, n).active
  BY VisitedParts
<1> HIDE DEF N
<1>3. PICK q : Way(M, q, W)
  BY DEF Keeps
<1>4. opt \in Nat /\ opt \in (lower + 1)..Sigma /\ IsFree(M, q, opt)
  BY <1>3, CharactersFinite DEF Way
<1>5. /\ \A j \in 1..(opt + 1) : q[j] \in NodesOf(M) /\ DepthOf(q[j]) = j - 1 /\ M.facts[q[j]].active
      /\ \A j \in 2..(opt + 1) : q[j] # RootNode(M.side) /\ Preds(M, q[j]) # {}
      /\ \A j \in 1..opt : <<q[j], q[j + 1]>> \in M.arcs /\ q[j + 1] \in Succs(M, q[j])
      /\ q[1] = RootNode(M.side)
  <2>1. ASSUME NEW j \in 2..(opt + 1) PROVE q[j] # RootNode(M.side) /\ Preds(M, q[j]) # {}
    <3>1. j - 1 \in 1..opt /\ (j - 1) + 1 = j
      BY <1>4
    <3>2. q[j - 1] \in Preds(M, q[(j - 1) + 1])
      BY <3>1, <1>4, PathFacts
    <3>3. q[j - 1] \in Preds(M, q[j])
      BY <3>1, <3>2
    <3>4. q[j] # RootNode(M.side)
      BY <1>4, PathFacts
    <3> QED BY <3>3, <3>4
  <2>2. \A j \in 1..(opt + 1) : q[j] \in NodesOf(M) /\ DepthOf(q[j]) = j - 1
    BY <1>4, PathFacts
  <2>3. \A j \in 1..opt : <<q[j], q[j + 1]>> \in M.arcs /\ q[j + 1] \in Succs(M, q[j])
    BY <1>4, PathFacts
  <2>4. q[1] = RootNode(M.side)
    BY <1>4, PathFacts
  <2>5. \A j \in 1..(opt + 1) : M.facts[q[j]].active
    BY <1>3 DEF Way
  <2> QED BY <2>1, <2>2, <2>3, <2>4, <2>5
<1>6. ASSUME NEW j \in 1..(opt + 1)
      PROVE  /\ IsFiniteSet(Passed(q, j)) /\ Cardinality(Passed(q, j)) = j - 1
             /\ IsFiniteSet(Coming(q, j, opt)) /\ Cardinality(Coming(q, j, opt)) = opt + 1 - j
             /\ Passed(q, j) \cap Coming(q, j, opt) = {}
             /\ Knows(M.facts[q[j]], q, j, opt)
             /\ q[j] \in M.levels[i] => Knows(new[q[j]], q, j, opt)
  <2>0. opt \in Nat /\ IsFree(M, q, opt)
    BY <1>4
  <2>1. /\ IsFiniteSet(Passed(q, j)) /\ Cardinality(Passed(q, j)) = j - 1
        /\ IsFiniteSet(Coming(q, j, opt)) /\ Cardinality(Coming(q, j, opt)) = opt + 1 - j
        /\ Passed(q, j) \cap Coming(q, j, opt) = {}
    BY <2>0, LetterCounts
  <2>2. Knows(M.facts[q[j]], q, j, opt)
    BY <1>4 DEF Fine, Sound
  <2>3. q[j] \in M.levels[i] => Knows(new[q[j]], q, j, opt)
    BY <1>4 DEF Teaches
  <2> QED BY <2>1, <2>2, <2>3
<1>7. ASSUME NEW j \in 1..(opt + 1) PROVE q[j] \notin gone
  <2> SUFFICES ASSUME q[j] \in M.levels[i] PROVE q[j] \notin VisitPruned(M, i, new)
    BY <1>5 DEF VisitGone, VisitPruned
  <2>1. CASE j = 1
    <3>0. q[1] = RootNode(M.side) /\ RootNode(M.side) \in M.levels[i]
      BY <2>1, <1>5
    <3>1. i = 1
      BY <3>0, DiagramFacts
    <3> QED BY <3>1 DEF VisitPruned
  <2>2. CASE j # 1
    <3> DEFINE n == q[j]
               P == Passed(q, j)
               C == Coming(q, j, opt)
               b == opt + 1 - j
    <3>1. /\ n \in NodesOf(M) /\ DepthOf(n) = j - 1 /\ Preds(M, n) # {}
      BY <2>2, <1>5
    <3>2. new[n] \in Known
      OBVIOUS
    <3>3. /\ IsFiniteSet(P) /\ Cardinality(P) = j - 1 /\ IsFiniteSet(C) /\ Cardinality(C) = b /\ P \cap C = {}
          /\ Holds(new[n], P, C, b)
      BY <1>6 DEF Knows
    <3>4. b \in Nat /\ (j - 1) + b > lower
      BY <1>4
    <3> HIDE DEF n, P, C, b
    <3>5. ~Prunable(M, n, new[n])
      BY <3>1, <3>2, <3>3, <3>4, WayNotPrunable
    <3> QED BY <3>5 DEF VisitPruned, n
  <2> QED BY <2>1, <2>2
<1>8. ASSUME NEW j \in 1..opt PROVE <<q[j], q[j + 1]>> \notin cut
  <2> SUFFICES ASSUME q[j] \in filtered PROVE q[j + 1] \in KeptSuccs(M, q[j], new[q[j]])
    BY DEF VisitCut
  <2> DEFINE n == q[j]
             s == q[j + 1]
             P == Passed(q, j)
             C == Coming(q, j, opt)
             b == opt + 1 - j
  <2>0. j \in 1..(opt + 1) /\ j + 1 \in 1..(opt + 1) /\ j <= opt
    BY <1>4
  <2>1. n \in NodesOf(M) /\ s \in Succs(M, n) /\ DepthOf(n) = j - 1 /\ n \in M.levels[i]
    BY <2>0, <1>5
  <2>2. new[n] \in Known
    BY <2>1
  <2>3. /\ IsFiniteSet(P) /\ Cardinality(P) = j - 1 /\ IsFiniteSet(C) /\ Cardinality(C) = b /\ P \cap C = {}
        /\ Holds(new[n], P, C, b)
    BY <1>6, <2>0, <2>1 DEF Knows
  <2>4. b \in Nat /\ (j - 1) + b > lower
    BY <1>4
  <2>5. \A c : c \in C <=> c \in Coming(q, j + 1, opt) \/ c = Letter(s)
    BY <2>0, <1>4, LetterSteps
  <2>6. Holds(M.facts[s], Passed(q, j + 1), Coming(q, j + 1, opt), opt + 1 - (j + 1))
    BY <1>6, <2>0 DEF Knows
  <2>7. /\ Letter(s) \in C /\ M.facts[s].allSink \subseteq C /\ C \subseteq M.facts[s].sink \cup {Letter(s)}
        /\ M.facts[s].ub >= opt + 1 - (j + 1)
    BY <2>5, <2>6 DEF Holds
  <2>a. opt + 1 - (j + 1) = b - 1
    BY <1>4
  <2>8. \A t \in Succs(M, n) : Nearer(M.side, MatchOf(t), MatchOf(s)) => Letter(t) \in P
    <3>1. MatchOf(n) = W[j] /\ MatchOf(s) = W[j + 1]
      BY <1>3, <2>0 DEF Way
    <3>2. P = Used(W, j)
      BY <1>3, <2>0, UsedOnWay
    <3>3. Safe(M, W)
      BY DEF Keeps
    <3> HIDE DEF n, s, P
    <3> QED BY <3>1, <3>2, <3>3, <2>1 DEF Safe
  <2>9. M.facts[s].ub >= b - 1
    BY <2>7, <2>a
  <2> HIDE DEF n, s, P, C, b
  <2>10. s \in KeptSuccs(M, n, new[n])
    BY <2>1, <2>2, <2>3, <2>4, <2>7, <2>8, <2>9, KeptOnWay
  <2> QED BY <2>10 DEF n, s
<1> HIDE DEF gone, cut
<1>9. Way(N, q, W)
  <2>1. ASSUME NEW j \in 1..(opt + 1) PROVE q[j] \in NodesOf(N) /\ N.facts[q[j]].active
    <3>1. q[j] \in NodesOf(M) \ gone /\ M.facts[q[j]].active
      BY <1>5, <1>7
    <3>2. NowKnown(M, i, new, q[j]).active = M.facts[q[j]].active
      BY DEF NowKnown
    <3> QED BY <3>1, <3>2, <1>2
  <2>2. ASSUME NEW j \in 1..opt PROVE <<q[j], q[j + 1]>> \in N.arcs
    <3>1. j \in 1..(opt + 1) /\ j + 1 \in 1..(opt + 1)
      BY <1>4
    <3>2. q[j] \notin gone /\ q[j + 1] \notin gone /\ <<q[j], q[j + 1]>> \in M.arcs
      BY <3>1, <1>5, <1>7
    <3> QED BY <3>2, <1>2, <1>8
  <2> QED BY <2>1, <2>2, <1>1, <1>3, <1>4, WayStays
<1>10. Safe(N, W)
  BY <1>1, SafeSmaller DEF Keeps
<1> QED BY <1>9, <1>10 DEF Keeps, N

(* What the nodes of a level come to know on the way down and up.          *)
DownKnown(M, i) ==
    [n \in M.levels[i] |->
        IF M.facts[n].needPred /\ Preds(M, n) # {} THEN UpdatedFromPreds(M, n) ELSE M.facts[n]]
UpKnown(M, i) ==
    [n \in M.levels[i] |-> IF M.facts[n].needSucc THEN UpdatedFromSuccs(M, n) ELSE M.facts[n]]

LEMMA DownTeaches ==
    ASSUME strings \in Inputs, lower \in Nat, NEW M, IsDiagram(M), NEW i \in 2..Len(M.levels), Sound(M)
    PROVE  Teaches(M, i, DownKnown(M, i))
<1> SUFFICES ASSUME NEW k \in (lower + 1)..Sigma, NEW q, IsFree(M, q, k), NEW j \in 1..(k + 1),
                    q[j] \in M.levels[i]
             PROVE  Knows(DownKnown(M, i)[q[j]], q, j, k)
  BY DEF Teaches
<1> DEFINE n == q[j]
           P == Passed(q, j)
           C == Coming(q, j, k)
           b == k + 1 - j
<1>1. k \in Nat
  OBVIOUS
<1>2. \A l \in 1..(k + 1) : Knows(M.facts[q[l]], q, l, k)
  BY DEF Sound
<1>3. CASE ~(M.facts[n].needPred /\ Preds(M, n) # {})
  BY <1>2, <1>3 DEF DownKnown
<1>4. CASE M.facts[n].needPred /\ Preds(M, n) # {}
  <2>1. /\ q[1] = RootNode(M.side)
        /\ n \in NodesOf(M) /\ DepthOf(n) = j - 1
    BY <1>1, PathFacts
  <2>2. n # RootNode(M.side)
    BY DiagramFacts
  <2>3. j # 1
    BY <2>1, <2>2
  <2>4. PICK l \in 1..k : j = l + 1
    <3>1. j - 1 \in 1..k /\ j = (j - 1) + 1
      BY <2>3
    <3> QED BY <3>1
  <2>5. q[l] \in Preds(M, n)
    BY <1>1, <2>4, PathFacts
  <2>6. IsFiniteSet(P) /\ Cardinality(P) = DepthOf(n) /\ P \cap C = {} /\ Letter(n) \in P
    BY <1>1, <2>1, <2>3, LetterCounts
  <2>7. Holds(M.facts[n], P, C, b)
    BY <1>2 DEF Knows
  <2>8. \A c : c \in P <=> c \in Passed(q, l) \/ c = Letter(n)
    BY <1>1, <2>4, LetterSteps
  <2>9. M.facts[q[l]].allRoot \subseteq Passed(q, l) /\ Passed(q, l) \subseteq M.facts[q[l]].toRoot
    <3>1. l \in 1..(k + 1)
      BY <2>4
    <3> QED BY <3>1, <1>2 DEF Knows, Holds
  <2>10. M.facts[q[l]].allRoot \subseteq P /\ P \subseteq M.facts[q[l]].toRoot \cup {Letter(n)}
    BY <2>8, <2>9
  <2> HIDE DEF n, P, C, b
  <2>11. Holds(UpdatedFromPreds(M, n), P, C, b)
    BY <2>1, <2>2, <2>5, <2>6, <2>7, <2>10, PredsTeach
  <2> QED BY <2>11, <1>4 DEF DownKnown, Knows, n, P, C, b
<1> QED BY <1>3, <1>4

LEMMA UpTeaches ==
    ASSUME strings \in Inputs, lower \in Nat, NEW M, IsDiagram(M), NEW i \in 1..Len(M.levels), Sound(M), Local(M)
    PROVE  Teaches(M, i, UpKnown(M, i))
<1> SUFFICES ASSUME NEW k \in (lower + 1)..Sigma, NEW q, IsFree(M, q, k), NEW j \in 1..(k + 1),
                    q[j] \in M.levels[i]
             PROVE  Knows(UpKnown(M, i)[q[j]], q, j, k)
  BY DEF Teaches
<1> DEFINE n == q[j]
           P == Passed(q, j)
           C == Coming(q, j, k)
           b == k + 1 - j
<1>1. k \in Nat
  OBVIOUS
<1>2. \A l \in 1..(k + 1) : Knows(M.facts[q[l]], q, l, k)
  BY DEF Sound
<1>3. CASE ~M.facts[n].needSucc
  BY <1>2, <1>3 DEF UpKnown
<1>4. CASE M.facts[n].needSucc
  <2>1. n \in NodesOf(M) /\ DepthOf(n) = j - 1
    BY <1>1, PathFacts
  <2>2. IsFiniteSet(C) /\ Cardinality(C) = b /\ b \in Nat
    BY <1>1, LetterCounts
  <2>3. Holds(M.facts[n], P, C, b)
    BY <1>2 DEF Knows
  <2>4. CASE j # k + 1
    <3>1. j \in 1..k /\ j + 1 \in 1..(k + 1)
      BY <2>4
    <3>2. PICK l \in 1..(k + 1) : l = j + 1
      BY <3>1
    <3>3. q[l] \in Succs(M, n)
      BY <1>1, <3>1, <3>2, PathFacts
    <3>4. \A c : c \in C <=> c \in Coming(q, l, k) \/ c = Letter(q[l])
      BY <1>1, <3>1, <3>2, LetterSteps
    <3>5. Holds(M.facts[q[l]], Passed(q, l), Coming(q, l, k), k + 1 - l)
      BY <1>2 DEF Knows
    <3>6. k + 1 - l = b - 1
      BY <3>2
    <3>7. /\ M.facts[q[l]].allSink \subseteq C /\ Letter(q[l]) \in C
          /\ C \subseteq M.facts[q[l]].sink \cup {Letter(q[l])}
      BY <3>4, <3>5 DEF Holds
    <3>8. M.facts[q[l]].ub >= b - 1
      BY <3>5, <3>6 DEF Holds
    <3> HIDE DEF n, P, C, b
    <3>9. Holds(UpdatedFromSuccs(M, n), P, C, b)
      BY <2>1, <2>2, <2>3, <3>3, <3>7, <3>8, SuccsTeach
    <3> QED BY <3>9, <1>4 DEF UpKnown, Knows, n, P, C, b
  <2>5. CASE j = k + 1
    <3>1. C = {} /\ b = 0
      <4>1. (j + 1)..(k + 1) = {}
        BY <2>5
      <4> QED BY <2>5, <4>1 DEF Coming, Part
    <3>2. lower \in Int /\ DepthOf(n) > lower
      BY <2>1, <2>5
    <3>3. ASSUME NEW s \in Succs(M, n) PROVE M.facts[s].allSink = {}
      <4>1. s \in NodesOf(M) /\ s # RootNode(M.side) /\ DepthOf(s) = DepthOf(n) + 1
        BY <2>1, DiagramFacts
      <4>2. DepthOf(s) > lower
        BY <4>1, <2>1, <2>5
      <4> QED BY <4>1, <4>2 DEF Local
    <3> HIDE DEF n, P, C, b
    <3>4. Holds(UpdatedFromSuccs(M, n), P, C, b)
      BY <2>1, <2>2, <2>3, <3>1, <3>2, <3>3, SuccsTeach
    <3> QED BY <3>4, <1>4 DEF UpKnown, Knows, n, P, C, b
  <2> QED BY <2>4, <2>5
<1> QED BY <1>3, <1>4

LEMMA DownKnownFacts ==
    ASSUME strings \in Inputs, NEW M, IsDiagram(M), NEW i \in 2..Len(M.levels), Local(M)
    PROVE  /\ DownKnown(M, i) \in [M.levels[i] -> Known]
           /\ \A n \in M.levels[i] :
                 /\ DownKnown(M, i)[n].sink \subseteq M.facts[n].sink
                 /\ DownKnown(M, i)[n].allSink = M.facts[n].allSink
                 /\ DownKnown(M, i)[n].active = M.facts[n].active
                 /\ DepthOf(n) > lower => DownKnown(M, i)[n].allSink = {}
<1> SUFFICES ASSUME NEW n \in M.levels[i]
             PROVE  /\ DownKnown(M, i)[n] \in Known
                    /\ DownKnown(M, i)[n].sink \subseteq M.facts[n].sink
                    /\ DownKnown(M, i)[n].allSink = M.facts[n].allSink
                    /\ DownKnown(M, i)[n].active = M.facts[n].active
                    /\ DepthOf(n) > lower => DownKnown(M, i)[n].allSink = {}
  BY DEF DownKnown
<1>1. n \in NodesOf(M) /\ n # RootNode(M.side)
  BY DiagramFacts
<1>2. M.facts[n] \in Known
  BY <1>1 DEF IsDiagram
<1>3. DepthOf(n) > lower => M.facts[n].allSink = {}
  BY <1>1 DEF Local
<1>4. UpdatedFromPreds(M, n) \in Known
  BY <1>1, FromPredsType
<1>5. /\ UpdatedFromPreds(M, n).sink \subseteq M.facts[n].sink
      /\ UpdatedFromPreds(M, n).allSink = M.facts[n].allSink
      /\ UpdatedFromPreds(M, n).active = M.facts[n].active
  BY <1>1, FromPredsKeeps
<1> QED BY <1>2, <1>3, <1>4, <1>5 DEF DownKnown

LEMMA UpKnownFacts ==
    ASSUME strings \in Inputs, lower \in Nat, NEW M, IsDiagram(M), NEW i \in 1..Len(M.levels), Local(M)
    PROVE  /\ UpKnown(M, i) \in [M.levels[i] -> Known]
           /\ \A n \in M.levels[i] :
                 /\ UpKnown(M, i)[n].sink \subseteq M.facts[n].sink
                 /\ UpKnown(M, i)[n].active = M.facts[n].active
                 /\ n # RootNode(M.side) /\ DepthOf(n) > lower => UpKnown(M, i)[n].allSink = {}
<1> SUFFICES ASSUME NEW n \in M.levels[i]
             PROVE  /\ UpKnown(M, i)[n] \in Known
                    /\ UpKnown(M, i)[n].sink \subseteq M.facts[n].sink
                    /\ UpKnown(M, i)[n].active = M.facts[n].active
                    /\ n # RootNode(M.side) /\ DepthOf(n) > lower => UpKnown(M, i)[n].allSink = {}
  BY DEF UpKnown
<1>1. n \in NodesOf(M)
  BY DiagramFacts
<1>2. M.facts[n] \in Known
  BY <1>1 DEF IsDiagram
<1>3. n # RootNode(M.side) /\ DepthOf(n) > lower => M.facts[n].allSink = {}
  BY <1>1 DEF Local
<1>4. UpdatedFromSuccs(M, n) \in Known
  BY <1>1, FromSuccsType
<1>5. /\ UpdatedFromSuccs(M, n).sink \subseteq M.facts[n].sink
      /\ UpdatedFromSuccs(M, n).active = M.facts[n].active
      /\ UpdatedFromSuccs(M, n).allSink = EverySucc(M, n)
  BY <1>1, FromSuccsParts
<1>6. ASSUME DepthOf(n) > lower PROVE EverySucc(M, n) = {}
  <2>1. ASSUME NEW s \in Succs(M, n) PROVE M.facts[s].allSink = {}
    <3>0. s \in NodesOf(M)
      BY <1>1, DiagramFacts
    <3>1. s # RootNode(M.side) /\ DepthOf(s) = DepthOf(n) + 1
      BY <1>1, <3>0, DiagramFacts
    <3>2. DepthOf(n) \in Int
      BY <1>1, DiagramFacts
    <3>3. DepthOf(s) > lower
      BY <3>1, <3>2, <1>6
    <3> QED BY <3>0, <3>1, <3>3 DEF Local
  <2>2. DepthOf(n) \notin 1..lower
    BY <1>6
  <2> QED BY <2>1, <2>2 DEF EverySucc, Common
<1> QED BY <1>2, <1>3, <1>4, <1>5, <1>6 DEF UpKnown

(* A visit of the filter keeps what is known true and the way of a longest *)
(* solution.                                                               *)
LEMMA DownVisitFine ==
    ASSUME strings \in Inputs, lower \in Nat, opt \in 0..Sigma, lower < opt,
           NEW M, IsDiagram(M), NEW i \in 2..Len(M.levels), Fine(M)
    PROVE  /\ Fine(DownVisit(M, i).mdd)
           /\ \A W : Keeps(M, W) => Keeps(DownVisit(M, i).mdd, W)
<1> DEFINE updating == {n \in M.levels[i] : M.facts[n].needPred /\ Preds(M, n) # {}}
           learnt == {n \in updating : [M.facts[n] EXCEPT !.needPred = FALSE] # DownKnown(M, i)[n]}
<1>1. DownVisit(M, i) = Visited(M, i, DownKnown(M, i), learnt)
  <2>1. DownKnown(M, i) = [n \in M.levels[i] |-> IF n \in updating THEN UpdatedFromPreds(M, n) ELSE M.facts[n]]
    BY DEF DownKnown
  <2> QED BY <2>1 DEF DownVisit
<1>2. Teaches(M, i, DownKnown(M, i))
  BY DownTeaches DEF Fine
<1>3. Local(M)
  BY DEF Fine
<1>4. /\ DownKnown(M, i) \in [M.levels[i] -> Known]
      /\ \A n \in M.levels[i] :
            /\ DownKnown(M, i)[n].sink \subseteq M.facts[n].sink
            /\ DownKnown(M, i)[n].active = M.facts[n].active
            /\ DepthOf(n) > lower => DownKnown(M, i)[n].allSink = {}
  BY <1>3, DownKnownFacts
<1>5. learnt \subseteq M.levels[i] /\ i \in 1..Len(M.levels)
  OBVIOUS
<1> HIDE DEF learnt
<1>6. Fine(Visited(M, i, DownKnown(M, i), learnt).mdd)
  BY <1>2, <1>4, <1>5, VisitedFine
<1>7. ASSUME NEW W, Keeps(M, W) PROVE Keeps(Visited(M, i, DownKnown(M, i), learnt).mdd, W)
  BY <1>2, <1>4, <1>5, <1>7, VisitedKeeps
<1> QED BY <1>1, <1>6, <1>7

LEMMA UpVisitFine ==
    ASSUME strings \in Inputs, lower \in Nat, opt \in 0..Sigma, lower < opt,
           NEW M, IsDiagram(M), NEW i \in 1..Len(M.levels), Fine(M)
    PROVE  /\ Fine(UpVisit(M, i).mdd)
           /\ \A W : Keeps(M, W) => Keeps(UpVisit(M, i).mdd, W)
<1> DEFINE updating == {n \in M.levels[i] : M.facts[n].needSucc}
<1>1. UpVisit(M, i) = Visited(M, i, UpKnown(M, i), updating)
  <2>1. UpKnown(M, i) = [n \in M.levels[i] |-> IF n \in updating THEN UpdatedFromSuccs(M, n) ELSE M.facts[n]]
    BY DEF UpKnown
  <2> QED BY <2>1 DEF UpVisit
<1>2. Teaches(M, i, UpKnown(M, i))
  BY UpTeaches DEF Fine
<1>3. Local(M)
  BY DEF Fine
<1>4. /\ UpKnown(M, i) \in [M.levels[i] -> Known]
      /\ \A n \in M.levels[i] :
            /\ UpKnown(M, i)[n].sink \subseteq M.facts[n].sink
            /\ UpKnown(M, i)[n].active = M.facts[n].active
            /\ n # RootNode(M.side) /\ DepthOf(n) > lower => UpKnown(M, i)[n].allSink = {}
  BY <1>3, UpKnownFacts
<1>5. updating \subseteq M.levels[i]
  OBVIOUS
<1> HIDE DEF updating
<1>6. Fine(Visited(M, i, UpKnown(M, i), updating).mdd)
  BY <1>2, <1>4, VisitedFine
<1>7. ASSUME NEW W, Keeps(M, W) PROVE Keeps(Visited(M, i, UpKnown(M, i), updating).mdd, W)
  BY <1>2, <1>4, <1>5, <1>7, VisitedKeeps
<1> QED BY <1>1, <1>6, <1>7

(* The end of a round of the filter: where the levels that stay were.      *)
LEMMA LevelPlaces ==
    ASSUME strings \in Inputs, NEW M, IsDiagram(M)
    PROVE  /\ NonEmpty(M.levels) \in Seq(SUBSET MddNodes) /\ Len(NonEmpty(M.levels)) \in 0..Len(M.levels)
           /\ \E place \in [1..Len(NonEmpty(M.levels)) -> 1..Len(M.levels)] :
                 /\ \A k \in 1..Len(NonEmpty(M.levels)) :
                       /\ NonEmpty(M.levels)[k] = M.levels[place[k]] /\ M.levels[place[k]] # {}
                 /\ \A k, l \in 1..Len(NonEmpty(M.levels)) : k < l => place[k] < place[l]
                 /\ \A i \in 1..Len(M.levels) : M.levels[i] # {} =>
                       \E k \in 1..Len(NonEmpty(M.levels)) : place[k] = i
<1> DEFINE all == M.levels
<1>1. all \in Seq(SUBSET MddNodes)
  BY DEF IsDiagram
<1> HIDE DEF all
<1>2. /\ NonEmpty(all) \in Seq(SUBSET MddNodes) /\ Len(NonEmpty(all)) \in 0..Len(all)
      /\ \E place \in [1..Len(NonEmpty(all)) -> 1..Len(all)] :
            /\ \A k \in 1..Len(NonEmpty(all)) : NonEmpty(all)[k] = all[place[k]] /\ all[place[k]] # {}
            /\ \A k, l \in 1..Len(NonEmpty(all)) : k < l => place[k] < place[l]
            /\ \A i \in 1..Len(all) : all[i] # {} => \E k \in 1..Len(NonEmpty(all)) : place[k] = i
  BY <1>1, NonEmptyFacts, Zenon
<1> USE DEF all
<1> QED BY <1>2

(* The first levels stay where they are if none of them is empty.          *)
Increasing(place, l) == \A j, k \in 1..l : j < k => place[j] < place[k]
Reaches(place, l, c) == \A i \in 1..c : \E k \in 1..l : place[k] = i

LEMMA FirstPlaces ==
    ASSUME NEW l \in Nat, NEW m \in Nat, NEW c \in Nat, NEW place \in [1..l -> 1..m],
           Increasing(place, l), Reaches(place, l, c)
    PROVE  c <= l /\ \A k \in 1..c : place[k] = k
<1> USE DEF Increasing, Reaches
<1>1. \A k \in 1..c : k \in 1..l /\ place[k] = k
  <2> DEFINE T == {k \in 1..c : ~(k \in 1..l /\ place[k] = k)}
  <2> SUFFICES ASSUME T # {} PROVE FALSE
    OBVIOUS
  <2>1. T \subseteq Nat
    OBVIOUS
  <2>2. PICK k \in T : \A j \in T : k <= j
    <3> HIDE DEF T
    <3> QED BY <2>1, LeastNumber
  <2>3. k \in 1..c /\ ~(k \in 1..l /\ place[k] = k)
    OBVIOUS
  <2> HIDE DEF T
  <2>4. \A j \in 1..c : j < k => j \in 1..l /\ place[j] = j
    BY <2>2, <2>3 DEF T
  <2>5. PICK h \in 1..l : place[h] = k
    BY <2>3
  <2>6. h >= k
    BY <2>3, <2>4, <2>5
  <2>7. k \in 1..l /\ h > k
    BY <2>3, <2>5, <2>6
  <2>8. place[k] < k /\ place[k] \in 1..m
    BY <2>5, <2>7
  <2>9. place[k] \in 1..c /\ place[k] \in 1..l
    <3>1. k \in Int /\ k <= c /\ k <= l
      BY <2>3, <2>7
    <3>2. place[k] \in Int /\ place[k] >= 1
      BY <2>8
    <3> QED BY <3>1, <3>2, <2>8
  <2>10. place[place[k]] = place[k]
    BY <2>4, <2>8, <2>9
  <2>11. place[place[k]] < place[k]
    BY <2>7, <2>8, <2>9
  <2> QED BY <2>8, <2>10, <2>11
<1>2. c <= l
  <2>1. CASE c = 0
    BY <2>1
  <2>2. CASE c # 0
    <3>1. c \in 1..c
      BY <2>2
    <3> QED BY <3>1, <1>1
  <2> QED BY <2>1, <2>2
<1> QED BY <1>1, <1>2

CutNodes(M, u) == UNION {NonEmpty(M.levels)[i] : i \in (u + 2)..Len(NonEmpty(M.levels))}

LEMMA CutOffIs ==
    ASSUME strings \in Inputs, NEW M, IsDiagram(M), NEW u \in Nat, u + 1 <= Len(NonEmpty(M.levels)),
           NEW N, N = CutOff(M, u), NEW D, D = Detached(M, CutNodes(M, u), {})
    PROVE  /\ RootNode(M.side) \notin CutNodes(M, u)
           /\ IsDiagram(D) /\ IsDiagram(N) /\ N.side = M.side
           /\ NodesOf(D) = NodesOf(M) \ CutNodes(M, u) /\ NodesOf(N) = NodesOf(D)
           /\ N.arcs = D.arcs /\ N.facts = D.facts
           /\ \A k \in 1..(u + 1) : N.levels[k] = NonEmpty(M.levels)[k]
<1> DEFINE levels == NonEmpty(M.levels)
           gone == CutNodes(M, u)
           short == SubSeq(levels, 1, u + 1)
<1>1. /\ levels \in Seq(SUBSET MddNodes) /\ Len(levels) \in 0..Len(M.levels)
      /\ \E place \in [1..Len(levels) -> 1..Len(M.levels)] :
            /\ \A k \in 1..Len(levels) : levels[k] = M.levels[place[k]] /\ M.levels[place[k]] # {}
            /\ \A k, l \in 1..Len(levels) : k < l => place[k] < place[l]
            /\ \A i \in 1..Len(M.levels) : M.levels[i] # {} => \E k \in 1..Len(levels) : place[k] = i
  BY LevelPlaces, Zenon
<1> HIDE DEF levels
<1>2. PICK place \in [1..Len(levels) -> 1..Len(M.levels)] :
            /\ \A k \in 1..Len(levels) : levels[k] = M.levels[place[k]] /\ M.levels[place[k]] # {}
            /\ \A k, l \in 1..Len(levels) : k < l => place[k] < place[l]
            /\ \A i \in 1..Len(M.levels) : M.levels[i] # {} => \E k \in 1..Len(levels) : place[k] = i
  BY <1>1
<1>3. Len(levels) \in Nat /\ u + 1 <= Len(levels) /\ Len(M.levels) \in Nat
  BY <1>1, DiagramFacts DEF levels
<1>4. gone = UNION {levels[k] : k \in (u + 2)..Len(levels)}
  BY DEF CutNodes, levels
<1> HIDE DEF gone
<1>5. RootNode(M.side) \notin gone
  <2> SUFFICES ASSUME NEW k \in (u + 2)..Len(levels), RootNode(M.side) \in levels[k] PROVE FALSE
    BY <1>4
  <2>1. k \in 1..Len(levels) /\ 1 \in 1..Len(levels) /\ 1 < k
    BY <1>3
  <2>2. place[k] \in 1..Len(M.levels) /\ place[1] \in 1..Len(M.levels) /\ place[1] < place[k]
    BY <1>2, <2>1
  <2>3. place[k] \in 2..Len(M.levels) /\ levels[k] = M.levels[place[k]]
    BY <1>2, <1>3, <2>1, <2>2
  <2> QED BY <2>3, DiagramFacts
<1>6. D = Detached(M, gone, {})
  BY DEF gone
<1>7. IsDiagram(D) /\ NodesOf(D) = NodesOf(M) \ gone /\ D.side = M.side
  BY <1>5, <1>6, DetachedDiagram
<1>8. N = [D EXCEPT !.levels = short]
  BY DEF CutOff, CutNodes, levels
<1>9. IsDiagram(N) /\ N.side = M.side
  BY CutOffDiagram DEF Smaller
<1>10. N.levels = short /\ N.arcs = D.arcs /\ N.facts = D.facts
  <2>1. D = [side |-> D.side, levels |-> D.levels, arcs |-> D.arcs, facts |-> D.facts]
    BY <1>7 DEF IsDiagram
  <2> HIDE DEF short
  <2> QED BY <2>1, <1>8
<1>11. \A k \in 1..(u + 1) : short[k] = levels[k]
  BY <1>1, <1>3
<1>12. NodesOf(N) = NodesOf(D)
  BY <1>7, <1>9, <1>10 DEF IsDiagram
<1> QED BY <1>5, <1>7, <1>9, <1>10, <1>11, <1>12 DEF gone, levels

LEMMA CutOffParts ==
    ASSUME strings \in Inputs, NEW M, IsDiagram(M), NEW u \in Nat, u + 1 <= Len(NonEmpty(M.levels))
    PROVE  LET N == CutOff(M, u)
           IN  /\ \A k \in 1..(u + 1) : N.levels[k] = NonEmpty(M.levels)[k]
               /\ NodesOf(N) = NodesOf(M) \ CutNodes(M, u)
               /\ N.arcs = {a \in M.arcs : a[1] \notin CutNodes(M, u) /\ a[2] \notin CutNodes(M, u)}
               /\ \A n \in NodesOf(N) : SameKnown(N.facts[n], M.facts[n]) /\ N.facts[n].active = M.facts[n].active
<1> DEFINE gone == CutNodes(M, u)
           D == Detached(M, gone, {})
           N == CutOff(M, u)
<1>1. N = CutOff(M, u) /\ D = Detached(M, gone, {}) /\ gone = CutNodes(M, u)
  OBVIOUS
<1> HIDE DEF gone, N, D
<1>6. /\ RootNode(M.side) \notin gone
      /\ NodesOf(D) = NodesOf(M) \ gone /\ NodesOf(N) = NodesOf(D)
      /\ N.arcs = D.arcs /\ N.facts = D.facts
      /\ \A k \in 1..(u + 1) : N.levels[k] = NonEmpty(M.levels)[k]
  BY <1>1, CutOffIs
<1>2. D.arcs = {a \in M.arcs : a \notin {} /\ a[1] \notin gone /\ a[2] \notin gone}
  BY <1>1, <1>6, DetachedDiagram
<1>3. \A n \in NodesOf(M) \ gone : SameKnown(D.facts[n], M.facts[n]) /\ D.facts[n].active = M.facts[n].active
  BY <1>1, <1>6, DetachedParts
<1>4. N.arcs = {a \in M.arcs : a[1] \notin gone /\ a[2] \notin gone}
  BY <1>6, <1>2
<1>5. \A n \in NodesOf(N) : SameKnown(N.facts[n], M.facts[n]) /\ N.facts[n].active = M.facts[n].active
  BY <1>6, <1>3
<1> QED BY <1>6, <1>4, <1>5 DEF N, gone

(* The parts of Fine that do not depend on where the levels are.           *)
LEMMA SmallerSound ==
    ASSUME strings \in Inputs, lower \in Nat, NEW M, Fine(M), NEW N, Smaller(N, M),
           \A n \in NodesOf(N) : SameKnown(N.facts[n], M.facts[n])
    PROVE  Sound(N) /\ Local(N)
<1>1. Sound(N)
  <2> SUFFICES ASSUME NEW k \in (lower + 1)..Sigma, NEW q, IsFree(N, q, k), NEW i \in 1..(k + 1)
               PROVE  Knows(N.facts[q[i]], q, i, k)
    BY DEF Sound
  <2>1. k \in Nat
    OBVIOUS
  <2>2. IsFree(M, q, k)
    BY <2>1, FreeInSmaller DEF Smaller
  <2>3. Knows(M.facts[q[i]], q, i, k)
    BY <2>2 DEF Fine, Sound
  <2>4. q[i] \in NodesOf(N)
    BY DEF IsFree
  <2> QED BY <2>3, <2>4 DEF Knows, Holds, SameKnown
<1>2. Local(N)
  BY DEF Fine, Local, Smaller, SameKnown
<1> QED BY <1>1, <1>2

(* A way of a longest solution is on the first levels.                     *)
LEMMA WayLevels ==
    ASSUME strings \in Inputs, opt \in Nat, NEW M, IsDiagram(M), Aligned(M), NEW q, NEW W, Way(M, q, W),
           NEW i \in 1..(opt + 1)
    PROVE  /\ i \in 1..Len(M.levels) /\ q[i] \in M.levels[i]
           /\ q[i] \in NodesOf(M) /\ DepthOf(q[i]) = i - 1
<1>1. q[i] \in NodesOf(M) /\ DepthOf(q[i]) = i - 1
  BY PathFacts DEF Way
<1>2. PICK j \in 1..Len(M.levels) : q[i] \in M.levels[j]
  BY <1>1 DEF NodesOf
<1>3. j = i
  BY <1>1, <1>2 DEF Aligned
<1> QED BY <1>1, <1>2, <1>3

LEMMA FirstLevelsStay ==
    ASSUME strings \in Inputs, opt \in Nat, NEW M, IsDiagram(M), Aligned(M), NEW W, Keeps(M, W)
    PROVE  /\ opt + 1 <= Len(NonEmpty(M.levels))
           /\ \A k \in 1..Len(NonEmpty(M.levels)) :
                 \A n \in NonEmpty(M.levels)[k] : DepthOf(n) <= opt => k = DepthOf(n) + 1
<1> DEFINE levels == NonEmpty(M.levels)
<1>1. PICK q : Way(M, q, W)
  BY DEF Keeps
<1>2. /\ levels \in Seq(SUBSET MddNodes) /\ Len(levels) \in 0..Len(M.levels)
      /\ \E place \in [1..Len(levels) -> 1..Len(M.levels)] :
            /\ \A k \in 1..Len(levels) : levels[k] = M.levels[place[k]] /\ M.levels[place[k]] # {}
            /\ \A k, l \in 1..Len(levels) : k < l => place[k] < place[l]
            /\ \A i \in 1..Len(M.levels) : M.levels[i] # {} => \E k \in 1..Len(levels) : place[k] = i
  BY LevelPlaces, Zenon
<1> HIDE DEF levels
<1>3. PICK place \in [1..Len(levels) -> 1..Len(M.levels)] :
            /\ \A k \in 1..Len(levels) : levels[k] = M.levels[place[k]] /\ M.levels[place[k]] # {}
            /\ \A k, l \in 1..Len(levels) : k < l => place[k] < place[l]
            /\ \A i \in 1..Len(M.levels) : M.levels[i] # {} => \E k \in 1..Len(levels) : place[k] = i
  BY <1>2
<1>4. Len(M.levels) \in Nat /\ Len(levels) \in Nat
  BY <1>2, DiagramFacts
<1>5. \A i \in 1..(opt + 1) : \E k \in 1..Len(levels) : place[k] = i
  <2> SUFFICES ASSUME NEW i \in 1..(opt + 1) PROVE \E k \in 1..Len(levels) : place[k] = i
    OBVIOUS
  <2>1. i \in 1..Len(M.levels) /\ q[i] \in M.levels[i]
    BY <1>1, WayLevels
  <2> QED BY <2>1, <1>3
<1>6. opt + 1 \in Nat
  OBVIOUS
<1>7. opt + 1 <= Len(levels) /\ \A k \in 1..(opt + 1) : k \in 1..Len(levels) /\ place[k] = k
  <2> DEFINE c == opt + 1
             l == Len(levels)
             m == Len(M.levels)
  <2>1. l \in Nat /\ m \in Nat /\ c \in Nat /\ place \in [1..l -> 1..m]
    BY <1>3, <1>4, <1>6
  <2>2. Increasing(place, l) /\ Reaches(place, l, c)
    BY <1>3, <1>5 DEF Increasing, Reaches
  <2> HIDE DEF c, l, m
  <2>3. c <= l /\ \A k \in 1..c : place[k] = k
    BY <2>1, <2>2, FirstPlaces
  <2>4. \A k \in 1..c : k \in 1..l
    BY <2>1, <2>3
  <2> QED BY <2>3, <2>4 DEF c, l
<1>8. ASSUME NEW k \in 1..Len(levels), NEW n \in levels[k], DepthOf(n) <= opt PROVE k = DepthOf(n) + 1
  <2>1. place[k] \in 1..Len(M.levels) /\ n \in M.levels[place[k]]
    BY <1>3
  <2>2. place[k] = DepthOf(n) + 1
    BY <2>1, <1>8 DEF Aligned
  <2>3. n \in NodesOf(M)
    BY <2>1, DiagramFacts
  <2>4. DepthOf(n) \in Nat
    BY <2>3, DiagramFacts, CharactersFinite
  <2>5. place[k] \in 1..(opt + 1)
    BY <2>2, <2>4, <1>8
  <2>6. place[k] \in 1..Len(levels) /\ place[place[k]] = place[k]
    BY <2>5, <1>7
  <2>7. ~(k < place[k]) /\ ~(place[k] < k)
    BY <2>6, <1>3
  <2> QED BY <2>2, <2>6, <2>7
<1> QED BY <1>7, <1>8 DEF levels

LEMMA CutOffFine ==
    ASSUME strings \in Inputs, lower \in Nat, opt \in Nat, NEW M, IsDiagram(M), Fine(M), NEW V, Keeps(M, V),
           NEW u \in Nat, opt <= u, u + 1 <= Len(NonEmpty(M.levels))
    PROVE  /\ Fine(CutOff(M, u))
           /\ \A W : Keeps(M, W) => Keeps(CutOff(M, u), W)
<1> DEFINE N == CutOff(M, u)
           gone == CutNodes(M, u)
<1>1. Aligned(M)
  BY DEF Fine
<1>2. /\ opt + 1 <= Len(NonEmpty(M.levels))
      /\ \A k \in 1..Len(NonEmpty(M.levels)) :
            \A n \in NonEmpty(M.levels)[k] : DepthOf(n) <= opt => k = DepthOf(n) + 1
  BY <1>1, FirstLevelsStay
<1>3. IsDiagram(N) /\ Smaller(N, M) /\ Len(N.levels) = u + 1
  BY CutOffDiagram
<1>4. /\ \A k \in 1..(u + 1) : N.levels[k] = NonEmpty(M.levels)[k]
      /\ NodesOf(N) = NodesOf(M) \ gone
      /\ N.arcs = {a \in M.arcs : a[1] \notin gone /\ a[2] \notin gone}
      /\ \A n \in NodesOf(N) : SameKnown(N.facts[n], M.facts[n]) /\ N.facts[n].active = M.facts[n].active
  BY CutOffParts
<1>5. Len(NonEmpty(M.levels)) \in Nat
  BY LevelPlaces, DiagramFacts
<1> HIDE DEF N
<1>6. Sound(N) /\ Local(N)
  BY <1>3, <1>4, SmallerSound
<1>7. Aligned(N)
  <2> SUFFICES ASSUME NEW k \in 1..(u + 1), NEW n \in N.levels[k], DepthOf(n) <= opt
               PROVE  k = DepthOf(n) + 1
    BY <1>3 DEF Aligned
  <2>1. k \in 1..Len(NonEmpty(M.levels)) /\ n \in NonEmpty(M.levels)[k]
    BY <1>4, <1>5
  <2> QED BY <2>1, <1>2
<1>8. ASSUME NEW W, Keeps(M, W) PROVE Keeps(N, W)
  <2>1. PICK q : Way(M, q, W)
    BY <1>8 DEF Keeps
  <2>2. ASSUME NEW i \in 1..(opt + 1) PROVE q[i] \notin gone
    <3> SUFFICES ASSUME NEW k \in (u + 2)..Len(NonEmpty(M.levels)), q[i] \in NonEmpty(M.levels)[k]
                 PROVE  FALSE
      BY DEF CutNodes
    <3>1. k \in 1..Len(NonEmpty(M.levels))
      BY <1>5
    <3>2. DepthOf(q[i]) = i - 1
      BY <1>1, <2>1, WayLevels
    <3>3. k = i
      BY <1>2, <3>1, <3>2
    <3> QED BY <3>3, <1>5
  <2>3. \A i \in 1..(opt + 1) : q[i] \in NodesOf(M) /\ M.facts[q[i]].active
    BY <1>1, <2>1, WayLevels DEF Way
  <2>4. \A i \in 1..(opt + 1) : q[i] \in NodesOf(N) /\ N.facts[q[i]].active
    BY <2>2, <2>3, <1>4
  <2>5. ASSUME NEW i \in 1..opt PROVE <<q[i], q[i + 1]>> \in N.arcs
    <3>1. i \in 1..(opt + 1) /\ i + 1 \in 1..(opt + 1)
      OBVIOUS
    <3>2. <<q[i], q[i + 1]>> \in M.arcs
      BY <2>1 DEF Way, IsFree
    <3>3. q[i] \notin gone /\ q[i + 1] \notin gone
      BY <3>1, <2>2
    <3> QED BY <3>2, <3>3, <1>4
  <2>6. Way(N, q, W)
    BY <2>1, <2>4, <2>5, <1>3, WayStays DEF Smaller
  <2>7. Safe(N, W)
    BY <1>3, <1>8, SafeSmaller DEF Keeps, Smaller
  <2> QED BY <2>6, <2>7 DEF Keeps
<1> QED BY <1>6, <1>7, <1>8 DEF Fine, N

LEMMA BoundStaysValid ==
    ASSUME strings \in Inputs, lower \in Nat, opt \in 0..Sigma, lower < opt, NEW M, IsDiagram(M), Fine(M),
           NEW W, Keeps(M, W), upper \in 0..Sigma, upper >= opt
    PROVE  BoundBy(M) >= opt
<1>1. opt \in Nat /\ opt \in (lower + 1)..Sigma /\ Aligned(M)
  BY CharactersFinite DEF Fine
<1>2. PICK q : Way(M, q, W)
  BY DEF Keeps
<1>3. opt + 1 <= Len(NonEmpty(M.levels)) /\ Len(NonEmpty(M.levels)) \in Nat
  <2>1. opt + 1 <= Len(NonEmpty(M.levels))
    BY <1>1, FirstLevelsStay
  <2> QED BY <2>1, LevelPlaces, DiagramFacts
<1>4. M.facts[RootNode(M.side)].ub >= opt /\ M.facts[RootNode(M.side)].ub \in Int
  <2>1. IsFree(M, q, opt)
    BY <1>2 DEF Way
  <2>2. 1 \in 1..(opt + 1) /\ q[1] = RootNode(M.side)
    BY <2>1, <1>1 DEF IsFree
  <2>3. Knows(M.facts[q[1]], q, 1, opt)
    BY <2>1, <2>2, <1>1 DEF Fine, Sound
  <2>4. M.facts[RootNode(M.side)] \in Known
    BY DiagramFacts DEF IsDiagram
  <2> QED BY <2>2, <2>3, <2>4, <1>1 DEF Knows, Holds, Known
<1>5. upper \in Int /\ Len(NonEmpty(M.levels)) - 1 \in Int
  BY <1>3
<1> DEFINE a == upper
           b == Len(NonEmpty(M.levels)) - 1
           c == M.facts[RootNode(M.side)].ub
<1>6. a \in Int /\ b \in Int /\ c \in Int /\ a >= opt /\ b >= opt /\ c >= opt
  BY <1>3, <1>4, <1>5
<1>7. BoundBy(M) = Min({a, b, c})
  BY DEF BoundBy
<1> HIDE DEF a, b, c
<1>8. Min({a, b, c}) \in {a, b, c}
  BY <1>6, MinOfThree
<1> QED BY <1>6, <1>7, <1>8

(* A copy knows what the MDD knows.                                        *)
LEMMA CopyParts ==
    ASSUME strings \in Inputs, NEW M, IsDiagram(M)
    PROVE  \A n \in NodesOf(M) :
              /\ SameKnown(CopyOf(M).facts[n], M.facts[n]) /\ CopyOf(M).facts[n].active
              /\ ~CopyOf(M).facts[n].needSucc /\ ~CopyOf(M).facts[n].needPred
<1> DEFINE F == [n \in DOMAIN M.facts |->
                   [M.facts[n] EXCEPT !.needPred = FALSE, !.needSucc = FALSE, !.active = TRUE]]
<1>1. DOMAIN M.facts = NodesOf(M) /\ \A n \in NodesOf(M) : M.facts[n] \in Known
  BY DEF IsDiagram
<1>2. CopyOf(M) = [M EXCEPT !.facts = F]
  BY DEF CopyOf
<1>3. \A n \in NodesOf(M) : /\ SameKnown(F[n], M.facts[n]) /\ F[n].active
                            /\ ~F[n].needSucc /\ ~F[n].needPred
  BY <1>1 DEF Known, SameKnown
<1>4. M = [side |-> M.side, levels |-> M.levels, arcs |-> M.arcs, facts |-> M.facts]
  BY DEF IsDiagram
<1> HIDE DEF F
<1>5. CopyOf(M).facts = F
  BY <1>2, <1>4
<1> QED BY <1>3, <1>5

LEMMA CopyFine ==
    ASSUME strings \in Inputs, lower \in Nat, opt \in Nat, NEW M, IsDiagram(M), Fine(M)
    PROVE  /\ Fine(CopyOf(M))
           /\ \A W : Keeps(M, W) => Keeps(CopyOf(M), W)
<1> DEFINE N == CopyOf(M)
<1>1. /\ IsDiagram(N) /\ N.side = M.side /\ N.levels = M.levels
      /\ NodesOf(N) = NodesOf(M) /\ N.arcs = M.arcs
  BY CopyDiagram
<1>2. \A n \in NodesOf(M) : SameKnown(N.facts[n], M.facts[n]) /\ N.facts[n].active
  BY CopyParts
<1> HIDE DEF N
<1>3. Smaller(N, M)
  BY <1>1, DiagramFacts DEF Smaller
<1>4. Fine(N)
  <2>1. \A i \in 1..Len(N.levels) : N.levels[i] \subseteq M.levels[i]
    BY <1>1
  <2>2. \A n \in NodesOf(N) : SameKnown(N.facts[n], M.facts[n])
    BY <1>1, <1>2
  <2> QED BY <1>1, <1>3, <2>1, <2>2, SmallerFine
<1>5. ASSUME NEW W, Keeps(M, W) PROVE Keeps(N, W)
  <2>1. PICK q : Way(M, q, W)
    BY <1>5 DEF Keeps
  <2>2. IsFree(N, q, opt)
    BY <2>1, <1>1 DEF Way, IsFree
  <2>3. \A i \in 1..(opt + 1) : MatchOf(q[i]) = W[i] /\ N.facts[q[i]].active
    BY <2>1, <1>2 DEF Way, IsFree
  <2>4. Safe(N, W)
    BY <1>1, <1>5, SafeSmaller DEF Keeps
  <2> QED BY <2>2, <2>3, <2>4 DEF Keeps, Way
<1> QED BY <1>4, <1>5 DEF N

(* What the flags of a layout leave of an MDD.                             *)
FlatGone(M, flat) ==
    {n \in NodesOf(M) : ~(DepthOf(n) < Len(flat) /\ MatchOf(n) \in flat[DepthOf(n) + 1].matches)}

LEMMA PrunedParts ==
    ASSUME strings \in Inputs, NEW M, IsDiagram(M), NEW flat, Len(flat) > 0, Source(M.side) \in flat[1].matches
    PROVE  LET N == PrunedByFlat(M, flat)
           IN  /\ IsDiagram(N) /\ Smaller(N, M) /\ Len(N.levels) = Len(M.levels)
               /\ NodesOf(N) = NodesOf(M) \ FlatGone(M, flat)
               /\ \A n, s : <<n, s>> \in N.arcs <=>
                     /\ <<n, s>> \in M.arcs /\ n \notin FlatGone(M, flat) /\ s \notin FlatGone(M, flat)
                     /\ <<MatchOf(n), MatchOf(s)>> \in flat[DepthOf(n) + 1].arcs
               /\ \A n \in NodesOf(N) : SameKnown(N.facts[n], M.facts[n]) /\ N.facts[n].active = M.facts[n].active
               /\ \A i \in 1..Len(M.levels) : N.levels[i] \subseteq M.levels[i]
<1> DEFINE matches(k) == IF k < Len(flat) THEN flat[k + 1].matches ELSE {}
           gone == {n \in DOMAIN M.facts : MatchOf(n) \notin matches(DepthOf(n))}
           cut == {a \in M.arcs : a[1] \notin gone
                                  => <<MatchOf(a[1]), MatchOf(a[2])>> \notin flat[DepthOf(a[1]) + 1].arcs}
           N == PrunedByFlat(M, flat)
<1>1. N = Detached(M, gone, cut)
  BY DEF PrunedByFlat
<1>2. gone = FlatGone(M, flat)
  BY DiagramFacts DEF FlatGone
<1>3. RootNode(M.side) \notin gone
  <2>1. MatchOf(RootNode(M.side)) = Source(M.side) /\ DepthOf(RootNode(M.side)) = 0
    BY DEF MatchOf, DepthOf, RootNode
  <2> QED BY <2>1
<1>4. \A a \in M.arcs : a \in cut <=> (a[1] \notin gone
                                  => <<MatchOf(a[1]), MatchOf(a[2])>> \notin flat[DepthOf(a[1]) + 1].arcs)
  OBVIOUS
<1> HIDE DEF gone, cut, N
<1>5. /\ IsDiagram(N) /\ N.side = M.side /\ Len(N.levels) = Len(M.levels)
      /\ NodesOf(N) = NodesOf(M) \ gone
      /\ N.arcs = {a \in M.arcs : a \notin cut /\ a[1] \notin gone /\ a[2] \notin gone}
      /\ \A i \in 1..Len(M.levels) : N.levels[i] = M.levels[i] \ gone
  BY <1>1, <1>3, DetachedDiagram
<1>6. \A n \in NodesOf(M) \ gone : SameKnown(N.facts[n], M.facts[n]) /\ N.facts[n].active = M.facts[n].active
  BY <1>1, <1>3, DetachedParts
<1>7. Smaller(N, M)
  BY <1>5, DiagramFacts DEF Smaller
<1>8. ASSUME NEW n, NEW s
      PROVE  <<n, s>> \in N.arcs <=>
                     /\ <<n, s>> \in M.arcs /\ n \notin gone /\ s \notin gone
                     /\ <<MatchOf(n), MatchOf(s)>> \in flat[DepthOf(n) + 1].arcs
  BY <1>4, <1>5
<1>9. \A i \in 1..Len(M.levels) : N.levels[i] \subseteq M.levels[i]
  BY <1>5
<1> QED BY <1>2, <1>5, <1>6, <1>7, <1>8, <1>9 DEF N

LEMMA PrunedFine ==
    ASSUME strings \in Inputs, lower \in Nat, NEW M, IsDiagram(M), Fine(M),
           NEW flat, Len(flat) > 0, Source(M.side) \in flat[1].matches
    PROVE  Fine(PrunedByFlat(M, flat))
<1> DEFINE N == PrunedByFlat(M, flat)
<1>1. /\ IsDiagram(N) /\ Smaller(N, M) /\ Len(N.levels) = Len(M.levels)
      /\ \A n \in NodesOf(N) : SameKnown(N.facts[n], M.facts[n])
      /\ \A i \in 1..Len(M.levels) : N.levels[i] \subseteq M.levels[i]
  BY PrunedParts
<1> HIDE DEF N
<1>2. Fine(N)
  BY <1>1, SmallerFine
<1> QED BY <1>2 DEF N

(* A layout has the way through the matches of W.                          *)
FlatHas(flat, W) ==
    /\ Len(flat) >= opt + 1
    /\ \A i \in 1..(opt + 1) : W[i] \in flat[i].matches
    /\ \A i \in 1..opt : <<W[i], W[i + 1]>> \in flat[i].arcs

LEMMA PrunedWay ==
    ASSUME strings \in Inputs, opt \in Nat, NEW M, IsDiagram(M), NEW q, NEW W, Way(M, q, W),
           NEW flat, Len(flat) > 0, Source(M.side) \in flat[1].matches
    PROVE  Len(flat) \in Nat => (FlatHas(flat, W) <=> Way(PrunedByFlat(M, flat), q, W))
<1> DEFINE N == PrunedByFlat(M, flat)
<1>1. /\ IsDiagram(N) /\ Smaller(N, M) /\ Len(N.levels) = Len(M.levels)
      /\ NodesOf(N) = NodesOf(M) \ FlatGone(M, flat)
      /\ \A n, s : <<n, s>> \in N.arcs <=>
            /\ <<n, s>> \in M.arcs /\ n \notin FlatGone(M, flat) /\ s \notin FlatGone(M, flat)
            /\ <<MatchOf(n), MatchOf(s)>> \in flat[DepthOf(n) + 1].arcs
      /\ \A n \in NodesOf(N) : N.facts[n].active = M.facts[n].active
  BY PrunedParts
<1> HIDE DEF N
<1>2. \A i \in 1..(opt + 1) : /\ q[i] \in NodesOf(M) /\ DepthOf(q[i]) = i - 1
                              /\ MatchOf(q[i]) = W[i] /\ M.facts[q[i]].active
  <2>1. IsFree(M, q, opt) /\ \A i \in 1..(opt + 1) : MatchOf(q[i]) = W[i] /\ M.facts[q[i]].active
    BY DEF Way
  <2>2. \A i \in 1..(opt + 1) : q[i] \in NodesOf(M) /\ DepthOf(q[i]) = i - 1
    BY <2>1, PathFacts
  <2> QED BY <2>1, <2>2
<1>3. \A i \in 1..opt : <<q[i], q[i + 1]>> \in M.arcs
  BY DEF Way, IsFree
<1>4. ASSUME NEW i \in 1..(opt + 1), Len(flat) \in Nat
      PROVE  q[i] \notin FlatGone(M, flat) <=> i <= Len(flat) /\ W[i] \in flat[i].matches
  <2>1. (i - 1) + 1 = i /\ (i - 1 < Len(flat) <=> i <= Len(flat))
    BY <1>4
  <2>2. DepthOf(q[i]) + 1 = i /\ (DepthOf(q[i]) < Len(flat) <=> i <= Len(flat))
    BY <2>1, <1>2
  <2> QED BY <2>2, <1>2 DEF FlatGone
<1>5. ASSUME NEW i \in 1..opt
      PROVE  i \in 1..(opt + 1) /\ i + 1 \in 1..(opt + 1) /\ DepthOf(q[i]) + 1 = i
             /\ MatchOf(q[i]) = W[i] /\ MatchOf(q[i + 1]) = W[i + 1]
  <2>1. i \in 1..(opt + 1) /\ i + 1 \in 1..(opt + 1) /\ (i - 1) + 1 = i
    OBVIOUS
  <2> QED BY <2>1, <1>2
<1>6. ASSUME FlatHas(flat, W), Len(flat) \in Nat PROVE Way(N, q, W)
  <2>1. ASSUME NEW i \in 1..(opt + 1) PROVE q[i] \notin FlatGone(M, flat)
    <3>1. i <= Len(flat) /\ W[i] \in flat[i].matches
      BY <1>6 DEF FlatHas
    <3> QED BY <3>1, <1>4, <1>6
  <2>2. \A i \in 1..(opt + 1) : q[i] \in NodesOf(N) /\ N.facts[q[i]].active
    BY <2>1, <1>1, <1>2
  <2>3. ASSUME NEW i \in 1..opt PROVE <<q[i], q[i + 1]>> \in N.arcs
    <3>1. <<MatchOf(q[i]), MatchOf(q[i + 1])>> \in flat[DepthOf(q[i]) + 1].arcs
      BY <1>5, <1>6 DEF FlatHas
    <3> QED BY <3>1, <2>1, <1>1, <1>3, <1>5
  <2> QED BY <2>2, <2>3, <1>1, WayStays DEF Smaller
<1>7. ASSUME Way(N, q, W), Len(flat) \in Nat PROVE FlatHas(flat, W)
  <2>1. ASSUME NEW i \in 1..(opt + 1) PROVE i <= Len(flat) /\ W[i] \in flat[i].matches
    <3>1. q[i] \in NodesOf(N)
      BY <1>7 DEF Way, IsFree
    <3> QED BY <3>1, <1>1, <1>4, <1>7
  <2>2. ASSUME NEW i \in 1..opt PROVE <<W[i], W[i + 1]>> \in flat[i].arcs
    <3>1. <<q[i], q[i + 1]>> \in N.arcs
      BY <1>7 DEF Way, IsFree
    <3> QED BY <3>1, <1>1, <1>5
  <2>3. opt + 1 <= Len(flat)
    BY <2>1, <1>7
  <2> QED BY <2>1, <2>2, <2>3, <1>7 DEF FlatHas
<1> QED BY <1>6, <1>7 DEF N

LEMMA PrunedKeeps ==
    ASSUME strings \in Inputs, opt \in Nat, NEW M, IsDiagram(M), NEW W, Keeps(M, W),
           NEW flat, Len(flat) \in Nat, Len(flat) > 0, Source(M.side) \in flat[1].matches, FlatHas(flat, W)
    PROVE  Keeps(PrunedByFlat(M, flat), W)
<1>1. PICK q : Way(M, q, W)
  BY DEF Keeps
<1>2. Way(PrunedByFlat(M, flat), q, W)
  BY <1>1, PrunedWay
<1>3. Smaller(PrunedByFlat(M, flat), M)
  BY PrunedParts
<1>4. Safe(PrunedByFlat(M, flat), W)
  BY <1>3, SafeSmaller DEF Keeps, Smaller
<1> QED BY <1>2, <1>4 DEF Keeps

(* A path of what is left of an MDD is a way of the MDD.                   *)
LEMMA WayInLarger ==
    ASSUME opt \in Nat, NEW M, NEW N, N.side = M.side, NodesOf(N) \subseteq NodesOf(M), N.arcs \subseteq M.arcs,
           NEW q, NEW W, Way(N, q, W), \A n \in NodesOf(N) : N.facts[n].active => M.facts[n].active
    PROVE  Way(M, q, W)
<1>1. IsFree(N, q, opt) /\ \A i \in 1..(opt + 1) : MatchOf(q[i]) = W[i] /\ N.facts[q[i]].active
  BY DEF Way
<1>2. IsFree(M, q, opt)
  BY <1>1, FreeInSmaller
<1>3. \A i \in 1..(opt + 1) : q[i] \in NodesOf(N)
  BY <1>1 DEF IsFree
<1> QED BY <1>1, <1>2, <1>3 DEF Way

LEMMA PrunedHas ==
    ASSUME strings \in Inputs, opt \in Nat, NEW M, IsDiagram(M), NEW W, NEW flat, Len(flat) \in Nat,
           Len(flat) > 0, Source(M.side) \in flat[1].matches, NEW q, Way(PrunedByFlat(M, flat), q, W)
    PROVE  FlatHas(flat, W) /\ Way(M, q, W)
<1> DEFINE N == PrunedByFlat(M, flat)
<1>1. Smaller(N, M) /\ \A n \in NodesOf(N) : N.facts[n].active = M.facts[n].active
  BY PrunedParts
<1>2. Way(N, q, W)
  OBVIOUS
<1> HIDE DEF N
<1>3. Way(M, q, W)
  BY <1>1, <1>2, WayInLarger DEF Smaller
<1>4. FlatHas(flat, W) <=> Way(PrunedByFlat(M, flat), q, W)
  BY <1>3, PrunedWay
<1> QED BY <1>3, <1>4

LEMMA CopyPrunedKeeps ==
    ASSUME strings \in Inputs, opt \in Nat, NEW M, IsDiagram(M), NEW W, NEW flat, Len(flat) \in Nat,
           Len(flat) > 0, Source(M.side) \in flat[1].matches, Keeps(PrunedByFlat(M, flat), W)
    PROVE  Keeps(PrunedByFlat(CopyOf(M), flat), W)
<1> DEFINE C == CopyOf(M)
           N == PrunedByFlat(M, flat)
           K == PrunedByFlat(C, flat)
<1>1. PICK q : Way(N, q, W)
  BY DEF Keeps
<1>2. FlatHas(flat, W) /\ Way(M, q, W)
  BY <1>1, PrunedHas
<1>3. IsDiagram(C) /\ C.side = M.side /\ NodesOf(C) = NodesOf(M) /\ C.arcs = M.arcs
  BY CopyDiagram
<1>4. \A n \in NodesOf(M) : C.facts[n].active
  BY CopyParts
<1>5. /\ Smaller(N, M) /\ NodesOf(N) = NodesOf(M) \ FlatGone(M, flat)
      /\ \A n, s : <<n, s>> \in N.arcs <=>
            /\ <<n, s>> \in M.arcs /\ n \notin FlatGone(M, flat) /\ s \notin FlatGone(M, flat)
            /\ <<MatchOf(n), MatchOf(s)>> \in flat[DepthOf(n) + 1].arcs
  BY PrunedParts
<1> HIDE DEF C
<1>6. /\ IsDiagram(K) /\ Smaller(K, C) /\ NodesOf(K) = NodesOf(C) \ FlatGone(C, flat)
      /\ \A n, s : <<n, s>> \in K.arcs <=>
            /\ <<n, s>> \in C.arcs /\ n \notin FlatGone(C, flat) /\ s \notin FlatGone(C, flat)
            /\ <<MatchOf(n), MatchOf(s)>> \in flat[DepthOf(n) + 1].arcs
  BY <1>3, PrunedParts
<1>7. Way(C, q, W)
  <2>1. IsFree(M, q, opt) /\ \A i \in 1..(opt + 1) : MatchOf(q[i]) = W[i] /\ q[i] \in NodesOf(M)
    BY <1>2 DEF Way, IsFree
  <2>2. IsFree(C, q, opt)
    BY <2>1, <1>3 DEF IsFree
  <2> QED BY <2>1, <2>2, <1>4 DEF Way
<1>8. Way(K, q, W)
  <2>1. FlatHas(flat, W) <=> Way(K, q, W)
    BY <1>3, <1>7, PrunedWay
  <2> QED BY <2>1, <1>2
<1>9. Safe(K, W)
  <2>1. FlatGone(C, flat) = FlatGone(M, flat)
    BY <1>3 DEF FlatGone
  <2>2. NodesOf(K) = NodesOf(N) /\ K.side = N.side
    BY <1>3, <1>5, <1>6, <2>1 DEF Smaller
  <2>3. \A a \in K.arcs : a = <<a[1], a[2]>>
    BY <1>6 DEF IsDiagram
  <2>4. ASSUME NEW a \in K.arcs PROVE a \in N.arcs
    <3>1. <<a[1], a[2]>> \in K.arcs
      BY <2>3
    <3>2. <<a[1], a[2]>> \in N.arcs
      BY <3>1, <2>1, <1>3, <1>5, <1>6
    <3> QED BY <3>2, <2>3
  <2>5. Safe(N, W)
    BY DEF Keeps
  <2> HIDE DEF K, N
  <2> QED BY <2>2, <2>4, <2>5, SafeSmaller
<1> QED BY <1>8, <1>9 DEF Keeps, C

(* The layout of an MDD.                                                   *)
LEMMA LaidParts ==
    ASSUME strings \in Inputs, NEW M, IsDiagram(M)
    PROVE  /\ Len(Laid(M)) = Len(M.levels)
           /\ \A i \in 1..Len(M.levels) :
                 /\ \A m : m \in Laid(M)[i].matches <=> \E n \in M.levels[i] : MatchOf(n) = m
                 /\ \A m, s : <<m, s>> \in Laid(M)[i].arcs <=>
                       \E a \in M.arcs : a[1] \in M.levels[i] /\ MatchOf(a[1]) = m /\ MatchOf(a[2]) = s
           /\ Source(M.side) \in Laid(M)[1].matches
<1>1. DOMAIN M.levels = 1..Len(M.levels) /\ Len(M.levels) \in Nat \ {0}
  BY DiagramFacts
<1> DEFINE matches(i) == {MatchOf(n) : n \in M.levels[i]}
           arcs(i) == {<<MatchOf(a[1]), MatchOf(a[2])>> : a \in {b \in M.arcs : b[1] \in M.levels[i]}}
<1>2. Laid(M) = [i \in 1..Len(M.levels) |-> [matches |-> matches(i), arcs |-> arcs(i)]]
  BY <1>1 DEF Laid
<1>3. Len(Laid(M)) = Len(M.levels)
  <2> DEFINE entry(i) == [matches |-> matches(i), arcs |-> arcs(i)]
  <2>1. Laid(M) = [i \in 1..Len(M.levels) |-> entry(i)]
    BY <1>2
  <2> HIDE DEF entry
  <2>2. DOMAIN Laid(M) = 1..Len(M.levels) /\ Laid(M) \in Seq({entry(i) : i \in 1..Len(M.levels)})
    BY <2>1, <1>1
  <2> QED BY <2>2, <1>1
<1>4. \A i \in 1..Len(M.levels) : Laid(M)[i].matches = matches(i) /\ Laid(M)[i].arcs = arcs(i)
  <2> HIDE DEF matches, arcs
  <2> QED BY <1>2
<1>5. ASSUME NEW i \in 1..Len(M.levels)
      PROVE  /\ \A m : m \in Laid(M)[i].matches <=> \E n \in M.levels[i] : MatchOf(n) = m
             /\ \A m, s : <<m, s>> \in Laid(M)[i].arcs <=>
                   \E a \in M.arcs : a[1] \in M.levels[i] /\ MatchOf(a[1]) = m /\ MatchOf(a[2]) = s
  BY <1>4
<1>6. Source(M.side) \in Laid(M)[1].matches
  <2>1. 1 \in 1..Len(M.levels) /\ RootNode(M.side) \in M.levels[1] /\ MatchOf(RootNode(M.side)) = Source(M.side)
    BY <1>1 DEF IsDiagram, MatchOf, RootNode
  <2> QED BY <2>1, <1>5
<1> QED BY <1>3, <1>5, <1>6

LEMMA LaidHas ==
    ASSUME strings \in Inputs, opt \in Nat, NEW M, IsDiagram(M), Aligned(M), NEW q, NEW W, Way(M, q, W)
    PROVE  FlatHas(Laid(M), W)
<1>1. \A i \in 1..(opt + 1) : i \in 1..Len(M.levels) /\ q[i] \in M.levels[i] /\ MatchOf(q[i]) = W[i]
  BY WayLevels DEF Way
<1>2. /\ Len(Laid(M)) = Len(M.levels) /\ Len(M.levels) \in Nat
      /\ \A i \in 1..Len(M.levels) :
            /\ \A m : m \in Laid(M)[i].matches <=> \E n \in M.levels[i] : MatchOf(n) = m
            /\ \A m, s : <<m, s>> \in Laid(M)[i].arcs <=>
                  \E a \in M.arcs : a[1] \in M.levels[i] /\ MatchOf(a[1]) = m /\ MatchOf(a[2]) = s
  BY LaidParts, DiagramFacts
<1>3. opt + 1 <= Len(M.levels)
  <2>1. opt + 1 \in 1..(opt + 1)
    OBVIOUS
  <2> QED BY <2>1, <1>1
<1>4. \A i \in 1..(opt + 1) : W[i] \in Laid(M)[i].matches
  BY <1>1, <1>2
<1>5. ASSUME NEW i \in 1..opt PROVE <<W[i], W[i + 1]>> \in Laid(M)[i].arcs
  <2>1. i \in 1..(opt + 1) /\ i + 1 \in 1..(opt + 1)
    OBVIOUS
  <2> DEFINE a == <<q[i], q[i + 1]>>
  <2>2. a \in M.arcs /\ a[1] = q[i] /\ a[2] = q[i + 1]
    BY DEF Way, IsFree
  <2>3. a[1] \in M.levels[i] /\ MatchOf(a[1]) = W[i] /\ MatchOf(a[2]) = W[i + 1]
    BY <2>1, <2>2, <1>1
  <2> HIDE DEF a
  <2> QED BY <2>1, <2>2, <2>3, <1>1, <1>2
<1> QED BY <1>2, <1>3, <1>4, <1>5 DEF FlatHas

(* All nodes of the MDD of the main process are active.                    *)
AllActive(M) == \A n \in NodesOf(M) : M.facts[n].active

(* What the parent makes of the layout of an MDD within its own.           *)
LEMMA ParentWay ==
    ASSUME strings \in Inputs, opt \in Nat, NEW P, IsDiagram(P), AllActive(P), NEW M, IsDiagram(M), Within(M, P),
           NEW q, NEW W, Way(M, q, W)
    PROVE  \E r : Way(P, r, W)
<1> DEFINE r == [i \in 1..(opt + 1) |-> Unsplit(q[i])]
<1>1. IsFree(M, q, opt) /\ \A i \in 1..(opt + 1) : MatchOf(q[i]) = W[i] /\ q[i] \in NodesOf(M)
  BY DEF Way, IsFree
<1>2. \A i \in 1..(opt + 1) : MatchOf(r[i]) = MatchOf(q[i]) /\ Letter(r[i]) = Letter(q[i]) /\ r[i] \in NodesOf(P)
  BY <1>1 DEF Unsplit, MatchOf, Letter, Within
<1>3. r[1] = RootNode(P.side)
  <2>1. q[1] = RootNode(M.side)
    BY <1>1 DEF IsFree
  <2>2. r[1] = Unsplit(q[1])
    OBVIOUS
  <2> QED BY <2>1, <2>2 DEF Unsplit, RootNode, Within
<1>4. ASSUME NEW i \in 1..opt PROVE <<r[i], r[i + 1]>> \in P.arcs
  <2>1. i \in 1..(opt + 1) /\ i + 1 \in 1..(opt + 1)
    OBVIOUS
  <2> DEFINE a == <<q[i], q[i + 1]>>
  <2>2. a \in M.arcs /\ a[1] = q[i] /\ a[2] = q[i + 1]
    BY <1>1 DEF IsFree
  <2>3. <<Unsplit(a[1]), Unsplit(a[2])>> \in P.arcs
    BY <2>2 DEF Within
  <2> QED BY <2>1, <2>2, <2>3
<1>5. \A i, j \in 2..(opt + 1) : Letter(r[i]) = Letter(r[j]) => i = j
  <2> SUFFICES ASSUME NEW i \in 2..(opt + 1), NEW j \in 2..(opt + 1), Letter(r[i]) = Letter(r[j]) PROVE i = j
    OBVIOUS
  <2>1. i \in 1..(opt + 1) /\ j \in 1..(opt + 1)
    OBVIOUS
  <2>2. Letter(q[i]) = Letter(q[j])
    BY <2>1, <1>2
  <2> QED BY <2>2, <1>1 DEF IsFree
<1>6. r \in [1..(opt + 1) -> NodesOf(P)]
  BY <1>2
<1> HIDE DEF r
<1>7. IsFree(P, r, opt)
  BY <1>3, <1>4, <1>5, <1>6 DEF IsFree
<1>8. \A i \in 1..(opt + 1) : MatchOf(r[i]) = W[i] /\ P.facts[r[i]].active
  BY <1>1, <1>2 DEF AllActive
<1> QED BY <1>7, <1>8 DEF Way

(* Nothing in a layout for the direction d that comes before the next      *)
(* match of W can dominate it.                                             *)
FlatSafe(flat, d, W) ==
    \A i \in 1..opt : \A s : <<W[i], s>> \in flat[i].arcs /\ Nearer(d, s, W[i + 1]) => CharacterOf(s) \in Used(W, i)

LEMMA LaidSafe ==
    ASSUME strings \in Inputs, opt \in Nat, NEW M, IsDiagram(M), Aligned(M), NEW W, Keeps(M, W)
    PROVE  FlatSafe(Laid(M), M.side, W)
<1> SUFFICES ASSUME NEW i \in 1..opt, NEW s, <<W[i], s>> \in Laid(M)[i].arcs, Nearer(M.side, s, W[i + 1])
             PROVE  CharacterOf(s) \in Used(W, i)
  BY DEF FlatSafe
<1>1. PICK q : Way(M, q, W)
  BY DEF Keeps
<1>2. i \in 1..(opt + 1)
  OBVIOUS
<1>3. i \in 1..Len(M.levels) /\ q[i] \in M.levels[i] /\ q[i] \in NodesOf(M) /\ DepthOf(q[i]) = i - 1
  BY <1>1, <1>2, WayLevels
<1>4. PICK a \in M.arcs : a[1] \in M.levels[i] /\ MatchOf(a[1]) = W[i] /\ MatchOf(a[2]) = s
  BY <1>3, LaidParts
<1>5. a = <<a[1], a[2]>> /\ a[1] \in NodesOf(M)
  BY <1>4 DEF IsDiagram
<1>6. DepthOf(a[1]) = i - 1
  <2>1. /\ ~(DepthOf(a[1]) < DepthOf(q[i])) /\ ~(DepthOf(q[i]) < DepthOf(a[1]))
    BY <1>3, <1>4 DEF IsDiagram
  <2>2. DepthOf(a[1]) \in Int
    BY <1>5, DiagramFacts
  <2> QED BY <1>3, <2>1, <2>2
<1>7. a[2] \in Succs(M, a[1])
  BY <1>5 DEF Succs
<1>8. Letter(a[2]) \in Used(W, i)
  BY <1>4, <1>5, <1>6, <1>7 DEF Keeps, Safe
<1> QED BY <1>4, <1>8 DEF Letter

LEMMA PrunedByFlatKeeps ==
    ASSUME strings \in Inputs, opt \in Nat, NEW P, IsDiagram(P), NEW W, NEW r, Way(P, r, W),
           NEW flat, Len(flat) \in Nat, Len(flat) > 0, Source(P.side) \in flat[1].matches,
           FlatHas(flat, W), FlatSafe(flat, P.side, W)
    PROVE  Keeps(PrunedByFlat(P, flat), W)
<1> DEFINE N == PrunedByFlat(P, flat)
<1>1. Way(N, r, W)
  BY PrunedWay
<1>2. /\ IsDiagram(N) /\ Smaller(N, P)
      /\ \A n, s : <<n, s>> \in N.arcs => <<MatchOf(n), MatchOf(s)>> \in flat[DepthOf(n) + 1].arcs
  BY PrunedParts
<1> HIDE DEF N
<1>3. Safe(N, W)
  <2> SUFFICES ASSUME NEW i \in 1..opt, NEW n \in NodesOf(N), DepthOf(n) = i - 1, MatchOf(n) = W[i],
                      NEW t \in Succs(N, n), Nearer(N.side, MatchOf(t), W[i + 1])
               PROVE  Letter(t) \in Used(W, i)
    BY DEF Safe
  <2>1. <<n, t>> \in N.arcs
    BY <1>2 DEF Succs, IsDiagram
  <2>2. DepthOf(n) + 1 = i
    OBVIOUS
  <2>3. <<W[i], MatchOf(t)>> \in flat[i].arcs
    BY <2>1, <2>2, <1>2
  <2> QED BY <2>3, <1>2 DEF FlatSafe, Smaller, Letter
<1> QED BY <1>1, <1>3 DEF Keeps, N

(* The flags that are still set.                                           *)
LEMMA StillParts ==
    ASSUME strings \in Inputs, NEW M, IsDiagram(M), NEW flat
    PROVE  LET g == StillInFlat(flat, M)
           IN  /\ Len(g) = Len(Laid(M)) /\ Len(g) \in Nat /\ Len(g) = Len(M.levels)
               /\ \A i \in 1..Len(M.levels) :
                     /\ \A m : m \in g[i].matches <=> m \in flat[i].matches /\ m \in Laid(M)[i].matches
                     /\ \A a : a \in g[i].arcs <=> a \in flat[i].arcs /\ a \in Laid(M)[i].arcs
<1>1. DOMAIN M.levels = 1..Len(M.levels) /\ Len(M.levels) \in Nat
  BY DiagramFacts
<1>2. Len(Laid(M)) = Len(M.levels)
  BY LaidParts
<1>3. DOMAIN Laid(M) = 1..Len(M.levels)
  BY <1>1 DEF Laid
<1> DEFINE now == Laid(M)
           entry(i) == [matches |-> flat[i].matches \cap now[i].matches, arcs |-> flat[i].arcs \cap now[i].arcs]
           g == StillInFlat(flat, M)
<1>4. g = [i \in 1..Len(M.levels) |-> entry(i)]
  BY <1>3 DEF StillInFlat
<1>5. Len(g) = Len(M.levels)
  <2> HIDE DEF entry, g
  <2>1. DOMAIN g = 1..Len(M.levels) /\ g \in Seq({entry(i) : i \in 1..Len(M.levels)})
    BY <1>1, <1>4
  <2> QED BY <2>1, <1>1
<1>6. \A i \in 1..Len(M.levels) : g[i] = entry(i)
  <2> HIDE DEF entry, g
  <2> QED BY <1>4
<1> HIDE DEF g
<1>7. \A i \in 1..Len(M.levels) : /\ g[i].matches = flat[i].matches \cap now[i].matches
                                  /\ g[i].arcs = flat[i].arcs \cap now[i].arcs
  <2> SUFFICES ASSUME NEW i \in 1..Len(M.levels)
               PROVE  /\ g[i].matches = flat[i].matches \cap now[i].matches
                      /\ g[i].arcs = flat[i].arcs \cap now[i].arcs
    OBVIOUS
  <2> DEFINE A == flat[i].matches \cap now[i].matches
             B == flat[i].arcs \cap now[i].arcs
  <2>1. g[i] = [matches |-> A, arcs |-> B]
    BY <1>6
  <2>2. g[i].matches = A /\ g[i].arcs = B
    <3> HIDE DEF A, B
    <3> QED BY <2>1
  <2> QED BY <2>2
<1>8. ASSUME NEW i \in 1..Len(M.levels)
      PROVE  /\ \A m : m \in g[i].matches <=> m \in flat[i].matches /\ m \in Laid(M)[i].matches
             /\ \A a : a \in g[i].arcs <=> a \in flat[i].arcs /\ a \in Laid(M)[i].arcs
  BY <1>7
<1> QED BY <1>1, <1>2, <1>5, <1>8 DEF g

LEMMA StillHas ==
    ASSUME strings \in Inputs, opt \in Nat, NEW M, IsDiagram(M), NEW flat, NEW W,
           FlatHas(flat, W), FlatHas(Laid(M), W), NEW d, FlatSafe(Laid(M), d, W)
    PROVE  FlatHas(StillInFlat(flat, M), W) /\ FlatSafe(StillInFlat(flat, M), d, W)
<1> DEFINE g == StillInFlat(flat, M)
<1>1. /\ Len(g) = Len(Laid(M)) /\ Len(g) \in Nat /\ Len(g) = Len(M.levels)
      /\ \A i \in 1..Len(M.levels) :
            /\ \A m : m \in g[i].matches <=> m \in flat[i].matches /\ m \in Laid(M)[i].matches
            /\ \A a : a \in g[i].arcs <=> a \in flat[i].arcs /\ a \in Laid(M)[i].arcs
  BY StillParts
<1> HIDE DEF g
<1>2. Len(g) >= opt + 1 /\ \A i \in 1..(opt + 1) : i \in 1..Len(M.levels)
  BY <1>1 DEF FlatHas
<1>3. \A i \in 1..(opt + 1) : W[i] \in g[i].matches
  BY <1>1, <1>2 DEF FlatHas
<1>4. ASSUME NEW i \in 1..opt
      PROVE  <<W[i], W[i + 1]>> \in g[i].arcs /\ \A a : a \in g[i].arcs => a \in Laid(M)[i].arcs
  <2>1. i \in 1..(opt + 1)
    OBVIOUS
  <2> QED BY <2>1, <1>1, <1>2 DEF FlatHas
<1>5. FlatHas(g, W)
  BY <1>2, <1>3, <1>4 DEF FlatHas
<1>6. FlatSafe(g, d, W)
  BY <1>4 DEF FlatSafe
<1> QED BY <1>5, <1>6 DEF g

(* Matches W[2], W[3], ... in order, k of them with different characters,  *)
(* behind the source W[1].                                                 *)
Thread(d, k, W) ==
    /\ W \in [1..(k + 1) -> Nodes] /\ W[1] = Source(d)
    /\ \A i \in 2..(k + 1) : W[i] \in Inner
    /\ \A i, j \in 2..(k + 1) : i < j => Before(d, W[i], W[j])
    /\ \A i, j \in 2..(k + 1) : CharacterOf(W[i]) = CharacterOf(W[j]) => i = j

OptIsLongest == opt = Max({Len(w) : w \in Solutions(strings)})

LEMMA ThreadOrder ==
    ASSUME strings \in Inputs, NEW d \in Directions, NEW k \in Nat, NEW W, Thread(d, k, W),
           NEW i \in 1..(k + 1), NEW j \in 1..(k + 1), i < j
    PROVE  Before(d, W[i], W[j])
<1>1. j \in 2..(k + 1) /\ W[j] \in Inner
  BY DEF Thread
<1>2. CASE i = 1
  BY <1>1, <1>2, EndsFacts DEF Thread
<1>3. CASE i # 1
  BY <1>1, <1>3 DEF Thread
<1> QED BY <1>2, <1>3

(* There is no thread longer than the longest solution.                    *)
LEMMA ThreadLength ==
    ASSUME strings \in Inputs, OptIsLongest, NEW d \in Directions, NEW k \in Nat, NEW W, Thread(d, k, W)
    PROVE  k <= opt
<1> DEFINE e == [i \in 1..k |-> IF d = "forward" THEN W[i + 1] ELSE W[k + 2 - i]]
           w == [i \in 1..k |-> CharacterOf(e[i])]
           S == {Len(v) : v \in Solutions(strings)}
<1>1. \A i \in 1..k : /\ i + 1 \in 2..(k + 1) /\ k + 2 - i \in 2..(k + 1)
                      /\ e[i] = W[i + 1] \/ e[i] = W[k + 2 - i]
                      /\ d = "forward" => e[i] = W[i + 1]
                      /\ d # "forward" => e[i] = W[k + 2 - i]
  OBVIOUS
<1>2. e \in [1..k -> Inner]
  <2>1. \A i \in 1..k : e[i] \in Inner
    BY <1>1 DEF Thread
  <2> QED BY <2>1
<1>3. w \in Seq(Characters) /\ Len(w) = k /\ \A i \in 1..k : w[i] = CharacterOf(e[i])
  <2>1. \A i \in 1..k : CharacterOf(e[i]) \in Characters
    BY <1>2, InnerFacts
  <2> QED BY <2>1
<1>4. \A i, j \in 1..k : i < j => Before("forward", e[i], e[j])
  <2> SUFFICES ASSUME NEW i \in 1..k, NEW j \in 1..k, i < j PROVE Before("forward", e[i], e[j])
    OBVIOUS
  <2>1. CASE d = "forward"
    BY <2>1, <1>1 DEF Thread
  <2>2. CASE d # "forward"
    <3>1. Opposite(d) = "forward" /\ "forward" \in Directions
      BY <2>2 DEF Opposite, Directions
    <3>2. k + 2 - j < k + 2 - i
      OBVIOUS
    <3>3. Before(d, e[j], e[i])
      BY <2>2, <3>2, <1>1 DEF Thread
    <3>4. e[i] \in Nodes /\ e[j] \in Nodes
      BY <1>2, InnerFacts
    <3> HIDE DEF e
    <3> QED BY <3>1, <3>3, <3>4, BeforeFacts
  <2> QED BY <2>1, <2>2
<1>5. Distinct(w)
  <2> SUFFICES ASSUME NEW i \in 1..k, NEW j \in 1..k, CharacterOf(e[i]) = CharacterOf(e[j]) PROVE i = j
    BY <1>3 DEF Distinct
  <2>1. CASE d = "forward"
    <3>1. i + 1 = j + 1
      BY <2>1, <1>1 DEF Thread
    <3> QED BY <3>1
  <2>2. CASE d # "forward"
    <3>1. k + 2 - i = k + 2 - j
      BY <2>2, <1>1 DEF Thread
    <3> QED BY <3>1
  <2> QED BY <2>1, <2>2
<1> HIDE DEF w, e
<1>6. w \in Solutions(strings)
  BY <1>2, <1>3, <1>4, <1>5, ThreadIsSolution
<1>7. k \in S
  BY <1>3, <1>6
<1>8. S \subseteq Int /\ S # {} /\ Sigma \in Int /\ \A x \in S : x <= Sigma
  <2>1. Sigma \in Nat
    BY CharactersFinite
  <2>2. \A v \in Solutions(strings) : Len(v) \in 0..Sigma
    BY SolutionFacts
  <2> QED BY <1>7, <2>1, <2>2
<1> HIDE DEF S
<1>9. \A x \in S : x <= Max(S)
  BY <1>8, MaxOfBounded
<1> QED BY <1>7, <1>9 DEF OptIsLongest, S

(* The matches of a path without repetitions.                              *)
LEMMA PathThread ==
    ASSUME strings \in Inputs, NEW M, IsDiagram(M), NEW k \in Nat, NEW q, IsFree(M, q, k)
    PROVE  Thread(M.side, k, [i \in 1..(k + 1) |-> MatchOf(q[i])])
<1> DEFINE W == [i \in 1..(k + 1) |-> MatchOf(q[i])]
           d == M.side
<1>1. d \in Directions
  BY DEF IsDiagram
<1>2. /\ \A i \in 2..(k + 1) : W[i] \in Inner /\ Letter(q[i]) = CharacterOf(W[i])
      /\ \A i \in 1..k : W[i + 1] \in SuccessorMatches(d, W[i])
      /\ W[1] = Source(d)
  <2>1. \A i \in 2..(k + 1) : W[i] = MatchOf(q[i]) /\ MatchOf(q[i]) \in Inner
    <3>1. \A i \in 2..(k + 1) : MatchOf(q[i]) \in Inner
      BY PathFacts
    <3>2. \A i \in 2..(k + 1) : W[i] = MatchOf(q[i])
      OBVIOUS
    <3> QED BY <3>1, <3>2
  <2>2. \A i \in 1..k : MatchOf(q[i + 1]) \in SuccessorMatches(d, MatchOf(q[i]))
    BY PathFacts
  <2>3. \A i \in 1..k : W[i] = MatchOf(q[i]) /\ W[i + 1] = MatchOf(q[i + 1])
    OBVIOUS
  <2>4. W[1] = MatchOf(q[1])
    OBVIOUS
  <2>5. MatchOf(RootNode(d)) = Source(d)
    BY DEF MatchOf, RootNode
  <2> QED BY <2>1, <2>2, <2>3, <2>4, <2>5, PathFacts DEF Letter
<1>3. \A i \in 1..(k + 1) : W[i] \in Nodes
  <2> SUFFICES ASSUME NEW i \in 1..(k + 1) PROVE W[i] \in Nodes
    OBVIOUS
  <2> HIDE DEF W
  <2>1. CASE i = 1
    BY <2>1, <1>1, <1>2, DirectionFacts
  <2>2. CASE i # 1
    <3>1. i \in 2..(k + 1)
      BY <2>2
    <3> QED BY <3>1, <1>2 DEF Nodes
  <2> QED BY <2>1, <2>2
<1> HIDE DEF W
<1>4. \A i, j \in 2..(k + 1) : i < j => Before(d, W[i], W[j])
  <2> SUFFICES ASSUME NEW i \in 2..(k + 1), {j \in 2..(k + 1) : i < j /\ ~Before(d, W[i], W[j])} # {}
               PROVE  FALSE
    OBVIOUS
  <2> DEFINE T == {j \in 2..(k + 1) : i < j /\ ~Before(d, W[i], W[j])}
  <2>1. PICK j \in T : \A x \in T : j <= x
    <3>1. T \subseteq Nat /\ T # {}
      OBVIOUS
    <3> HIDE DEF T
    <3> QED BY <3>1, LeastNumber
  <2>2. PICK l \in 2..(k + 1) : j = l + 1
    <3>1. j - 1 \in 2..(k + 1) /\ j = (j - 1) + 1
      BY <2>1
    <3> QED BY <3>1
  <2>3. l \in 1..k
    BY <2>1, <2>2
  <2>4. W[j] \in SuccessorMatches(d, W[l]) /\ W[l] \in Nodes /\ W[i] \in Nodes /\ W[j] \in Nodes
    BY <1>2, <1>3, <2>1, <2>2, <2>3
  <2>5. Before(d, W[l], W[j])
    BY <1>1, <2>4, SuccessorFacts
  <2>6. i = l \/ Before(d, W[i], W[l])
    <3>1. l \notin T
      BY <2>1, <2>2
    <3> QED BY <3>1, <2>1, <2>2
  <2>7. Before(d, W[i], W[j])
    BY <1>1, <2>4, <2>5, <2>6, BeforeTransitive
  <2> QED BY <2>1, <2>7
<1>5. \A i, j \in 2..(k + 1) : CharacterOf(W[i]) = CharacterOf(W[j]) => i = j
  BY <1>2 DEF IsFree
<1>6. W \in [1..(k + 1) -> Nodes]
  BY <1>3 DEF W
<1> QED BY <1>2, <1>4, <1>5, <1>6 DEF Thread, W

(* t in the place e of a thread, and what g says in the other ones.        *)
Insertion(W, n, e, t, g) == [k \in 1..(n + 1) |-> IF k = e THEN t ELSE W[g[k]]]
Rises(n, e, l, g) ==
    /\ g \in [1..(n + 1) -> 1..(l + 1)] /\ g[1] = 1
    /\ \A k \in 2..(n + 1) : k # e => g[k] \in 2..(l + 1)
    /\ \A k \in 2..(n + 1) : k < e => g[k] < e
    /\ \A k \in 2..(n + 1) : k > e => g[k] >= e
    /\ \A k, j \in 2..(n + 1) : k < j /\ k # e /\ j # e => g[k] < g[j]

LEMMA InsertionIsThread ==
    ASSUME strings \in Inputs, NEW d \in Directions, NEW l \in Nat, NEW n \in Nat, NEW W,
           NEW i \in 1..n, NEW e, NEW t, NEW g,
           Thread(d, l, W), e = i + 1, i <= l, Rises(n, e, l, g), t \in Inner, Before(d, W[i], t),
           e <= l + 1 => NotAfter(d, t, W[e]),
           \A k \in 2..(n + 1) : k # e => CharacterOf(W[g[k]]) # CharacterOf(t)
    PROVE  Thread(d, n, Insertion(W, n, e, t, g))
<1> DEFINE V == Insertion(W, n, e, t, g)
<1>1. e \in 2..(n + 1) /\ e \in 2..(l + 1) /\ i \in 1..(l + 1)
  OBVIOUS
<1>2. V[e] = t /\ \A k \in 1..(n + 1) : k # e => V[k] = W[g[k]]
  BY <1>1 DEF Insertion
<1>3. V[1] = Source(d)
  <2>1. V[1] = W[1]
    BY <1>1, <1>2 DEF Rises
  <2> QED BY <2>1 DEF Thread
<1>4. \A k \in 2..(n + 1) : V[k] \in Inner
  <2> SUFFICES ASSUME NEW k \in 2..(n + 1) PROVE V[k] \in Inner
    OBVIOUS
  <2>1. CASE k = e
    BY <2>1, <1>2
  <2>2. CASE k # e
    BY <2>2, <1>2 DEF Thread, Rises
  <2> QED BY <2>1, <2>2
<1>5. V \in [1..(n + 1) -> Nodes]
  <2>1. ASSUME NEW k \in 1..(n + 1) PROVE V[k] \in Nodes
    <3>1. CASE k = 1
      BY <3>1, <1>3, DirectionFacts
    <3>2. CASE k # 1
      <4>1. k \in 2..(n + 1)
        BY <3>2
      <4> QED BY <4>1, <1>4 DEF Nodes
    <3> QED BY <3>1, <3>2
  <2> QED BY <2>1 DEF Insertion
<1> HIDE DEF V
<1>6. \A k \in 2..(n + 1) : k < e => Before(d, V[k], t)
  <2> SUFFICES ASSUME NEW k \in 2..(n + 1), k < e PROVE Before(d, V[k], t)
    OBVIOUS
  <2>1. g[k] \in 2..(l + 1) /\ g[k] <= i /\ V[k] = W[g[k]]
    BY <1>2 DEF Rises
  <2>2. CASE g[k] = i
    BY <2>1, <2>2
  <2>3. CASE g[k] # i
    <3>1. i \in 2..(l + 1)
      BY <2>1, <1>1
    <3>2. Before(d, W[g[k]], W[i])
      BY <2>1, <2>3, <3>1 DEF Thread
    <3>3. W[g[k]] \in Nodes /\ W[i] \in Nodes /\ t \in Nodes
      BY <2>1, <3>1 DEF Thread, Nodes
    <3> QED BY <2>1, <3>2, <3>3, BeforeTransitive
  <2> QED BY <2>2, <2>3
<1>7. \A k \in 2..(n + 1) : k > e => Before(d, t, V[k])
  <2> SUFFICES ASSUME NEW k \in 2..(n + 1), k > e PROVE Before(d, t, V[k])
    OBVIOUS
  <2>1. g[k] \in 2..(l + 1) /\ g[k] >= e /\ V[k] = W[g[k]] /\ CharacterOf(W[g[k]]) # CharacterOf(t)
    BY <1>2 DEF Rises
  <2>2. W[e] \in Inner /\ W[g[k]] \in Inner /\ NotAfter(d, t, W[e])
    BY <1>1, <2>1 DEF Thread
  <2>3. CASE g[k] = e
    BY <2>1, <2>2, <2>3, NotAfterIsBefore
  <2>4. CASE g[k] # e
    <3>1. Before(d, W[e], W[g[k]])
      BY <1>1, <2>1, <2>4 DEF Thread
    <3>2. W[e] \in Nodes /\ W[g[k]] \in Nodes /\ t \in Nodes
      BY <2>2 DEF Nodes
    <3> QED BY <2>1, <2>2, <3>1, <3>2, BeforeTransitive
  <2> QED BY <2>3, <2>4
<1>8. \A k, j \in 2..(n + 1) : k < j => Before(d, V[k], V[j])
  <2> SUFFICES ASSUME NEW k \in 2..(n + 1), NEW j \in 2..(n + 1), k < j PROVE Before(d, V[k], V[j])
    OBVIOUS
  <2>1. CASE k = e
    BY <2>1, <1>2, <1>7
  <2>2. CASE j = e
    BY <2>2, <1>2, <1>6
  <2>3. CASE k # e /\ j # e
    <3>1. g[k] \in 2..(l + 1) /\ g[j] \in 2..(l + 1) /\ g[k] < g[j]
      BY <2>3 DEF Rises
    <3>2. V[k] = W[g[k]] /\ V[j] = W[g[j]]
      BY <2>3, <1>2
    <3> QED BY <3>1, <3>2 DEF Thread
  <2> QED BY <2>1, <2>2, <2>3
<1>9. \A k, j \in 2..(n + 1) : CharacterOf(V[k]) = CharacterOf(V[j]) => k = j
  <2> SUFFICES ASSUME NEW k \in 2..(n + 1), NEW j \in 2..(n + 1), CharacterOf(V[k]) = CharacterOf(V[j]), k # j
               PROVE  FALSE
    OBVIOUS
  <2>1. CASE k = e
    BY <2>1, <1>2
  <2>2. CASE j = e
    BY <2>2, <1>2
  <2>3. CASE k # e /\ j # e
    <3>1. V[k] = W[g[k]] /\ V[j] = W[g[j]] /\ g[k] \in 2..(l + 1) /\ g[j] \in 2..(l + 1)
      BY <2>3, <1>2 DEF Rises
    <3>2. g[k] = g[j]
      BY <3>1 DEF Thread
    <3>3. k < j \/ j < k
      OBVIOUS
    <3> QED BY <2>3, <3>1, <3>2, <3>3 DEF Rises
  <2> QED BY <2>1, <2>2, <2>3
<1> QED BY <1>3, <1>4, <1>5, <1>8, <1>9 DEF Thread, V

(* A longest thread can go to any successor at or before its next match    *)
(* whose character it has not used: it has that character later.           *)
LEMMA ThreadExchange ==
    ASSUME strings \in Inputs, OptIsLongest, opt \in Nat, NEW d \in Directions, NEW W, NEW i \in 1..opt,
           NEW e, NEW t, Thread(d, opt, W), e = i + 1, t \in SuccessorMatches(d, W[i]),
           NotAfter(d, t, W[e]), CharacterOf(t) \notin Used(W, i)
    PROVE  \E V : Thread(d, opt, V) /\ (\A k \in 1..i : V[k] = W[k]) /\ V[e] = t
<1>1. t \in Inner /\ Before(d, W[i], t)
  <2>1. W[i] \in Nodes
    BY DEF Thread
  <2> QED BY <2>1, SuccessorFacts
<1>2. \A k \in 2..i : CharacterOf(W[k]) # CharacterOf(t)
  BY DEF Used
<1>3. CASE \A k \in 2..(opt + 1) : CharacterOf(W[k]) # CharacterOf(t)
  <2> DEFINE n == opt + 1
             g == [k \in 1..(n + 1) |-> IF k = 1 THEN 1 ELSE IF k < e THEN k ELSE k - 1]
  <2>1. n \in Nat /\ i \in 1..n
    OBVIOUS
  <2>2. /\ g[1] = 1
        /\ \A k \in 2..(n + 1) : k < e => g[k] = k
        /\ \A k \in 2..(n + 1) : k >= e => g[k] = k - 1
    OBVIOUS
  <2>3. g \in [1..(n + 1) -> 1..(opt + 1)]
    OBVIOUS
  <2> HIDE DEF g
  <2>4. Rises(n, e, opt, g)
    <3>1. \A k \in 2..(n + 1) : k # e => g[k] \in 2..(opt + 1)
      BY <2>2
    <3>2. \A k \in 2..(n + 1) : k < e => g[k] < e
      BY <2>2
    <3>3. \A k \in 2..(n + 1) : k > e => g[k] >= e
      BY <2>2
    <3>4. \A k, j \in 2..(n + 1) : k < j /\ k # e /\ j # e => g[k] < g[j]
      <4> SUFFICES ASSUME NEW k \in 2..(n + 1), NEW j \in 2..(n + 1), k < j, k # e, j # e PROVE g[k] < g[j]
        OBVIOUS
      <4>1. (g[k] = k /\ k < e) \/ (g[k] = k - 1 /\ k > e)
        BY <2>2
      <4>2. (g[j] = j /\ j < e) \/ (g[j] = j - 1 /\ j > e)
        BY <2>2
      <4> HIDE DEF n
      <4>3. k \in Int /\ j \in Int
        OBVIOUS
      <4> QED BY <4>1, <4>2, <4>3
    <3> QED BY <2>2, <2>3, <3>1, <3>2, <3>3, <3>4 DEF Rises
  <2>5. \A k \in 2..(n + 1) : k # e => CharacterOf(W[g[k]]) # CharacterOf(t)
    BY <2>4, <1>3 DEF Rises
  <2> HIDE DEF n
  <2>6. Thread(d, n, Insertion(W, n, e, t, g))
    BY <1>1, <2>1, <2>4, <2>5, InsertionIsThread
  <2>7. n <= opt
    BY <2>1, <2>6, ThreadLength
  <2> QED BY <2>7 DEF n
<1>4. ASSUME NEW j \in 2..(opt + 1), CharacterOf(W[j]) = CharacterOf(t)
      PROVE  \E V : Thread(d, opt, V) /\ (\A k \in 1..i : V[k] = W[k]) /\ V[e] = t
  <2> DEFINE g == [k \in 1..(opt + 1) |-> IF k = 1 THEN 1 ELSE IF k <= i \/ k > j THEN k ELSE k - 1]
  <2>1. j > i
    BY <1>2, <1>4
  <2>2. /\ g[1] = 1
        /\ \A k \in 2..(opt + 1) : k <= i \/ k > j => g[k] = k
        /\ \A k \in 2..(opt + 1) : ~(k <= i \/ k > j) => g[k] = k - 1
    OBVIOUS
  <2>3. g \in [1..(opt + 1) -> 1..(opt + 1)]
    OBVIOUS
  <2> HIDE DEF g
  <2>4. Rises(opt, e, opt, g)
    <3>1. \A k \in 2..(opt + 1) : k # e => g[k] \in 2..(opt + 1)
      BY <2>1, <2>2
    <3>2. \A k \in 2..(opt + 1) : k < e => g[k] < e
      BY <2>1, <2>2
    <3>3. \A k \in 2..(opt + 1) : k > e => g[k] >= e
      BY <2>1, <2>2
    <3>4. \A k, l \in 2..(opt + 1) : k < l /\ k # e /\ l # e => g[k] < g[l]
      <4> SUFFICES ASSUME NEW k \in 2..(opt + 1), NEW l \in 2..(opt + 1), k < l, k # e, l # e
                   PROVE  g[k] < g[l]
        OBVIOUS
      <4>1. (g[k] = k /\ (k <= i \/ k > j)) \/ (g[k] = k - 1 /\ k > i /\ k <= j)
        BY <2>2
      <4>2. (g[l] = l /\ (l <= i \/ l > j)) \/ (g[l] = l - 1 /\ l > i /\ l <= j)
        BY <2>2
      <4> QED BY <4>1, <4>2, <2>1
    <3> QED BY <2>2, <2>3, <3>1, <3>2, <3>3, <3>4 DEF Rises
  <2>5. \A k \in 2..(opt + 1) : k # e => CharacterOf(W[g[k]]) # CharacterOf(t)
    <3> SUFFICES ASSUME NEW k \in 2..(opt + 1), k # e PROVE CharacterOf(W[g[k]]) # CharacterOf(t)
      OBVIOUS
    <3>1. g[k] # j /\ g[k] \in 2..(opt + 1)
      <4>1. g[k] \in 2..(opt + 1)
        BY <2>4 DEF Rises
      <4>2. (g[k] = k /\ (k <= i \/ k > j)) \/ (g[k] = k - 1 /\ k > i /\ k <= j)
        BY <2>2
      <4> QED BY <2>1, <4>1, <4>2
    <3> QED BY <3>1, <1>4 DEF Thread
  <2> DEFINE V == Insertion(W, opt, e, t, g)
  <2>6. Thread(d, opt, V)
    BY <1>1, <2>4, <2>5, InsertionIsThread
  <2>7. V[e] = t /\ \A k \in 1..i : V[k] = W[g[k]]
    BY DEF Insertion
  <2>8. \A k \in 1..i : g[k] = k
    BY <2>2
  <2> QED BY <2>6, <2>7, <2>8
<1> QED BY <1>3, <1>4

(* From W[i] on to W[i + 1], which nothing can dominate.                   *)
SafeStep(d, W, i) ==
    /\ W[i + 1] \in SuccessorMatches(d, W[i])
    /\ \A t \in SuccessorMatches(d, W[i]) : Nearer(d, t, W[i + 1]) => CharacterOf(t) \in Used(W, i)
SafeThread(d, W) == Thread(d, opt, W) /\ \A i \in 1..opt : SafeStep(d, W, i)

(* How far a match is from where one comes from, in both strings.          *)
Far(d, m) == Position(d, m, 1) + Position(d, m, 2)

LEMMA FarFacts ==
    ASSUME strings \in Inputs, NEW d \in Directions, NEW s \in Inner, NEW t \in Inner
    PROVE  /\ Far(d, s) \in Nat
           /\ NotAfter(d, s, t) => Far(d, s) <= Far(d, t)
           /\ NotAfter(d, s, t) /\ Far(d, s) = Far(d, t) => s = t
           /\ Before(d, s, t) => Far(d, s) < Far(d, t)
<1>1. /\ Size1 \in Nat /\ Size2 \in Nat
      /\ s = <<s[1], s[2]>> /\ s[1] \in 1..Size1 /\ s[2] \in 1..Size2
      /\ t = <<t[1], t[2]>> /\ t[1] \in 1..Size1 /\ t[2] \in 1..Size2
  BY InnerFacts, InputFacts
<1>2. Leaf[1] = Size1 + 1 /\ Leaf[2] = Size2 + 1
  BY DEF Leaf, Size1, Size2
<1>3. CASE d = "forward"
  <2>1. Far(d, s) = s[1] + s[2] /\ Far(d, t) = t[1] + t[2]
    BY <1>3 DEF Far, Position
  <2>2. /\ NotAfter(d, s, t) <=> ~(t[1] < s[1]) /\ ~(t[2] < s[2])
        /\ Before(d, s, t) <=> s[1] < t[1] /\ s[2] < t[2]
    BY <1>3 DEF NotAfter, Before, Ahead
  <2> QED BY <1>1, <2>1, <2>2
<1>4. CASE d = "reverse"
  <2>1. /\ Far(d, s) = (Size1 + 1 - s[1]) + (Size2 + 1 - s[2])
        /\ Far(d, t) = (Size1 + 1 - t[1]) + (Size2 + 1 - t[2])
    <3>1. d # "forward"
      BY <1>4
    <3>2. \A m : Far(d, m) = (Leaf[1] - m[1]) + (Leaf[2] - m[2])
      BY <3>1 DEF Far, Position
    <3>3. Far(d, s) = (Leaf[1] - s[1]) + (Leaf[2] - s[2])
      BY <3>2
    <3>4. Far(d, t) = (Leaf[1] - t[1]) + (Leaf[2] - t[2])
      BY <3>2
    <3> QED BY <1>1, <1>2, <3>3, <3>4
  <2>2. /\ NotAfter(d, s, t) <=> ~(t[1] > s[1]) /\ ~(t[2] > s[2])
        /\ Before(d, s, t) <=> s[1] > t[1] /\ s[2] > t[2]
    BY <1>4 DEF NotAfter, Before, Ahead
  <2> QED BY <1>1, <2>1, <2>2
<1> QED BY <1>3, <1>4 DEF Directions

LEMMA NextSafe ==
    ASSUME strings \in Inputs, OptIsLongest, opt \in Nat, NEW d \in Directions, NEW W, NEW i \in 1..opt,
           Thread(d, opt, W)
    PROVE  \E V : Thread(d, opt, V) /\ (\A k \in 1..i : V[k] = W[k]) /\ SafeStep(d, V, i)
<1> DEFINE e == i + 1
           D == [1..(opt + 1) -> Nodes]
           T == {V \in D : Thread(d, opt, V) /\ \A k \in 1..i : V[k] = W[k]}
           rank == [V \in T |-> Far(d, V[e])]
<1>1. e \in 2..(opt + 1) /\ i \in 1..(opt + 1) /\ i < e /\ e = i + 1
  OBVIOUS
<1>2. \A V : V \in T <=> Thread(d, opt, V) /\ \A k \in 1..i : V[k] = W[k]
  BY DEF Thread
<1> HIDE DEF e
<1>3. \A V \in T : V[e] \in Inner /\ Far(d, V[e]) \in Nat
  BY <1>1, <1>2, FarFacts DEF Thread
<1>4. PICK V \in T : \A U \in T : Far(d, V[e]) <= Far(d, U[e])
  <2>1. rank \in [T -> Nat]
    BY <1>3
  <2>2. W \in T
    BY <1>2
  <2>3. T \subseteq T /\ T # {}
    BY <2>2
  <2>4. \A U \in T : rank[U] = Far(d, U[e])
    OBVIOUS
  <2> HIDE DEF rank, T
  <2>5. \E V \in T : \A U \in T : rank[V] <= rank[U]
    BY <2>1, <2>3, LeastRank
  <2> QED BY <2>4, <2>5
<1> HIDE DEF T
<1>5. Thread(d, opt, V) /\ (\A k \in 1..i : V[k] = W[k]) /\ V[e] \in Inner /\ V[i] \in Nodes
  BY <1>1, <1>2, <1>3, <1>4 DEF Thread
<1>6. ASSUME NEW t \in SuccessorMatches(d, V[i]), NotAfter(d, t, V[e]), CharacterOf(t) \notin Used(V, i)
      PROVE  t = V[e]
  <2>1. PICK U : Thread(d, opt, U) /\ (\A k \in 1..i : U[k] = V[k]) /\ U[e] = t
    BY <1>1, <1>5, <1>6, ThreadExchange
  <2>2. U \in T
    BY <1>2, <1>5, <2>1
  <2>3. Far(d, V[e]) <= Far(d, t)
    BY <1>4, <2>1, <2>2
  <2>4. t \in Inner
    BY <1>5, SuccessorFacts
  <2>5. /\ Far(d, t) \in Nat /\ Far(d, V[e]) \in Nat /\ Far(d, t) <= Far(d, V[e])
        /\ Far(d, t) = Far(d, V[e]) => t = V[e]
    BY <1>5, <1>6, <2>4, FarFacts
  <2> QED BY <2>3, <2>5
<1>7. V[e] \in SuccessorMatches(d, V[i])
  <2>1. Before(d, V[i], V[e])
    BY <1>1, <1>5, ThreadOrder
  <2>2. V[i] \in Inner => CharacterOf(V[e]) # CharacterOf(V[i])
    <3>1. CASE i = 1
      BY <3>1, <1>5, DirectionFacts, InnerFacts DEF Thread
    <3>2. CASE i # 1
      <4>1. i \in 2..(opt + 1)
        BY <3>2, <1>1
      <4> QED BY <4>1, <1>1, <1>5 DEF Thread
    <3> QED BY <3>1, <3>2
  <2>3. PICK t \in SuccessorMatches(d, V[i]) : CharacterOf(t) = CharacterOf(V[e]) /\ NotAfter(d, t, V[e])
    BY <1>5, <2>1, <2>2, NearestMatch
  <2>4. CharacterOf(t) \notin Used(V, i)
    <3> SUFFICES ASSUME NEW j \in 2..i, CharacterOf(V[j]) = CharacterOf(V[e]) PROVE FALSE
      BY <2>3 DEF Used
    <3>1. j \in 2..(opt + 1) /\ j # e
      BY <1>1
    <3> QED BY <3>1, <1>1, <1>5 DEF Thread
  <2> QED BY <1>6, <2>3, <2>4
<1>8. ASSUME NEW t \in SuccessorMatches(d, V[i]), Nearer(d, t, V[e])
      PROVE  CharacterOf(t) \in Used(V, i)
  <2>1. t \in Inner
    BY <1>5, SuccessorFacts
  <2>2. Before(d, t, V[e])
    BY <1>5, <1>8, <2>1, PositionFacts
  <2>3. t \in Nodes /\ V[e] \in Nodes
    BY <1>5, <2>1 DEF Nodes
  <2>4. NotAfter(d, t, V[e]) /\ t # V[e]
    BY <2>2, <2>3, BeforeFacts
  <2> QED BY <1>6, <2>4
<1>9. SafeStep(d, V, i)
  BY <1>7, <1>8 DEF SafeStep, e
<1> QED BY <1>5, <1>9

LEMMA SomeThread ==
    ASSUME strings \in Inputs, OptIsLongest, NEW d \in Directions
    PROVE  opt \in 0..Sigma /\ \E W : Thread(d, opt, W)
<1>1. opt \in 0..Sigma /\ \E w \in Solutions(strings) : Len(w) = opt
  BY LongestSolution DEF OptIsLongest
<1>2. PICK w \in Solutions(strings) : Len(w) = opt
  BY <1>1
<1>3. PICK e \in [1..Len(w) -> Inner] :
              /\ \A i \in 1..Len(w) : CharacterOf(e[i]) = LetterIn(d, w, i)
              /\ \A i, j \in 1..Len(w) : i < j => Before(d, e[i], e[j])
  BY SolutionEmbeds
<1>4. opt \in Nat
  BY <1>1
<1>5. \A i, j \in 1..opt : CharacterOf(e[i]) = CharacterOf(e[j]) => i = j
  BY <1>2, <1>3, LettersDiffer
<1> DEFINE W == [i \in 1..(opt + 1) |-> IF i = 1 THEN Source(d) ELSE e[i - 1]]
<1>6. W[1] = Source(d) /\ \A i \in 2..(opt + 1) : i - 1 \in 1..opt /\ W[i] = e[i - 1]
  BY <1>4
<1>7. \A i \in 2..(opt + 1) : W[i] \in Inner
  BY <1>2, <1>3, <1>6
<1>8. W \in [1..(opt + 1) -> Nodes]
  <2> SUFFICES ASSUME NEW i \in 1..(opt + 1) PROVE W[i] \in Nodes
    OBVIOUS
  <2> HIDE DEF W
  <2>1. CASE i = 1
    BY <2>1, <1>6, DirectionFacts
  <2>2. CASE i # 1
    <3>1. i \in 2..(opt + 1)
      BY <2>2, <1>4
    <3> QED BY <3>1, <1>7 DEF Nodes
  <2> QED BY <2>1, <2>2
<1> HIDE DEF W
<1>9. \A i, j \in 2..(opt + 1) : i < j => Before(d, W[i], W[j])
  <2> SUFFICES ASSUME NEW i \in 2..(opt + 1), NEW j \in 2..(opt + 1), i < j PROVE Before(d, W[i], W[j])
    OBVIOUS
  <2>1. i - 1 < j - 1 /\ i - 1 \in 1..Len(w) /\ j - 1 \in 1..Len(w)
    BY <1>2, <1>4, <1>6
  <2>2. Before(d, e[i - 1], e[j - 1])
    BY <1>3, <2>1
  <2> QED BY <2>2, <1>6
<1>10. \A i, j \in 2..(opt + 1) : CharacterOf(W[i]) = CharacterOf(W[j]) => i = j
  <2> SUFFICES ASSUME NEW i \in 2..(opt + 1), NEW j \in 2..(opt + 1), CharacterOf(W[i]) = CharacterOf(W[j])
               PROVE  i = j
    OBVIOUS
  <2>1. i - 1 = j - 1
    BY <1>5, <1>6
  <2> QED BY <2>1, <1>4
<1>11. Thread(d, opt, W)
  BY <1>6, <1>7, <1>8, <1>9, <1>10 DEF Thread
<1> QED BY <1>1, <1>11

(* There is a longest solution that domination does not give up.           *)
LEMMA WayExists ==
    ASSUME strings \in Inputs, OptIsLongest, NEW d \in Directions
    PROVE  \E W : SafeThread(d, W)
<1>1. opt \in Nat /\ \E W : Thread(d, opt, W)
  BY SomeThread
<1> DEFINE Good(i) == \E W : Thread(d, opt, W) /\ \A j \in 1..i : SafeStep(d, W, j)
           T == {i \in 0..opt : ~Good(i)}
<1>2. T = {}
  <2> SUFFICES ASSUME T # {} PROVE FALSE
    OBVIOUS
  <2>1. T \subseteq Nat
    OBVIOUS
  <2>2. PICK i \in T : \A x \in T : i <= x
    <3> HIDE DEF T
    <3> QED BY <2>1, LeastNumber
  <2>3. i # 0
    <3>1. Good(0)
      BY <1>1
    <3> QED BY <3>1, <2>2
  <2>4. i \in 1..opt /\ i - 1 \in 0..opt
    BY <2>2, <2>3, <1>1
  <2>5. Good(i - 1)
    BY <2>2, <2>4
  <2>6. PICK W : Thread(d, opt, W) /\ \A j \in 1..(i - 1) : SafeStep(d, W, j)
    BY <2>5
  <2>7. PICK V : Thread(d, opt, V) /\ (\A k \in 1..i : V[k] = W[k]) /\ SafeStep(d, V, i)
    BY <1>1, <2>4, <2>6, NextSafe
  <2>8. ASSUME NEW j \in 1..i PROVE SafeStep(d, V, j)
    <3>1. CASE j = i
      BY <3>1, <2>7
    <3>2. CASE j # i
      <4>1. j \in 1..(i - 1) /\ j \in 1..i /\ j + 1 \in 1..i
        BY <3>2, <2>4
      <4>2. V[j] = W[j] /\ V[j + 1] = W[j + 1]
        BY <4>1, <2>7
      <4>3. Used(V, j) = Used(W, j)
        <5>1. \A k \in 2..j : V[k] = W[k]
          BY <2>4, <2>7
        <5> QED BY <5>1 DEF Used
      <4> QED BY <4>1, <4>2, <4>3, <2>6 DEF SafeStep
    <3> QED BY <3>1, <3>2
  <2>9. Good(i)
    BY <2>7, <2>8
  <2> QED BY <2>2, <2>9
<1>3. opt \in 0..opt
  BY <1>1
<1>4. Good(opt)
  BY <1>2, <1>3
<1> QED BY <1>4 DEF SafeThread

(* The characters of the matches from W[a] to W[b].                        *)
Span(W, a, b) == {CharacterOf(W[j]) : j \in a..b}

LEMMA SpanFacts ==
    ASSUME strings \in Inputs, NEW d \in Directions, NEW k \in Nat, NEW W, NEW a \in 2..(k + 2),
           NEW b \in 1..(k + 1), Thread(d, k, W), a <= b + 1
    PROVE  /\ Span(W, a, b) \subseteq Characters /\ IsFiniteSet(Span(W, a, b))
           /\ Cardinality(Span(W, a, b)) = b + 1 - a
<1> DEFINE L == Span(W, a, b)
           f == [i \in a..b |-> CharacterOf(W[i])]
<1>1. \A i \in a..b : i \in 2..(k + 1) /\ W[i] \in Inner
  BY DEF Thread
<1>2. L = {CharacterOf(W[i]) : i \in a..b} /\ L \subseteq Characters
  BY <1>1, InnerFacts DEF Span
<1> HIDE DEF L
<1>3. f \in Bijection(a..b, L)
  BY <1>1, <1>2 DEF Bijection, Injection, IsInjective, Surjection, Thread
<1>4. IsFiniteSet(a..b) /\ Cardinality(a..b) = b + 1 - a
  <2>1. a \in Int /\ b \in Int
    OBVIOUS
  <2>2. IsFiniteSet(a..b) /\ Cardinality(a..b) = IF a > b THEN 0 ELSE b - a + 1
    BY <2>1, FS_Interval
  <2> QED BY <2>2
<1>5. ExistsBijection(a..b, L)
  BY <1>3 DEF ExistsBijection
<1>6. IsFiniteSet(L) /\ Cardinality(L) = Cardinality(a..b)
  BY <1>4, <1>5, FS_Bijection
<1> QED BY <1>2, <1>4, <1>6 DEF L

(* The chain of the matches of a thread.                                   *)
ChainOf(W, k) == {W[j] : j \in 2..(k + 1)}

LEMMA ThreadChain ==
    ASSUME strings \in Inputs, NEW d \in Directions, NEW k \in Nat, NEW W, Thread(d, k, W)
    PROVE  /\ ChainOf(W, k) \in Chains /\ Weight(ChainOf(W, k)) = k
           /\ \A i \in 1..(k + 1) : W[i] \in Places(d, ChainOf(W, k))
           /\ \A i \in 1..(k + 1) : \A j \in 2..(k + 1) : j >= i => W[j] \in From(d, ChainOf(W, k), W[i])
           /\ \A i \in 2..(k + 1) : \A j \in 2..i : W[j] \in From(Opposite(d), ChainOf(W, k), W[i])
           /\ \A i \in 1..k : IsNext(d, ChainOf(W, k), W[i], W[i + 1])
<1> DEFINE C == ChainOf(W, k)
<1>1. \A x : x \in C <=> \E j \in 2..(k + 1) : x = W[j]
  BY DEF ChainOf
<1>2. \A j \in 2..(k + 1) : W[j] \in C /\ W[j] \in Inner /\ W[j] \in Nodes /\ j \in 1..(k + 1)
  BY <1>1 DEF Thread, Nodes
<1>3. \A i \in 1..(k + 1), j \in 1..(k + 1) : i < j => Before(d, W[i], W[j])
  BY ThreadOrder
<1>4. Letters(C) = Span(W, 2, k + 1)
  BY DEF Letters, Span, ChainOf
<1> HIDE DEF C
<1>5. C \in Chains
  <2>1. C \in SUBSET Inner
    BY <1>1, <1>2
  <2>2. ASSUME NEW x \in C, NEW y \in C, x # y
        PROVE  /\ CharacterOf(x) # CharacterOf(y)
               /\ Before("forward", x, y) \/ Before("forward", y, x)
    <3>1. PICK i \in 2..(k + 1), j \in 2..(k + 1) : x = W[i] /\ y = W[j]
      BY <1>1
    <3>2. i < j \/ j < i
      BY <2>2, <3>1
    <3>3. Before(d, x, y) \/ Before(d, y, x)
      BY <1>2, <1>3, <3>1, <3>2
    <3>4. CharacterOf(x) # CharacterOf(y)
      BY <2>2, <3>1 DEF Thread
    <3>5. CASE d = "forward"
      BY <3>3, <3>4, <3>5
    <3>6. CASE d = "reverse"
      <4>1. Opposite(d) = "forward" /\ x \in Nodes /\ y \in Nodes
        BY <1>2, <3>1, <3>6 DEF Opposite
      <4> QED BY <3>3, <3>4, <4>1, BeforeFacts
    <3> QED BY <3>5, <3>6 DEF Directions
  <2> QED BY <2>1, <2>2 DEF Chains
<1>6. Weight(C) = k
  <2>1. 2 \in 2..(k + 2) /\ k + 1 \in 1..(k + 1) /\ 2 <= (k + 1) + 1
    OBVIOUS
  <2>2. Cardinality(Span(W, 2, k + 1)) = (k + 1) + 1 - 2
    BY <2>1, SpanFacts
  <2> QED BY <1>4, <2>2 DEF Weight
<1>7. \A i \in 1..(k + 1) : W[i] \in Places(d, C)
  <2> SUFFICES ASSUME NEW i \in 1..(k + 1) PROVE W[i] \in Places(d, C)
    OBVIOUS
  <2>1. CASE i = 1
    BY <2>1 DEF Thread, Places
  <2>2. CASE i # 1
    <3>1. i \in 2..(k + 1)
      BY <2>2
    <3> QED BY <3>1, <1>2 DEF Places
  <2> QED BY <2>1, <2>2
<1>8. \A i \in 1..(k + 1) : \A j \in 2..(k + 1) : j >= i => W[j] \in From(d, C, W[i])
  <2> SUFFICES ASSUME NEW i \in 1..(k + 1), NEW j \in 2..(k + 1), j >= i PROVE W[j] \in From(d, C, W[i])
    OBVIOUS
  <2>1. j = i \/ i < j
    OBVIOUS
  <2> QED BY <2>1, <1>2, <1>3 DEF From
<1>9. \A i \in 2..(k + 1) : \A j \in 2..i : W[j] \in From(Opposite(d), C, W[i])
  <2> SUFFICES ASSUME NEW i \in 2..(k + 1), NEW j \in 2..i PROVE W[j] \in From(Opposite(d), C, W[i])
    OBVIOUS
  <2>1. j = i \/ j < i
    OBVIOUS
  <2>2. j \in 2..(k + 1)
    OBVIOUS
  <2>3. j < i => Before(Opposite(d), W[i], W[j])
    BY <1>2, <1>3, <2>2, BeforeFacts
  <2> QED BY <2>1, <2>2, <2>3, <1>2 DEF From
<1>10. ASSUME NEW i \in 1..k PROVE IsNext(d, C, W[i], W[i + 1])
  <2>1. i \in 1..(k + 1) /\ i + 1 \in 2..(k + 1) /\ i < i + 1
    OBVIOUS
  <2>2. W[i + 1] \in C /\ Before(d, W[i], W[i + 1])
    BY <1>2, <1>3, <2>1
  <2>3. ASSUME NEW x \in Rest(d, C, W[i]) PROVE x = W[i + 1] \/ Before(d, W[i + 1], x)
    <3>1. Before(d, W[i], x) /\ x \in C
      BY DEF Rest
    <3>2. PICK j \in 2..(k + 1) : x = W[j]
      BY <1>1, <3>1
    <3>3. W[i] \in Nodes /\ W[j] \in Nodes
      BY <2>1, <1>2 DEF Thread
    <3>4. ~Before(d, W[j], W[i]) /\ W[i] # W[j]
      BY <3>1, <3>2, <3>3, BeforeFacts
    <3>5. i < j
      BY <3>4, <1>2, <1>3, <2>1
    <3>6. j = i + 1 \/ i + 1 < j
      BY <3>5
    <3> QED BY <3>2, <3>6, <1>2, <1>3, <2>1
  <2> QED BY <2>2, <2>3 DEF IsNext
<1> QED BY <1>5, <1>6, <1>7, <1>8, <1>9, <1>10 DEF C

(* What the reduced graph knows of all chains longer than the lower bound. *)
AvailableBehind ==
    \A C \in Better, d \in Directions : \A m \in Places(d, C) : Letters(From(d, C, m)) \subseteq avail[d][m]
GraphCovers == BetterStayActive /\ BoundsCover /\ AvailableBehind /\ ArcsStay

LEMMA FromCounts ==
    ASSUME strings \in Inputs, NEW C \in Chains, NEW e, NEW m, NEW X, NEW b \in Nat,
           IsFiniteSet(X), Cardinality(X) = b, \A c \in X : \E x \in From(e, C, m) : c = CharacterOf(x)
    PROVE  Weight(From(e, C, m)) \in Nat /\ Weight(From(e, C, m)) >= b
<1>1. X \subseteq Letters(From(e, C, m))
  BY DEF Letters
<1>2. From(e, C, m) \subseteq Inner
  BY DEF From, Chains
<1>3. IsFiniteSet(Letters(From(e, C, m)))
  BY <1>2, LettersFinite
<1> QED BY <1>1, <1>3, AtLeast DEF Weight

LEMMA ThreadCovered ==
    ASSUME strings \in Inputs, lower \in Nat, GraphCovers, NEW d \in Directions, NEW k \in Nat, k > lower,
           NEW W, Thread(d, k, W), BoundsOK
    PROVE  /\ \A i \in 2..(k + 1) : W[i] \in active
           /\ \A i \in 2..(k + 1) : up[d][W[i]] \in Nat /\ up[d][W[i]] >= k + 2 - i
           /\ \A i \in 2..(k + 1) : up[Opposite(d)][W[i]] \in Nat /\ up[Opposite(d)][W[i]] >= i - 1
           /\ \A i \in 1..(k + 1) : \A j \in 2..(k + 1) : j >= i => CharacterOf(W[j]) \in avail[d][W[i]]
           /\ \A i \in 2..(k + 1) : \A j \in 2..i : CharacterOf(W[j]) \in avail[Opposite(d)][W[i]]
           /\ \A i \in 1..k : W[i + 1] \in SuccessorMatches(d, W[i]) => W[i + 1] \in succ[d][W[i]]
<1> DEFINE C == ChainOf(W, k)
<1>1. /\ C \in Chains /\ Weight(C) = k
      /\ \A i \in 1..(k + 1) : W[i] \in Places(d, C)
      /\ \A i \in 1..(k + 1) : \A j \in 2..(k + 1) : j >= i => W[j] \in From(d, C, W[i])
      /\ \A i \in 2..(k + 1) : \A j \in 2..i : W[j] \in From(Opposite(d), C, W[i])
      /\ \A i \in 1..k : IsNext(d, C, W[i], W[i + 1])
  BY ThreadChain
<1>2. \A j \in 2..(k + 1) : W[j] \in C /\ W[j] \in Nodes /\ W[j] \in Places(Opposite(d), C)
  BY DEF ChainOf, Places, Thread, Nodes
<1>3. Opposite(d) \in Directions
  BY DirectionFacts
<1> HIDE DEF C
<1>4. C \in Better
  BY <1>1 DEF Better
<1>5. \A i \in 2..(k + 1) : W[i] \in active
  BY <1>2, <1>4 DEF GraphCovers, BetterStayActive
<1>6. ASSUME NEW i \in 2..(k + 1) PROVE up[d][W[i]] \in Nat /\ up[d][W[i]] >= k + 2 - i
  <2>1. up[d][W[i]] \in Nat
    BY <1>2 DEF BoundsOK
  <2>2. up[d][W[i]] >= Weight(From(d, C, W[i]))
    BY <1>2, <1>4 DEF GraphCovers, BoundsCover
  <2>3. i \in 2..(k + 2) /\ k + 1 \in 1..(k + 1) /\ i <= (k + 1) + 1
    OBVIOUS
  <2>4. /\ IsFiniteSet(Span(W, i, k + 1)) /\ Cardinality(Span(W, i, k + 1)) = (k + 1) + 1 - i
    BY <2>3, SpanFacts
  <2> DEFINE b == k + 2 - i
  <2>5. b \in Nat /\ Cardinality(Span(W, i, k + 1)) = b
    BY <2>4
  <2>6. \A c \in Span(W, i, k + 1) : \E x \in From(d, C, W[i]) : c = CharacterOf(x)
    <3> SUFFICES ASSUME NEW j \in i..(k + 1) PROVE \E x \in From(d, C, W[i]) : CharacterOf(W[j]) = CharacterOf(x)
      BY DEF Span
    <3>1. j \in 2..(k + 1) /\ j >= i /\ i \in 1..(k + 1)
      OBVIOUS
    <3> QED BY <3>1, <1>1
  <2> HIDE DEF b
  <2>7. Weight(From(d, C, W[i])) \in Nat /\ Weight(From(d, C, W[i])) >= b
    BY <1>1, <2>4, <2>5, <2>6, FromCounts
  <2>8. b = k + 2 - i
    BY DEF b
  <2> QED BY <2>1, <2>2, <2>5, <2>7, <2>8
<1>7. ASSUME NEW i \in 2..(k + 1) PROVE up[Opposite(d)][W[i]] \in Nat /\ up[Opposite(d)][W[i]] >= i - 1
  <2>1. up[Opposite(d)][W[i]] \in Nat
    BY <1>2, <1>3 DEF BoundsOK
  <2>2. up[Opposite(d)][W[i]] >= Weight(From(Opposite(d), C, W[i]))
    BY <1>2, <1>3, <1>4 DEF GraphCovers, BoundsCover
  <2>3. 2 \in 2..(k + 2) /\ i \in 1..(k + 1) /\ 2 <= i + 1
    OBVIOUS
  <2>4. /\ IsFiniteSet(Span(W, 2, i)) /\ Cardinality(Span(W, 2, i)) = i + 1 - 2
    BY <2>3, SpanFacts
  <2> DEFINE b == i - 1
  <2>5. b \in Nat /\ Cardinality(Span(W, 2, i)) = b
    BY <2>4
  <2>6. \A c \in Span(W, 2, i) : \E x \in From(Opposite(d), C, W[i]) : c = CharacterOf(x)
    BY <1>1 DEF Span
  <2> HIDE DEF b
  <2>7. Weight(From(Opposite(d), C, W[i])) \in Nat /\ Weight(From(Opposite(d), C, W[i])) >= b
    BY <1>1, <2>4, <2>5, <2>6, FromCounts
  <2>8. b = i - 1
    BY DEF b
  <2> QED BY <2>1, <2>2, <2>5, <2>7, <2>8
<1>8. ASSUME NEW i \in 1..(k + 1), NEW j \in 2..(k + 1), j >= i PROVE CharacterOf(W[j]) \in avail[d][W[i]]
  <2>1. Letters(From(d, C, W[i])) \subseteq avail[d][W[i]]
    BY <1>1, <1>4 DEF GraphCovers, AvailableBehind
  <2>2. W[j] \in From(d, C, W[i])
    BY <1>1, <1>8
  <2> QED BY <2>1, <2>2 DEF Letters
<1>9. ASSUME NEW i \in 2..(k + 1), NEW j \in 2..i PROVE CharacterOf(W[j]) \in avail[Opposite(d)][W[i]]
  <2>1. Letters(From(Opposite(d), C, W[i])) \subseteq avail[Opposite(d)][W[i]]
    BY <1>2, <1>3, <1>4 DEF GraphCovers, AvailableBehind
  <2>2. W[j] \in From(Opposite(d), C, W[i])
    BY <1>1, <1>9
  <2> QED BY <2>1, <2>2 DEF Letters
<1>10. ASSUME NEW i \in 1..k, W[i + 1] \in SuccessorMatches(d, W[i]) PROVE W[i + 1] \in succ[d][W[i]]
  <2>1. W[i] \in Places(d, C) /\ IsNext(d, C, W[i], W[i + 1])
    BY <1>1
  <2> QED BY <2>1, <1>4, <1>10 DEF GraphCovers, ArcsStay
<1> QED BY <1>5, <1>6, <1>7, <1>8, <1>9, <1>10

LEMMA EnoughOnWay ==
    ASSUME strings \in Inputs, lower \in Nat, opt \in Nat, lower < opt, NEW d \in Directions, NEW W,
           NEW P, NEW S, NEW i \in 1..opt, Thread(d, opt, W), IsFiniteSet(P), IsFiniteSet(S),
           \A j \in 2..i : CharacterOf(W[j]) \in P,
           \A j \in (i + 1)..(opt + 1) : CharacterOf(W[j]) \in S
    PROVE  EnoughCharactersAvailable(i, P, S)
<1> DEFINE A == Span(W, 2, opt + 1)
           B == Span(W, i + 1, opt + 1)
           o == Max({0, i - Cardinality(P \ S)})
<1>1. Cardinality(A) = opt /\ IsFiniteSet(A)
  <2>1. 2 \in 2..(opt + 2) /\ opt + 1 \in 1..(opt + 1) /\ 2 <= (opt + 1) + 1
    OBVIOUS
  <2>2. Cardinality(A) = (opt + 1) + 1 - 2 /\ IsFiniteSet(A)
    BY <2>1, SpanFacts
  <2> QED BY <2>2
<1>2. Cardinality(B) = opt + 1 - i /\ IsFiniteSet(B)
  <2>1. i + 1 \in 2..(opt + 2) /\ opt + 1 \in 1..(opt + 1) /\ i + 1 <= (opt + 1) + 1
    OBVIOUS
  <2>2. Cardinality(B) = (opt + 1) + 1 - (i + 1) /\ IsFiniteSet(B)
    BY <2>1, SpanFacts
  <2> QED BY <2>2
<1>3. B \subseteq S
  BY DEF Span
<1>4. A \subseteq P \cup S
  <2> SUFFICES ASSUME NEW j \in 2..(opt + 1) PROVE CharacterOf(W[j]) \in P \cup S
    BY DEF Span
  <2>1. j \in 2..i \/ j \in (i + 1)..(opt + 1)
    OBVIOUS
  <2> QED BY <2>1
<1>5. IsFiniteSet(P \ S) /\ (P \ S) \cap S = {} /\ (P \ S) \cup S = P \cup S
  BY FS_Subset
<1>6. /\ Cardinality(P \ S) \in Nat /\ Cardinality(S) \in Nat /\ IsFiniteSet(P \cup S)
      /\ Cardinality(P \cup S) = Cardinality(P \ S) + Cardinality(S)
  BY <1>5, SizeFact
<1> HIDE DEF A, B
<1>7. Cardinality(B) <= Cardinality(S)
  BY <1>3, AtLeast
<1>8. Cardinality(A) <= Cardinality(P \cup S) /\ Cardinality(P \cup S) \in Nat
  BY <1>4, <1>6, AtLeast
<1>9. o \in {0, i - Cardinality(P \ S)}
  <2>1. 0 \in Int /\ i - Cardinality(P \ S) \in Int
    BY <1>6
  <2> QED BY <2>1, MaxOfTwo
<1> HIDE DEF o
<1>10. Cardinality(S) - o > lower - i
  BY <1>1, <1>2, <1>6, <1>7, <1>8, <1>9
<1> QED BY <1>10 DEF EnoughCharactersAvailable, o

LEMMA LinkedOnWay ==
    ASSUME strings \in Inputs, lower \in Nat, opt \in Nat, lower < opt, BoundsOK, ArcsOK, GraphCovers,
           NEW d \in Directions, NEW W, SafeThread(d, W), NEW i \in 1..opt, NEW depth, depth = i - 1
    PROVE  W[i + 1] \in LinkedMatches(d, depth, W[i])
<1> DEFINE s == W[i + 1]
           m == W[i]
           X == Used(W, i) \ (IF m \in Inner THEN {CharacterOf(m)} ELSE {})
<1>1. Thread(d, opt, W) /\ i + 1 \in 2..(opt + 1) /\ i \in 1..(opt + 1) /\ depth \in Int /\ depth + 1 = i
  BY DEF SafeThread
<1>2. s \in SuccessorMatches(d, m) /\ m \in Nodes /\ s \in Inner /\ s \in Nodes
      /\ \A t \in SuccessorMatches(d, m) : Nearer(d, t, s) => CharacterOf(t) \in Used(W, i)
  BY <1>1 DEF SafeThread, SafeStep, Thread, Nodes
<1>3. /\ \A j \in 2..(opt + 1) : W[j] \in active
      /\ \A j \in 2..(opt + 1) : up[d][W[j]] \in Nat /\ up[d][W[j]] >= opt + 2 - j
      /\ \A j \in 2..(opt + 1) : up[Opposite(d)][W[j]] \in Nat /\ up[Opposite(d)][W[j]] >= j - 1
      /\ \A l \in 1..(opt + 1) : \A j \in 2..(opt + 1) : j >= l => CharacterOf(W[j]) \in avail[d][W[l]]
      /\ \A l \in 2..(opt + 1) : \A j \in 2..l : CharacterOf(W[j]) \in avail[Opposite(d)][W[l]]
      /\ \A l \in 1..opt : W[l + 1] \in SuccessorMatches(d, W[l]) => W[l + 1] \in succ[d][W[l]]
  BY <1>1, ThreadCovered
<1>4. s \in active /\ s \in succ[d][m]
  BY <1>1, <1>2, <1>3
<1>5. up[Opposite(d)][s] \in Nat /\ up[Opposite(d)][s] >= i /\ up[d][s] \in Nat /\ up[d][s] >= opt + 1 - i
  <2>1. up[Opposite(d)][s] \in Nat /\ up[Opposite(d)][s] >= (i + 1) - 1 /\ up[d][s] \in Nat /\ up[d][s] >= opt + 2 - (i + 1)
    BY <1>1, <1>3
  <2> HIDE DEF s
  <2> QED BY <2>1
<1>6. CharacterOf(s) \in avail[d][m]
  <2>1. i + 1 >= i
    OBVIOUS
  <2> QED BY <1>1, <1>3, <2>1
<1>7. m \in Inner => CharacterOf(s) # CharacterOf(m)
  BY <1>2, SuccessorFacts
<1>8. \A j \in 2..i : CharacterOf(W[j]) \in avail[Opposite(d)][m]
  <2> SUFFICES ASSUME NEW j \in 2..i PROVE CharacterOf(W[j]) \in avail[Opposite(d)][m]
    OBVIOUS
  <2>1. i \in 2..(opt + 1)
    OBVIOUS
  <2> QED BY <1>3, <2>1
<1>9. EnoughCharactersAvailable(i, avail[Opposite(d)][m], avail[d][s])
  <2>1. Opposite(d) \in Directions
    BY DirectionFacts
  <2>2. avail[Opposite(d)][m] \in SUBSET Present /\ avail[d][s] \in SUBSET Present
    BY <1>2, <2>1 DEF BoundsOK
  <2>3. IsFiniteSet(avail[Opposite(d)][m]) /\ IsFiniteSet(avail[d][s])
    BY <2>2, PresentFacts
  <2>4. \A j \in (i + 1)..(opt + 1) : CharacterOf(W[j]) \in avail[d][s]
    <3> SUFFICES ASSUME NEW j \in (i + 1)..(opt + 1) PROVE CharacterOf(W[j]) \in avail[d][s]
      OBVIOUS
    <3>1. j \in 2..(opt + 1) /\ j >= i + 1 /\ i + 1 \in 1..(opt + 1)
      OBVIOUS
    <3> QED BY <1>3, <3>1
  <2> DEFINE P == avail[Opposite(d)][m]
             S == avail[d][s]
  <2> HIDE DEF P, S
  <2>5. IsFiniteSet(P) /\ IsFiniteSet(S) /\ (\A j \in 2..i : CharacterOf(W[j]) \in P)
        /\ \A j \in (i + 1)..(opt + 1) : CharacterOf(W[j]) \in S
    BY <1>8, <2>3, <2>4 DEF P, S
  <2>6. EnoughCharactersAvailable(i, P, S)
    BY <1>1, <2>5, EnoughOnWay
  <2> QED BY <2>6 DEF P, S
<1>10. s \in Candidates(d, depth, m)
  <2>1. depth + 1 <= up[Opposite(d)][s]
    BY <1>1, <1>5
  <2>2. depth + 1 + up[d][s] > lower
    BY <1>1, <1>5
  <2>3. EnoughCharactersAvailable(depth + 1, avail[Opposite(d)][m], avail[d][s])
    BY <1>1, <1>9
  <2> HIDE DEF s, m
  <2> QED BY <1>2, <1>4, <1>6, <1>7, <2>1, <2>2, <2>3 DEF Candidates
<1>11. PICK passed \in SUBSET Candidates(d, depth, m) :
              /\ LinkedMatches(d, depth, m) = passed \cap active
              /\ \A x : x \in passed <=>
                     /\ x \in Candidates(d, depth, m)
                     /\ Unbeaten(d, depth, m, {t \in Candidates(d, depth, m) : Nearer(d, t, x) /\ t \in passed})
  BY LinkedUnfold
<1> DEFINE before == {t \in Candidates(d, depth, m) : Nearer(d, t, s) /\ t \in passed}
<1>12. m # Sink(d)
  <2>1. Before(d, m, s)
    BY <1>2, SuccessorFacts
  <2>2. Before(d, s, Sink(d))
    BY <1>2, EndsFacts
  <2>3. Sink(d) \in Nodes
    BY DirectionFacts
  <2> QED BY <1>2, <2>1, <2>2, <2>3, BeforeFacts
<1>13. \A t \in before : t \in SuccessorMatches(d, m) /\ Nearer(d, t, s)
  BY <1>2, <1>12 DEF Candidates, ArcsOK
<1>14. \A t \in before : CharacterOf(t) \in Used(W, i) /\ (m \in Inner => CharacterOf(t) # CharacterOf(m))
  BY <1>2, <1>13, SuccessorFacts
<1> HIDE DEF before
<1>15. Unbeaten(d, depth, m, before)
  <2>1. \A t \in before : CharacterOf(t) \in avail[Opposite(d)][m]
    BY <1>8, <1>14 DEF Used
  <2>2. ~Dominated(d, before, depth)
    <3>1. CASE i = 1
      BY <1>1, <3>1 DEF Dominated
    <3>2. CASE i # 1
      <4>1. i \in 2..(opt + 1) /\ m \in Inner
        BY <1>1, <3>2 DEF Thread
      <4>2. Used(W, i) = Span(W, 2, i)
        BY DEF Used, Span
      <4>3. 2 \in 2..(opt + 2) /\ i \in 1..(opt + 1) /\ 2 <= i + 1
        BY <4>1
      <4>4. IsFiniteSet(Used(W, i)) /\ Cardinality(Used(W, i)) = i + 1 - 2
        BY <1>1, <4>2, <4>3, SpanFacts
      <4> DEFINE Y == Used(W, i) \ {CharacterOf(m)}
      <4>5. CharacterOf(m) \in Used(W, i)
        BY <4>1 DEF Used
      <4>6. IsFiniteSet(Y) /\ Cardinality(Y) = Cardinality(Used(W, i)) - 1
        BY <4>4, <4>5, FS_RemoveElement
      <4>7. \A t \in before : CharacterOf(t) \in Y
        BY <1>14, <4>1
      <4>8. before \subseteq SuccessorMatches(d, m)
        BY <1>13
      <4> HIDE DEF Y, s, m
      <4>9. Cardinality(Y) < depth
        BY <1>1, <4>4, <4>6
      <4> QED BY <1>1, <1>2, <4>6, <4>7, <4>8, <4>9, NotDominated
    <3> QED BY <3>1, <3>2
  <2> QED BY <2>1, <2>2 DEF Unbeaten
<1>16. s \in passed
  BY <1>10, <1>11, <1>15 DEF before
<1> QED BY <1>4, <1>11, <1>16

(* What the first MDD is made of.                                          *)
NodeAt(k, m) == <<k, m, {}>>

LEMMA InitialParts ==
    ASSUME GraphIsReduced, NEW d \in Directions, NEW fresh \in BOOLEAN
    PROVE  LET M == InitialMdd(d, fresh)
           IN  /\ IsDiagram(M) /\ M.side = d
               /\ \A n \in NodesOf(M) : n # RootNode(d) => M.facts[n] = NewFacts(d, MatchOf(n))
               /\ M.facts[RootNode(d)] = RootFacts(d, fresh)
               /\ \A i \in 1..Len(M.levels) : \A n \in M.levels[i] : i = DepthOf(n) + 1
               /\ \E matches \in [0..upper -> SUBSET Nodes] :
                     /\ matches[0] = {Source(d)}
                     /\ \A k \in 0..upper, l \in 0..upper : l = k + 1 =>
                           \A m \in matches[k] : LinkedMatches(d, k, m) \subseteq matches[l]
                     /\ \A k \in 0..upper : \A m \in matches[k] : NodeAt(k, m) \in NodesOf(M)
                     /\ \A k \in 0..upper, l \in 0..upper : l = k + 1 =>
                           \A m \in matches[k] : \A s \in LinkedMatches(d, k, m) :
                              <<NodeAt(k, m), NodeAt(l, s)>> \in M.arcs
<1> DEFINE M == InitialMdd(d, fresh)
<1>1. PICK matches \in [0..upper -> SUBSET Nodes] :
              /\ M = MddOver(d, fresh, matches)
              /\ \A k \in 0..upper :
                    matches[k] = IF k = 0 THEN {Source(d)}
                                 ELSE UNION {LinkedMatches(d, k - 1, m) : m \in matches[k - 1]}
  BY MatchesUnfold
<1>2. IsDiagram(M) /\ M.side = d
  BY InitialDiagram
<1> HIDE DEF M
<1> DEFINE depths == {k \in 0..upper : matches[k] # {}}
           nodes(k) == {<<k, m, {}>> : m \in matches[k]}
           links(n) == {<<n, <<DepthOf(n) + 1, s, {}>>>> : s \in LinkedMatches(d, DepthOf(n), MatchOf(n))}
           inner == UNION {nodes(k) : k \in depths \ {0}}
           size == Cardinality(depths)
           levels == [i \in 1..size |-> nodes(i - 1)]
           arcs == UNION {links(n) : n \in UNION {nodes(k) : k \in depths \ {upper}}}
           facts == [n \in inner \cup {RootNode(d)} |->
                       IF n \in inner THEN NewFacts(d, MatchOf(n)) ELSE RootFacts(d, fresh)]
<1>3. M = [side |-> d, levels |-> levels, arcs |-> arcs, facts |-> facts]
  BY <1>1 DEF MddOver
<1>4. upper \in Nat /\ strings \in Inputs
  BY CharactersFinite DEF GraphIsReduced
<1>5. matches[0] = {Source(d)}
  BY <1>1, <1>4
<1>6. ASSUME NEW k \in 0..upper, NEW l \in 0..upper, l = k + 1
      PROVE  /\ l # 0 /\ matches[l] = UNION {LinkedMatches(d, k, m) : m \in matches[k]}
             /\ k \in 0..upper /\ k # upper
  <2>1. l # 0 /\ l - 1 = k /\ k # upper
    BY <1>4, <1>6
  <2> QED BY <1>1, <2>1
<1>7. \A k \in 0..upper : \A n \in nodes(k) : DepthOf(n) = k /\ MatchOf(n) \in matches[k]
  BY DEF DepthOf, MatchOf
<1>8. \A k \in 0..upper : \A m \in matches[k] : NodeAt(k, m) \in nodes(k) /\ k \in depths
  BY DEF NodeAt
<1>9. M.facts = facts /\ M.arcs = arcs /\ M.levels = levels
  BY <1>3
<1>10. DOMAIN M.facts = NodesOf(M) /\ RootNode(d) \in NodesOf(M)
  BY <1>2, <1>4, DiagramFacts
<1>11. DOMAIN M.facts = inner \cup {RootNode(d)}
  <2> HIDE DEF inner
  <2> QED BY <1>9
<1>12. RootNode(d) \notin inner
  <2> SUFFICES ASSUME NEW k \in depths \ {0}, RootNode(d) \in nodes(k) PROVE FALSE
    OBVIOUS
  <2>1. DepthOf(RootNode(d)) = 0
    BY DEF DepthOf, RootNode
  <2>2. DepthOf(RootNode(d)) = k /\ k # 0
    BY <1>7
  <2> QED BY <2>1, <2>2
<1>13. /\ \A n \in NodesOf(M) : n # RootNode(d) => M.facts[n] = NewFacts(d, MatchOf(n))
       /\ M.facts[RootNode(d)] = RootFacts(d, fresh)
  <2> HIDE DEF inner
  <2> QED BY <1>9, <1>10, <1>11, <1>12
<1>14. \A i \in 1..Len(M.levels) : \A n \in M.levels[i] : i = DepthOf(n) + 1
  <2>1. depths \subseteq 0..upper /\ IsFiniteSet(0..upper)
    <3>1. 0 \in Int /\ upper \in Int
      BY <1>4
    <3> QED BY <3>1, FS_Interval
  <2>2. IsFiniteSet(depths) /\ size \in Nat /\ size <= upper + 1
    <3> HIDE DEF depths
    <3>1. IsFiniteSet(depths)
      BY <2>1, FS_Subset
    <3>2. Cardinality(0..upper) = IF 0 > upper THEN 0 ELSE upper - 0 + 1
      <4>1. 0 \in Int /\ upper \in Int
        BY <1>4
      <4> QED BY <4>1, FS_Interval
    <3>3. Cardinality(depths) <= Cardinality(0..upper)
      BY <2>1, AtLeast
    <3>4. Cardinality(depths) \in Nat
      BY <3>1, FS_CardinalityType
    <3> QED BY <1>4, <3>1, <3>2, <3>3, <3>4
  <2> HIDE DEF size
  <2>3. Len(levels) = size
    BY <2>2
  <2> SUFFICES ASSUME NEW i \in 1..size, NEW n \in levels[i] PROVE i = DepthOf(n) + 1
    BY <1>9, <2>3
  <2>4. n \in nodes(i - 1) /\ i - 1 \in 0..upper
    <3>1. n \in nodes(i - 1)
      OBVIOUS
    <3>4. i - 1 \in 0..upper
      BY <1>4, <2>2
    <3> QED BY <3>1, <3>4
  <2> HIDE DEF nodes
  <2>5. DepthOf(n) = i - 1
    BY <1>7, <2>4
  <2> QED BY <2>2, <2>5
<1>15. \A k \in 0..upper : \A m \in matches[k] : NodeAt(k, m) \in NodesOf(M)
  <2> SUFFICES ASSUME NEW k \in 0..upper, NEW m \in matches[k] PROVE NodeAt(k, m) \in inner \cup {RootNode(d)}
    BY <1>10, <1>11
  <2>1. CASE k = 0
    BY <2>1, <1>5 DEF NodeAt, RootNode
  <2>2. CASE k # 0
    <3>1. k \in depths \ {0} /\ NodeAt(k, m) \in nodes(k)
      BY <2>2, <1>8
    <3> HIDE DEF nodes, depths
    <3> QED BY <3>1
  <2> QED BY <2>1, <2>2
<1>16. ASSUME NEW k \in 0..upper, NEW l \in 0..upper, l = k + 1, NEW m \in matches[k],
              NEW s \in LinkedMatches(d, k, m)
       PROVE  <<NodeAt(k, m), NodeAt(l, s)>> \in arcs
  <2>1. k \in depths \ {upper} /\ NodeAt(k, m) \in nodes(k)
    BY <1>6, <1>8, <1>16
  <2>2. DepthOf(NodeAt(k, m)) = k /\ MatchOf(NodeAt(k, m)) = m
    BY DEF NodeAt, DepthOf, MatchOf
  <2>3. <<NodeAt(k, m), NodeAt(l, s)>> \in links(NodeAt(k, m))
    BY <1>16, <2>2 DEF NodeAt
  <2> HIDE DEF nodes, depths, links
  <2> QED BY <2>1, <2>3
<1>17. ASSUME NEW k \in 0..upper, NEW l \in 0..upper, l = k + 1, NEW m \in matches[k]
       PROVE  LinkedMatches(d, k, m) \subseteq matches[l]
  BY <1>6, <1>17
<1>18. \E ms \in [0..upper -> SUBSET Nodes] :
                     /\ ms[0] = {Source(d)}
                     /\ \A k \in 0..upper, l \in 0..upper : l = k + 1 =>
                           \A m \in ms[k] : LinkedMatches(d, k, m) \subseteq ms[l]
                     /\ \A k \in 0..upper : \A m \in ms[k] : NodeAt(k, m) \in NodesOf(M)
                     /\ \A k \in 0..upper, l \in 0..upper : l = k + 1 =>
                           \A m \in ms[k] : \A s \in LinkedMatches(d, k, m) :
                              <<NodeAt(k, m), NodeAt(l, s)>> \in M.arcs
  <2> HIDE DEF arcs
  <2>1. matches \in [0..upper -> SUBSET Nodes]
    OBVIOUS
  <2> QED BY <1>5, <1>9, <1>15, <1>16, <1>17, <2>1
<1> HIDE DEF facts, arcs, levels, inner, links, nodes, depths, size
<1> QED BY <1>2, <1>13, <1>14, <1>18 DEF M

LEMMA NewParts ==
    ASSUME NEW d, NEW m, NEW fresh
    PROVE  /\ NewFacts(d, m).active = TRUE /\ NewFacts(d, m).allSink = {}
           /\ NewFacts(d, m).sink = avail[d][m] \ {CharacterOf(m)}
           /\ RootFacts(d, fresh).active = TRUE
<1> QED BY DEF NewFacts, RootFacts

LEMMA InitialSound ==
    ASSUME GraphIsReduced, GraphCovers, OptIsLongest, lower \in Nat, upper >= opt,
           NEW d \in Directions, NEW fresh \in BOOLEAN
    PROVE  Sound(InitialMdd(d, fresh))
<1> DEFINE M == InitialMdd(d, fresh)
<1>1. strings \in Inputs /\ BoundsOK /\ upper \in Nat
  BY CharactersFinite DEF GraphIsReduced
<1>2. /\ IsDiagram(M) /\ M.side = d
      /\ \A n \in NodesOf(M) : n # RootNode(d) => M.facts[n] = NewFacts(d, MatchOf(n))
      /\ M.facts[RootNode(d)] = RootFacts(d, fresh)
  BY InitialParts
<1>3. opt \in Nat
  BY <1>1, LongestSolution DEF OptIsLongest
<1> HIDE DEF M
<1> SUFFICES ASSUME NEW k \in (lower + 1)..Sigma, NEW q, IsFree(M, q, k), NEW i \in 1..(k + 1)
             PROVE  Knows(M.facts[q[i]], q, i, k)
  BY DEF Sound, M
<1> DEFINE W == [j \in 1..(k + 1) |-> MatchOf(q[j])]
<1>4. k \in Nat /\ k > lower
  BY CharactersFinite
<1>5. Thread(d, k, W)
  BY <1>1, <1>2, <1>4, PathThread
<1>6. \A j \in 1..(k + 1) : W[j] = MatchOf(q[j])
  OBVIOUS
<1>7. \A j \in 1..(k + 1) : CharacterOf(W[j]) = Letter(q[j])
  BY DEF Letter
<1> HIDE DEF W
<1>8. k <= opt
  BY <1>1, <1>4, <1>5, ThreadLength
<1>9. /\ \A j \in 2..(k + 1) : up[d][W[j]] \in Nat /\ up[d][W[j]] >= k + 2 - j
      /\ \A l \in 1..(k + 1) : \A j \in 2..(k + 1) : j >= l => CharacterOf(W[j]) \in avail[d][W[l]]
      /\ \A l \in 2..(k + 1) : \A j \in 2..l : CharacterOf(W[j]) \in avail[Opposite(d)][W[l]]
  BY <1>1, <1>4, <1>5, ThreadCovered
<1>10. /\ \A j \in 1..(k + 1) : q[j] \in NodesOf(M)
       /\ \A j \in 2..(k + 1) : q[j] # RootNode(d) /\ MatchOf(q[j]) \in Inner
       /\ q[1] = RootNode(d)
  <2>1. /\ \A j \in 1..(k + 1) : q[j] \in NodesOf(M) /\ DepthOf(q[j]) = j - 1
        /\ \A j \in 2..(k + 1) : /\ q[j] # RootNode(M.side) /\ MatchOf(q[j]) \in Inner
                                 /\ Letter(q[j]) \in Characters
        /\ q[1] = RootNode(M.side)
    BY <1>1, <1>2, <1>4, PathFacts
  <2> QED BY <1>2, <2>1
<1>11. CASE i = 1
  <2>1. M.facts[q[i]] = RootFacts(d, fresh)
    BY <1>2, <1>10, <1>11
  <2>2. \A c \in Coming(q, i, k) : c \in avail[d][Source(d)]
    <3> SUFFICES ASSUME NEW j \in 2..(k + 1) PROVE Letter(q[j]) \in avail[d][Source(d)]
      BY <1>11 DEF Coming, Part
    <3>1. j \in 1..(k + 1) /\ j >= 1 /\ 1 \in 1..(k + 1)
      BY <1>4
    <3>2. W[1] = Source(d)
      BY <1>5 DEF Thread
    <3> QED BY <3>1, <3>2, <1>7, <1>9
  <2>3. Passed(q, i) = {}
    BY <1>1, <1>2, <1>4, <1>11, LetterCounts
  <2>4. upper >= k + 1 - i
    BY <1>1, <1>3, <1>4, <1>8, <1>11
  <2> QED BY <2>1, <2>2, <2>3, <2>4 DEF Knows, Holds, RootFacts
<1>12. CASE i # 1
  <2>1. i \in 2..(k + 1) /\ W[i] = MatchOf(q[i]) /\ Letter(q[i]) = CharacterOf(W[i])
    BY <1>6, <1>7, <1>12
  <2>2. M.facts[q[i]] = NewFacts(d, W[i])
    BY <1>2, <1>10, <2>1
  <2>3. \A c \in Coming(q, i, k) : c \in avail[d][W[i]] \ {CharacterOf(W[i])}
    <3> SUFFICES ASSUME NEW j \in (i + 1)..(k + 1) PROVE Letter(q[j]) \in avail[d][W[i]] \ {Letter(q[i])}
      BY <2>1 DEF Coming, Part
    <3>1. j \in 2..(k + 1) /\ j >= i /\ i \in 1..(k + 1) /\ j # i /\ j \in 1..(k + 1)
      BY <1>4, <2>1
    <3>2. Letter(q[j]) # Letter(q[i])
      BY <2>1, <3>1 DEF IsFree
    <3> QED BY <3>1, <3>2, <1>7, <1>9
  <2>4. \A c \in Passed(q, i) : c \in avail[Opposite(d)][W[i]]
    <3> SUFFICES ASSUME NEW j \in 2..i PROVE Letter(q[j]) \in avail[Opposite(d)][W[i]]
      BY DEF Passed, Part
    <3>1. j \in 1..(k + 1)
      BY <1>4
    <3> QED BY <2>1, <3>1, <1>7, <1>9
  <2>5. Letter(q[i]) \in Passed(q, i)
    BY <2>1 DEF Passed, Part
  <2>6. up[d][W[i]] >= k + 1 - i
    <3>1. up[d][W[i]] \in Nat /\ up[d][W[i]] >= k + 2 - i
      BY <1>9, <2>1
    <3> QED BY <1>4, <3>1
  <2> QED BY <2>1, <2>2, <2>3, <2>4, <2>5, <2>6 DEF Knows, Holds, NewFacts
<1> QED BY <1>11, <1>12

LEMMA SafeEverywhere ==
    ASSUME strings \in Inputs, NEW M, IsDiagram(M), NEW W, SafeThread(M.side, W)
    PROVE  Safe(M, W)
<1> SUFFICES ASSUME NEW i \in 1..opt, NEW n \in NodesOf(M), DepthOf(n) = i - 1, MatchOf(n) = W[i],
                    NEW t \in Succs(M, n), Nearer(M.side, MatchOf(t), W[i + 1])
             PROVE  Letter(t) \in Used(W, i)
  BY DEF Safe
<1>1. PICK a \in M.arcs : a[1] = n /\ a[2] = t
  BY DEF Succs
<1>2. MatchOf(t) \in SuccessorMatches(M.side, W[i])
  BY <1>1 DEF IsDiagram
<1> QED BY <1>2 DEF SafeThread, SafeStep, Letter

LEMMA InitialKeeps ==
    ASSUME GraphIsReduced, GraphCovers, OptIsLongest, lower \in Nat, lower < opt, upper >= opt,
           NEW d \in Directions, NEW fresh \in BOOLEAN, NEW W, SafeThread(d, W)
    PROVE  Keeps(InitialMdd(d, fresh), W)
<1> DEFINE M == InitialMdd(d, fresh)
<1>1. strings \in Inputs /\ BoundsOK /\ ArcsOK /\ upper \in Nat
  BY CharactersFinite DEF GraphIsReduced
<1>2. /\ IsDiagram(M) /\ M.side = d
      /\ \A n \in NodesOf(M) : n # RootNode(d) => M.facts[n] = NewFacts(d, MatchOf(n))
      /\ M.facts[RootNode(d)] = RootFacts(d, fresh)
  BY InitialParts
<1>3. PICK matches \in [0..upper -> SUBSET Nodes] :
                     /\ matches[0] = {Source(d)}
                     /\ \A k \in 0..upper, l \in 0..upper : l = k + 1 =>
                           \A m \in matches[k] : LinkedMatches(d, k, m) \subseteq matches[l]
                     /\ \A k \in 0..upper : \A m \in matches[k] : NodeAt(k, m) \in NodesOf(M)
                     /\ \A k \in 0..upper, l \in 0..upper : l = k + 1 =>
                           \A m \in matches[k] : \A s \in LinkedMatches(d, k, m) :
                              <<NodeAt(k, m), NodeAt(l, s)>> \in M.arcs
  BY InitialParts
<1>4. opt \in Nat
  BY <1>1, LongestSolution DEF OptIsLongest
<1>5. Thread(d, opt, W)
  BY DEF SafeThread
<1> HIDE DEF M
<1>6. \A i \in 1..opt : \A e : e = i - 1 => W[i + 1] \in LinkedMatches(d, e, W[i])
  BY <1>1, <1>4, LinkedOnWay
<1>7. \A i \in 1..(opt + 1) : W[i] \in matches[i - 1]
  <2> DEFINE T == {i \in 1..(opt + 1) : W[i] \notin matches[i - 1]}
  <2> SUFFICES ASSUME T # {} PROVE FALSE
    OBVIOUS
  <2>1. PICK i \in T : \A x \in T : i <= x
    <3>1. T \subseteq Nat
      BY <1>4
    <3> HIDE DEF T
    <3> QED BY <3>1, LeastNumber
  <2>2. i # 1
    <3>1. W[1] \in matches[1 - 1]
      BY <1>3, <1>5 DEF Thread
    <3> QED BY <3>1, <2>1
  <2>3. PICK j \in 1..opt : i = j + 1
    <3>1. i - 1 \in 1..opt /\ i = (i - 1) + 1
      BY <1>4, <2>1, <2>2
    <3> QED BY <3>1
  <2>4. W[j] \in matches[j - 1]
    <3>1. j \notin T
      BY <1>4, <2>1, <2>3
    <3> QED BY <3>1, <1>4
  <2>5. j - 1 \in 0..upper /\ j \in 0..upper /\ j = (j - 1) + 1
    BY <1>1, <1>4
  <2>6. W[i] \in LinkedMatches(d, j - 1, W[j])
    BY <1>6, <2>3
  <2>7. W[i] \in matches[j]
    BY <1>3, <2>4, <2>5, <2>6
  <2>8. i - 1 = j
    BY <2>3
  <2> QED BY <2>1, <2>7, <2>8
<1> DEFINE q == [i \in 1..(opt + 1) |-> NodeAt(i - 1, W[i])]
<1>8. \A i \in 1..(opt + 1) : /\ q[i] = NodeAt(i - 1, W[i]) /\ MatchOf(q[i]) = W[i] /\ i - 1 \in 0..upper
                              /\ q[i] \in NodesOf(M) /\ Letter(q[i]) = CharacterOf(W[i])
  <2> SUFFICES ASSUME NEW i \in 1..(opt + 1)
               PROVE  /\ MatchOf(q[i]) = W[i] /\ i - 1 \in 0..upper
                      /\ q[i] \in NodesOf(M) /\ Letter(q[i]) = CharacterOf(W[i])
    OBVIOUS
  <2>1. i - 1 \in 0..upper
    BY <1>1, <1>4
  <2>2. q[i] = NodeAt(i - 1, W[i])
    OBVIOUS
  <2>3. MatchOf(q[i]) = W[i]
    BY <2>2 DEF NodeAt, MatchOf
  <2> HIDE DEF q
  <2> QED BY <1>3, <1>7, <2>1, <2>2, <2>3 DEF Letter
<1>9. q[1] = RootNode(d)
  <2>1. q[1] = NodeAt(1 - 1, W[1])
    BY <1>4
  <2>2. 1 - 1 = 0 /\ W[1] = Source(d)
    BY <1>5 DEF Thread
  <2>3. q[1] = NodeAt(0, Source(d))
    BY <2>1, <2>2
  <2> HIDE DEF q
  <2> QED BY <2>3 DEF NodeAt, RootNode
<1>10. q \in [1..(opt + 1) -> NodesOf(M)]
  BY <1>8
<1> HIDE DEF q
<1>11. ASSUME NEW i \in 1..opt PROVE <<q[i], q[i + 1]>> \in M.arcs
  <2>1. i \in 1..(opt + 1) /\ i + 1 \in 1..(opt + 1) /\ (i + 1) - 1 = i /\ i - 1 \in 0..upper /\ i \in 0..upper
        /\ i = (i - 1) + 1
    BY <1>1, <1>4
  <2>2. q[i] = NodeAt(i - 1, W[i]) /\ q[i + 1] = NodeAt(i, W[i + 1])
    BY <1>8, <2>1
  <2>3. W[i + 1] \in LinkedMatches(d, i - 1, W[i]) /\ W[i] \in matches[i - 1]
    BY <1>6, <1>7, <2>1
  <2> QED BY <1>3, <2>1, <2>2, <2>3
<1>12. \A i, j \in 2..(opt + 1) : Letter(q[i]) = Letter(q[j]) => i = j
  <2>1. \A i \in 2..(opt + 1) : i \in 1..(opt + 1)
    OBVIOUS
  <2> QED BY <2>1, <1>5, <1>8 DEF Thread
<1>13. IsFree(M, q, opt)
  BY <1>2, <1>9, <1>10, <1>11, <1>12 DEF IsFree
<1>14. \A n \in NodesOf(M) : M.facts[n].active
  <2> SUFFICES ASSUME NEW n \in NodesOf(M) PROVE M.facts[n].active
    OBVIOUS
  <2>1. CASE n = RootNode(d)
    <3>1. M.facts[n] = RootFacts(d, fresh)
      BY <2>1, <1>2
    <3>2. RootFacts(d, fresh).active = TRUE
      BY NewParts
    <3> QED BY <3>1, <3>2
  <2>2. CASE n # RootNode(d)
    <3>1. M.facts[n] = NewFacts(d, MatchOf(n))
      BY <2>2, <1>2
    <3>2. NewFacts(d, MatchOf(n)).active = TRUE
      BY NewParts
    <3> QED BY <3>1, <3>2
  <2> QED BY <2>1, <2>2
<1>15. Way(M, q, W)
  BY <1>8, <1>13, <1>14 DEF Way
<1>16. Safe(M, W)
  BY <1>1, <1>2, SafeEverywhere
<1> QED BY <1>15, <1>16 DEF Keeps, M

(* The first MDD, in either direction, is fine and has the ways of the     *)
(* longest solutions that domination does not give up.                     *)
LEMMA InitialFine ==
    ASSUME GraphIsReduced, GraphCovers, OptIsLongest, lower \in Nat, lower < opt, upper >= opt,
           NEW d \in Directions, NEW fresh \in BOOLEAN
    PROVE  /\ Fine(InitialMdd(d, fresh)) /\ AllActive(InitialMdd(d, fresh))
           /\ \E W : Keeps(InitialMdd(d, fresh), W)
<1> DEFINE M == InitialMdd(d, fresh)
<1>1. /\ M.side = d
      /\ \A n \in NodesOf(M) : n # RootNode(d) => M.facts[n] = NewFacts(d, MatchOf(n))
      /\ M.facts[RootNode(d)] = RootFacts(d, fresh)
      /\ \A i \in 1..Len(M.levels) : \A n \in M.levels[i] : i = DepthOf(n) + 1
  BY InitialParts
<1>2. Sound(M)
  BY InitialSound
<1>3. \E W : Keeps(M, W)
  <2>1. strings \in Inputs
    BY DEF GraphIsReduced
  <2>2. PICK W : SafeThread(d, W)
    BY <2>1, WayExists
  <2> QED BY <2>2, InitialKeeps
<1> HIDE DEF M
<1>4. Local(M)
  <2> SUFFICES ASSUME NEW n \in NodesOf(M), n # RootNode(M.side)
               PROVE  Letter(n) \notin M.facts[n].sink /\ M.facts[n].allSink = {}
    BY DEF Local
  <2>1. M.facts[n] = NewFacts(d, MatchOf(n))
    BY <1>1
  <2> QED BY <2>1, NewParts DEF Letter
<1>5. Aligned(M)
  BY <1>1 DEF Aligned
<1>6. AllActive(M)
  <2> SUFFICES ASSUME NEW n \in NodesOf(M) PROVE M.facts[n].active
    BY DEF AllActive
  <2>1. CASE n = RootNode(d)
    <3>1. M.facts[n] = RootFacts(d, fresh)
      BY <2>1, <1>1
    <3>2. RootFacts(d, fresh).active = TRUE
      BY NewParts
    <3> QED BY <3>1, <3>2
  <2>2. CASE n # RootNode(d)
    <3>1. M.facts[n] = NewFacts(d, MatchOf(n))
      BY <2>2, <1>1
    <3>2. NewFacts(d, MatchOf(n)).active = TRUE
      BY NewParts
    <3> QED BY <3>1, <3>2
  <2> QED BY <2>1, <2>2
<1> QED BY <1>2, <1>3, <1>4, <1>5, <1>6 DEF Fine, M

(* What is said of MDDs depends on the instance alone.                     *)
LEMMA SoundnessUnchanged ==
    ASSUME strings' = strings, lower' = lower, opt' = opt
    PROVE  /\ \A M : Fine(M)' <=> Fine(M)
           /\ \A M : AllActive(M)' <=> AllActive(M)
           /\ \A M, q, W : Way(M, q, W)' <=> Way(M, q, W)
           /\ \A M, W : Keeps(M, W)' <=> Keeps(M, W)
           /\ \A flat, W : FlatHas(flat, W)' <=> FlatHas(flat, W)
           /\ \A flat, d, W : FlatSafe(flat, d, W)' <=> FlatSafe(flat, d, W)
           /\ \A M : Plain(M)' <=> Plain(M)
           /\ OptIsLongest' <=> OptIsLongest
<1>1. Size1' = Size1
  BY DEF Size1
<1>2. \A m : CharacterOf(m)' = CharacterOf(m)
  BY DEF CharacterOf
<1>3. \A d : Source(d)' = Source(d)
  BY DEF Source, Root, Leaf
<1>4. \A d : RootNode(d)' = RootNode(d)
  BY <1>3 DEF RootNode
<1>5. \A n : Letter(n)' = Letter(n)
  BY <1>2 DEF Letter
<1>6. \A M : NodesOf(M)' = NodesOf(M)
  BY DEF NodesOf
<1>7. \A M, q, k : IsFree(M, q, k)' <=> IsFree(M, q, k)
  BY <1>4, <1>5, <1>6 DEF IsFree
<1>8. \A f, q, i, k : Knows(f, q, i, k)' <=> Knows(f, q, i, k)
  BY <1>5 DEF Knows, Holds, Passed, Coming, Part
<1>9. \A M : Sound(M)' <=> Sound(M)
  BY <1>1, <1>7, <1>8 DEF Sound
<1>10. \A M : Local(M)' <=> Local(M)
  BY <1>4, <1>5, <1>6 DEF Local
<1>11. \A M : Aligned(M)' <=> Aligned(M)
  BY DEF Aligned
<1>12. \A M, q, W : Way(M, q, W)' <=> Way(M, q, W)
  BY <1>7 DEF Way
<1>13. \A W, i : Used(W, i)' = Used(W, i)
  BY <1>2 DEF Used
<1>14. \A d, s, t : Nearer(d, s, t)' <=> Nearer(d, s, t)
  BY DEF Nearer, Position, Leaf
<1>15. \A M, W : Safe(M, W)' <=> Safe(M, W)
  <2>1. \A M, n : Succs(M, n)' = Succs(M, n)
    BY DEF Succs
  <2> QED BY <1>5, <1>6, <1>13, <1>14, <2>1 DEF Safe
<1>16. \A flat, W : FlatHas(flat, W)' <=> FlatHas(flat, W)
  BY DEF FlatHas
<1>17. \A flat, d, W : FlatSafe(flat, d, W)' <=> FlatSafe(flat, d, W)
  BY <1>2, <1>13, <1>14 DEF FlatSafe
<1>18. OptIsLongest' <=> OptIsLongest
  BY DEF OptIsLongest
<1>19. \A M : Plain(M)' <=> Plain(M)
  BY <1>6 DEF Plain
<1>20. \A M : AllActive(M)' <=> AllActive(M)
  BY <1>6 DEF AllActive
<1>21. \A M : Fine(M)' <=> Fine(M)
  BY <1>9, <1>10, <1>11 DEF Fine
<1>22. \A M, W : Keeps(M, W)' <=> Keeps(M, W)
  BY <1>12, <1>15 DEF Keeps
<1> QED BY <1>12, <1>16, <1>17, <1>18, <1>19, <1>20, <1>21, <1>22
================================================================================
