-------------------------- MODULE MddSoundnessProofs ---------------------------
(***************************************************************************)
(* Proofs that MddReduction keeps a longest solution, its bounds valid and *)
(* what its nodes know true, for all strings over any alphabet.            *)
(*                                                                         *)
(* These properties are not inductive. A path is safe from the filter only *)
(* if nothing before the next match of it can dominate that match, so the  *)
(* way W of a longest solution is chosen with that property (Safe) and     *)
(* stays the same one in the parent's MDD, in the child's MDDs and in the  *)
(* layout, until the child keeps only one path. OptInv says so, as long as *)
(* the lower bound is below opt; the solution comes from the reduction of  *)
(* the graph, whose chains are covered (GraphCovers) until the first MDD   *)
(* is built.                                                               *)
(*                                                                         *)
(* That one path is found by going from best bound to best bound. It gets  *)
(* as far as the longest solutions because the bounds are accounted for by *)
(* those of successors once nothing is pending (Tight, Settled), and what  *)
(* it needs of the layout is in it (InFlat): EndInv.                       *)
(***************************************************************************)
EXTENDS MddReductionProofs

(* What the MDDs are built on: once the graph is reduced and the gap is    *)
(* open, it also knows the characters behind each match.                   *)
CoveredWhenDone == pc = "done" /\ lower < upper => AvailableBehind

CoverPart ==
    /\ OptIsLongest
    /\ IF step = "graph" THEN CoveredWhenDone ELSE step # "solver" => GraphCovers

LEMMA GraphStaysCovered ==
    ASSUME IInv, CoveredWhenDone, Next
    PROVE  CoveredWhenDone'
<1>1. GraphOK /\ GraphOK'
  <2>1. IInv'
    BY EveryStep
  <2> QED BY <2>1 DEF IInv
<1>2. CASE ReduceGraph
  <2>1. pc = "reduce" /\ lower' = lower /\ strings' = strings /\ avail' = avail
    BY <1>2 DEF ReduceGraph
  <2>2. AvailableBehind
    BY <2>1 DEF IInv, AvailableCover, AvailableBehind
  <2>3. lower \in Nat /\ lower' >= lower
    BY <1>1, <2>1, LongestSolution DEF GraphOK, ControlOK
  <2>4. Better' \subseteq Better
    BY <1>1, <2>1, <2>3, BetterShrinks
  <2>5. \A d \in Directions, C \in Chains : Places(d, C)' = Places(d, C)
    BY <2>1, StringsUnchanged
  <2>6. \A C, d, m : From(d, C, m)' = From(d, C, m)
    BY <2>1 DEF From, Before, Root, Leaf
  <2>7. \A X : Letters(X)' = Letters(X)
    BY <2>1, StringsUnchanged
  <2>8. Better \subseteq Chains
    BY DEF Better
  <2>9. AvailableBehind'
    BY <2>1, <2>2, <2>4, <2>5, <2>6, <2>7, <2>8 DEF AvailableBehind
  <2> QED BY <2>9 DEF CoveredWhenDone
<1>3. CASE CalculateSimpleUpperBounds \/ DeactivateMatches
  <2>1. pc' # "done"
    BY <1>3 DEF CalculateSimpleUpperBounds, DeactivateMatches
  <2> QED BY <2>1 DEF CoveredWhenDone
<1>4. CASE /\ ~CalculateSimpleUpperBounds /\ ~DeactivateMatches /\ ~ReduceGraph
  <2>1. \/ HeuristicImproves \/ HeuristicStops
        \/ StartRelaxation \/ RelaxCharacter \/ SkipCharacter \/ EndRelaxationRound
        \/ RelaxSelected \/ EndRelaxation
    BY <1>4 DEF Next
  <2>2. pc' = "done" => lower' >= upper'
    BY <2>1 DEF HeuristicImproves, HeuristicStops, StartRelaxation, RelaxCharacter, SkipCharacter,
                EndRelaxationRound, RelaxSelected, EndRelaxation, Enter
  <2>3. lower' \in Int /\ upper' \in Int
    BY <1>1, LongestSolution, CharactersFinite DEF GraphOK, ControlOK
  <2> QED BY <2>2, <2>3 DEF CoveredWhenDone
<1> QED BY <1>2, <1>3, <1>4

LEMMA GraphCoversUnchanged ==
    ASSUME strings \in Inputs, lower \in Nat, strings' = strings, lower' = lower, UNCHANGED graphVars
    PROVE  GraphCovers' <=> GraphCovers
<1>1. /\ active' = active /\ up' = up /\ avail' = avail /\ succ' = succ /\ dom' = dom
  BY DEF graphVars
<1>2. /\ Inner' = Inner /\ Nodes' = Nodes /\ Chains' = Chains
      /\ \A d \in Directions : Source(d)' = Source(d)
      /\ \A d \in Directions, C \in Chains : Places(d, C)' = Places(d, C)
      /\ \A X : Letters(X)' = Letters(X) /\ Weight(X)' = Weight(X)
  BY StringsUnchanged
<1>3. Better' = Better
  BY <1>2 DEF Better
<1>4. \A C, d, m : From(d, C, m)' = From(d, C, m)
  BY DEF From, Before, Root, Leaf
<1>5. \A d, m : SuccessorMatches(d, m)' = SuccessorMatches(d, m)
  <2>1. \A m : CharacterOf(m)' = CharacterOf(m)
    BY DEF CharacterOf
  <2> QED BY <1>2, <2>1 DEF SuccessorMatches
<1>6. \A d, C, m, t : IsNext(d, C, m, t)' <=> IsNext(d, C, m, t)
  BY DEF IsNext, Rest, Before, Root, Leaf
<1>7. \A d, X : Dominating(d, X)' = Dominating(d, X)
  BY DEF Dominating, Before, Root, Leaf
<1>8. \A C \in Better : C \in Chains
  BY DEF Better
<1>9. BetterStayActive' <=> BetterStayActive
  BY <1>1, <1>3 DEF BetterStayActive
<1>10. BoundsCover' <=> BoundsCover
  BY <1>1, <1>2, <1>3, <1>4 DEF BoundsCover
<1>11. AvailableBehind' <=> AvailableBehind
  BY <1>1, <1>2, <1>3, <1>4, <1>8 DEF AvailableBehind
<1>12. ArcsStay' <=> ArcsStay
  BY <1>1, <1>2, <1>3, <1>5, <1>6, <1>7, <1>8 DEF ArcsStay
<1> QED BY <1>9, <1>10, <1>11, <1>12 DEF GraphCovers

(* The cover is kept by the steps of the reduction by the MDD.             *)
LEMMA CoverPartKept ==
    ASSUME CoverPart, strings \in Inputs, lower \in Nat, step # "graph", step' # "graph",
           step = "solver" => step' = "solver", UNCHANGED fixedVars
    PROVE  CoverPart'
<1>1. strings' = strings /\ lower' = lower /\ opt' = opt /\ UNCHANGED graphVars
  BY DEF fixedVars
<1>2. OptIsLongest'
  BY <1>1, SoundnessUnchanged DEF CoverPart
<1>3. step' # "solver" => GraphCovers'
  BY <1>1, GraphCoversUnchanged DEF CoverPart
<1> QED BY <1>2, <1>3 DEF CoverPart

(* The names of nodes: a node is split once on a character.                *)
NamePart ==
    /\ task = "copy" => Plain(mdd)
    /\ Plain(selection)
    /\ \A n \in NodesOf(work) : n[3] \subseteq refined
    /\ step \in Filtering /\ task = "refine" => \A n \in NodesOf(mdd) : n[3] \subseteq refined \cup {split}
    /\ step = "split" => \A j \in at..Len(mdd.levels) : \A n \in mdd.levels[j] : split \notin n[3]

(* As long as the lower bound is not optimal: the bounds are valid;        *)
BoundPart ==
    /\ upper >= opt
    /\ ChildRuns \/ step = "merge" => parentUpper >= opt
    /\ Published => shared.upper >= opt

(* what is known of nodes is true;                                         *)
FactPart ==
    /\ Fine(mdd) /\ Fine(work) /\ Fine(selection) /\ Fine(parent)
    /\ AllActive(parent)
    /\ task \notin ChildTasks => AllActive(mdd)

(* and a longest solution W remains, the same one in the layout and in     *)
(* what the parent and the child work on.  In the end the child keeps      *)
(* another one, and looks no more at the nodes' being active.              *)
Kept(M, W) == M # NoMdd => Keeps(M, W)

Remains(W) ==
    /\ Len(shared.flat) \in Nat /\ FlatHas(shared.flat, W) /\ FlatSafe(shared.flat, parent.side, W)
    /\ \E q : Way(parent, q, W)
    /\ Kept(mdd, W)
    /\ IF step = "layout" THEN Keeps(CopyOf(work), W) /\ \E V : Keeps(selection, V)
                          ELSE Kept(work, W) /\ Kept(selection, W)

WayPart ==
    IF Published THEN \E W : Remains(W)
                 ELSE (\E W : Kept(mdd, W)) /\ (\E W : Kept(parent, W))

OptInv ==
    /\ CoverPart /\ NamePart
    /\ step # "graph" /\ lower < opt => BoundPart /\ FactPart /\ WayPart

LEMMA OptFacts ==
    ASSUME MddInv, OptInv
    PROVE  /\ strings \in Inputs /\ lower \in Nat /\ upper \in 0..Sigma /\ upper \in Nat /\ Sigma \in Nat
           /\ OptIsLongest /\ opt \in 0..Sigma /\ opt \in Nat
<1>1. strings \in Inputs /\ lower \in 0..Sigma /\ upper \in 0..Sigma
  BY DEF MddInv, GraphPart
<1>2. OptIsLongest
  BY DEF OptInv, CoverPart
<1>3. opt \in 0..Sigma
  BY <1>1, <1>2, LongestSolution DEF OptIsLongest
<1>4. Sigma \in Nat
  BY CharactersFinite
<1> QED BY <1>1, <1>2, <1>3, <1>4

LEMMA OptFromParts ==
    ASSUME MddInv, OptInv, step # "graph", step' # "graph", step = "solver" => step' = "solver",
           UNCHANGED fixedVars, NamePart', lower < opt => BoundPart' /\ FactPart' /\ WayPart'
    PROVE  OptInv'
<1>1. CoverPart'
  BY OptFacts, CoverPartKept DEF OptInv
<1>2. lower' = lower /\ opt' = opt
  BY DEF fixedVars
<1> QED BY <1>1, <1>2 DEF OptInv

LEMMA DiagramIsThere ==
    ASSUME NEW M, IsDiagram(M)
    PROVE  M # NoMdd
<1>1. Len(M.levels) >= 1
  BY DEF IsDiagram
<1>2. Len(NoMdd.levels) = 0
  BY DEF NoMdd
<1> QED BY <1>1, <1>2

LEMMA NoMddParts ==
    ASSUME strings \in Inputs, lower \in Nat
    PROVE  /\ NodesOf(NoMdd) = {} /\ Fine(NoMdd) /\ AllActive(NoMdd) /\ Plain(NoMdd)
           /\ \A W : Kept(NoMdd, W)
<1>1. NodesOf(NoMdd) = {} /\ Len(NoMdd.levels) = 0
  BY DEF NodesOf, NoMdd
<1>2. \A k, q : k \in Nat => ~IsFree(NoMdd, q, k)
  <2> SUFFICES ASSUME NEW k \in Nat, NEW q, IsFree(NoMdd, q, k) PROVE FALSE
    OBVIOUS
  <2>1. 1 \in 1..(k + 1)
    OBVIOUS
  <2>2. q[1] \in NodesOf(NoMdd)
    BY <2>1 DEF IsFree
  <2> QED BY <1>1, <2>2
<1>3. Sound(NoMdd)
  <2>1. \A k \in (lower + 1)..Sigma : k \in Nat
    BY CharactersFinite
  <2> QED BY <1>2, <2>1 DEF Sound
<1>4. Local(NoMdd) /\ Aligned(NoMdd)
  BY <1>1 DEF Local, Aligned
<1> QED BY <1>1, <1>3, <1>4 DEF Kept, AllActive, Plain, Fine

(* The filter deactivates no node.                                         *)
LEMMA VisitedActive ==
    ASSUME strings \in Inputs, NEW M, IsDiagram(M), NEW i \in 1..Len(M.levels),
           NEW new \in [M.levels[i] -> Known], NEW filtered,
           \A n \in M.levels[i] : new[n].active = M.facts[n].active, AllActive(M)
    PROVE  AllActive(Visited(M, i, new, filtered).mdd)
<1> DEFINE N == Visited(M, i, new, filtered).mdd
<1>1. /\ NodesOf(N) = NodesOf(M) \ VisitGone(M, i, new)
      /\ \A n \in NodesOf(M) \ VisitGone(M, i, new) : N.facts[n].active = NowKnown(M, i, new, n).active
  BY VisitedParts
<1> HIDE DEF N
<1>2. \A n \in NodesOf(M) : NowKnown(M, i, new, n).active = M.facts[n].active
  BY DEF NowKnown
<1>3. AllActive(N)
  BY <1>1, <1>2 DEF AllActive
<1> QED BY <1>3 DEF N

LEMMA DownVisitActive ==
    ASSUME strings \in Inputs, NEW M, IsDiagram(M), NEW i \in 2..Len(M.levels), Fine(M), AllActive(M)
    PROVE  AllActive(DownVisit(M, i).mdd)
<1> DEFINE updating == {n \in M.levels[i] : M.facts[n].needPred /\ Preds(M, n) # {}}
           learnt == {n \in updating : [M.facts[n] EXCEPT !.needPred = FALSE] # DownKnown(M, i)[n]}
<1>1. DownVisit(M, i) = Visited(M, i, DownKnown(M, i), learnt)
  <2>1. DownKnown(M, i) = [n \in M.levels[i] |-> IF n \in updating THEN UpdatedFromPreds(M, n) ELSE M.facts[n]]
    BY DEF DownKnown
  <2> QED BY <2>1 DEF DownVisit
<1>2. /\ DownKnown(M, i) \in [M.levels[i] -> Known]
      /\ \A n \in M.levels[i] : DownKnown(M, i)[n].active = M.facts[n].active
  BY DownKnownFacts DEF Fine
<1>3. i \in 1..Len(M.levels)
  OBVIOUS
<1> HIDE DEF learnt
<1> QED BY <1>1, <1>2, <1>3, VisitedActive

LEMMA UpVisitActive ==
    ASSUME strings \in Inputs, lower \in Nat, NEW M, IsDiagram(M), NEW i \in 1..Len(M.levels), Fine(M), AllActive(M)
    PROVE  AllActive(UpVisit(M, i).mdd)
<1> DEFINE updating == {n \in M.levels[i] : M.facts[n].needSucc}
<1>1. UpVisit(M, i) = Visited(M, i, UpKnown(M, i), updating)
  <2>1. UpKnown(M, i) = [n \in M.levels[i] |-> IF n \in updating THEN UpdatedFromSuccs(M, n) ELSE M.facts[n]]
    BY DEF UpKnown
  <2> QED BY <2>1 DEF UpVisit
<1>2. /\ UpKnown(M, i) \in [M.levels[i] -> Known]
      /\ \A n \in M.levels[i] : UpKnown(M, i)[n].active = M.facts[n].active
  BY UpKnownFacts DEF Fine
<1> HIDE DEF updating
<1> QED BY <1>1, <1>2, VisitedActive

(* What makes a step of the filter keep the invariant.                     *)
LEMMA NamesFilter ==
    ASSUME MddInv, NamePart, step \in Filtering, step' \in Filtering \ {"split"},
           NEW N, mdd' = N, NodesOf(N) \subseteq NodesOf(mdd), UNCHANGED <<task, childVars>>
    PROVE  NamePart'
<1>1. /\ task' = task /\ work' = work /\ selection' = selection /\ split' = split /\ refined' = refined
  BY DEF childVars
<1>2. \A M : NodesOf(M)' = NodesOf(M)
  BY DEF NodesOf
<1>3. \A M : Plain(M)' <=> Plain(M)
  BY <1>2 DEF Plain
<1>4. Plain(mdd) => Plain(N)
  BY DEF Plain
<1>5. (task = "copy" => Plain(mdd))'
  BY <1>1, <1>3, <1>4 DEF NamePart
<1>6. Plain(selection)'
  BY <1>1, <1>3 DEF NamePart
<1>7. (\A n \in NodesOf(work) : n[3] \subseteq refined)'
  BY <1>1, <1>2 DEF NamePart
<1>8. (step \in Filtering /\ task = "refine" => \A n \in NodesOf(mdd) : n[3] \subseteq refined \cup {split})'
  BY <1>1, <1>2 DEF NamePart, Filtering
<1>9. step' # "split"
  OBVIOUS
<1> QED BY <1>5, <1>6, <1>7, <1>8, <1>9 DEF NamePart

(* The filtered MDD becomes N, which keeps what mdd has kept.              *)
NoLess(N, M) ==
    /\ Fine(M) => Fine(N)
    /\ Fine(M) => \A W : Keeps(M, W) => Keeps(N, W)
    /\ Fine(M) => (AllActive(M) => AllActive(N))

LEMMA FilterSteps ==
    ASSUME MddInv, OptInv, step \in Filtering \ {"split"}, step' \in Filtering \ {"split"},
           NEW N, mdd' = N, IsDiagram(N), NodesOf(N) \subseteq NodesOf(mdd),
           UNCHANGED <<fixedVars, task, childVars, parentVars>>, shared'.flat = shared.flat,
           lower < opt => /\ NoLess(N, mdd) /\ upper' >= opt
                          /\ Published => shared'.upper >= opt
    PROVE  OptInv'
<1>1. step # "graph" /\ step' # "graph" /\ step # "solver" /\ step \in Filtering /\ step' \in Filtering
      /\ step # "merge" /\ step' # "merge" /\ step # "layout" /\ step' # "layout"
  BY DEF Filtering
<1>2. /\ task' = task /\ work' = work /\ selection' = selection /\ parent' = parent
      /\ parentUpper' = parentUpper /\ strings' = strings /\ lower' = lower /\ opt' = opt
  BY DEF childVars, parentVars, fixedVars
<1>3. NamePart'
  BY <1>1, NamesFilter DEF OptInv
<1>4. ASSUME lower < opt PROVE BoundPart' /\ FactPart' /\ WayPart'
  <2>1. BoundPart /\ FactPart /\ WayPart
    BY <1>1, <1>4 DEF OptInv
  <2>2. IsDiagram(mdd)
    BY <1>1 DEF MddInv, MddPart
  <2>3. Published' <=> Published
    BY <1>1, <1>2 DEF Published
  <2>4. ChildRuns' \/ step' = "merge" => ChildRuns
    BY <1>1, <1>2 DEF ChildRuns, Filtering
  <2>5. BoundPart'
    BY <1>2, <1>4, <2>1, <2>3, <2>4 DEF BoundPart
  <2>6. /\ \A M : Fine(M)' <=> Fine(M)
        /\ \A M : AllActive(M)' <=> AllActive(M)
        /\ \A M, q, W : Way(M, q, W)' <=> Way(M, q, W)
        /\ \A M, W : Keeps(M, W)' <=> Keeps(M, W)
        /\ \A flat, W : FlatHas(flat, W)' <=> FlatHas(flat, W)
        /\ \A flat, d, W : FlatSafe(flat, d, W)' <=> FlatSafe(flat, d, W)
    BY <1>2, SoundnessUnchanged
  <2>7. /\ Fine(N) /\ (\A W : Keeps(mdd, W) => Keeps(N, W)) /\ (AllActive(mdd) => AllActive(N))
    BY <1>4, <2>1 DEF NoLess, FactPart
  <2>8. FactPart'
    BY <1>2, <2>1, <2>6, <2>7 DEF FactPart
  <2>9. mdd # NoMdd /\ N # NoMdd
    BY <2>2, DiagramIsThere
  <2>10. \A M, W : Kept(M, W)' <=> Kept(M, W)
    BY <2>6 DEF Kept
  <2>11. \A W : Kept(mdd, W) => Kept(N, W)
    BY <2>7, <2>9 DEF Kept
  <2>12. ASSUME Published PROVE WayPart'
    <3>1. PICK W : Remains(W)
      BY <2>1, <2>12 DEF WayPart
    <3>2. Remains(W)'
      <4>1. (Len(shared.flat) \in Nat)' /\ FlatHas(shared.flat, W)' /\ FlatSafe(shared.flat, parent.side, W)'
        BY <1>2, <2>6, <3>1 DEF Remains
      <4>2. (\E q : Way(parent, q, W))'
        BY <1>2, <2>6, <3>1 DEF Remains
      <4>3. Kept(mdd, W)' /\ Kept(work, W)' /\ Kept(selection, W)'
        BY <1>1, <1>2, <2>10, <2>11, <3>1 DEF Remains
      <4> QED BY <1>1, <4>1, <4>2, <4>3 DEF Remains
    <3> QED BY <2>3, <2>12, <3>2 DEF WayPart
  <2>13. ASSUME ~Published PROVE WayPart'
    <3>1. (\E W : Kept(mdd, W)) /\ (\E W : Kept(parent, W))
      BY <2>1, <2>13 DEF WayPart
    <3>2. (\E W : Kept(mdd, W))' /\ (\E W : Kept(parent, W))'
      BY <1>2, <2>10, <2>11, <3>1
    <3> QED BY <2>3, <2>13, <3>2 DEF WayPart
  <2> QED BY <2>5, <2>8, <2>12, <2>13
<1> QED BY <1>1, <1>3, <1>4, OptFromParts

LEMMA FilterDownSafe ==
    ASSUME MddInv, OptInv, FilterDown
    PROVE  OptInv'
<1> DEFINE N == DownVisit(mdd, at).mdd
<1>1. /\ step = "down" /\ mdd' = N /\ step' \in {"down", "up"} /\ upper' = upper /\ shared' = shared
      /\ UNCHANGED <<fixedVars, task, childVars, parentVars>>
  BY DEF FilterDown
<1>2. IsDiagram(mdd) /\ at \in 2..Len(mdd.levels)
  BY <1>1 DEF MddInv, MddPart, Filtering
<1>3. IsDiagram(N) /\ Smaller(N, mdd)
  BY <1>2, OptFacts, DownVisitDiagram
<1>4. ASSUME lower < opt PROVE NoLess(N, mdd)
  <2>1. Fine(mdd) => Fine(N) /\ \A W : Keeps(mdd, W) => Keeps(N, W)
    BY <1>2, <1>4, OptFacts, DownVisitFine
  <2>2. Fine(mdd) => (AllActive(mdd) => AllActive(N))
    BY <1>2, OptFacts, DownVisitActive
  <2> QED BY <2>1, <2>2 DEF NoLess
<1> HIDE DEF N
<1>5. NodesOf(N) \subseteq NodesOf(mdd)
  BY <1>3 DEF Smaller
<1>6. step \in Filtering \ {"split"} /\ step' \in Filtering \ {"split"}
  BY <1>1 DEF Filtering
<1>7. lower < opt => upper' >= opt /\ (Published => shared'.upper >= opt)
  BY <1>1 DEF OptInv, BoundPart
<1>8. shared'.flat = shared.flat
  BY <1>1
<1>9. lower < opt => /\ NoLess(N, mdd) /\ upper' >= opt
                     /\ Published => shared'.upper >= opt
  BY <1>4, <1>7
<1> QED BY <1>1, <1>3, <1>5, <1>6, <1>8, <1>9, FilterSteps

LEMMA FilterUpSafe ==
    ASSUME MddInv, OptInv, FilterUp
    PROVE  OptInv'
<1> DEFINE N == UpVisit(mdd, at).mdd
<1>1. /\ step = "up" /\ mdd' = N /\ step' \in {"up", "root"} /\ upper' = upper /\ shared' = shared
      /\ UNCHANGED <<fixedVars, task, childVars, parentVars>>
  BY DEF FilterUp
<1>2. IsDiagram(mdd) /\ at \in 2..Len(mdd.levels)
  BY <1>1 DEF MddInv, MddPart, Filtering
<1>3. at \in 1..Len(mdd.levels)
  BY <1>2
<1>4. IsDiagram(N) /\ Smaller(N, mdd)
  BY <1>2, <1>3, OptFacts, UpVisitDiagram
<1>5. ASSUME lower < opt PROVE NoLess(N, mdd)
  <2>1. Fine(mdd) => Fine(N) /\ \A W : Keeps(mdd, W) => Keeps(N, W)
    BY <1>2, <1>3, <1>5, OptFacts, UpVisitFine
  <2>2. Fine(mdd) => (AllActive(mdd) => AllActive(N))
    BY <1>2, <1>3, OptFacts, UpVisitActive
  <2> QED BY <2>1, <2>2 DEF NoLess
<1> HIDE DEF N
<1>6. NodesOf(N) \subseteq NodesOf(mdd)
  BY <1>4 DEF Smaller
<1>7. step \in Filtering \ {"split"} /\ step' \in Filtering \ {"split"}
  BY <1>1 DEF Filtering
<1>8. lower < opt => /\ NoLess(N, mdd) /\ upper' >= opt
                     /\ Published => shared'.upper >= opt
  BY <1>1, <1>5 DEF OptInv, BoundPart
<1>9. shared'.flat = shared.flat
  BY <1>1
<1> QED BY <1>1, <1>4, <1>6, <1>7, <1>8, <1>9, FilterSteps

(* The way that a filtered MDD keeps.                                      *)
LEMMA FilteredKeeps ==
    ASSUME MddInv, OptInv, lower < opt, step \in Filtering
    PROVE  \E W : Keeps(mdd, W) /\ (Published => Remains(W))
<1>1. IsDiagram(mdd) /\ step # "layout"
  BY DEF MddInv, MddPart, Filtering
<1>2. mdd # NoMdd
  BY <1>1, DiagramIsThere
<1>3. WayPart
  BY DEF OptInv, Filtering
<1>4. ASSUME Published PROVE \E W : Keeps(mdd, W) /\ Remains(W)
  <2>1. PICK W : Remains(W)
    BY <1>3, <1>4 DEF WayPart
  <2> QED BY <1>2, <2>1 DEF Remains, Kept
<1>5. ASSUME ~Published PROVE \E W : Keeps(mdd, W)
  BY <1>2, <1>3, <1>5 DEF WayPart, Kept
<1> QED BY <1>4, <1>5

(* The end of a round, whose bound is valid.                               *)
LEMMA RootRound ==
    ASSUME MddInv, OptInv, lower < opt, step = "root", NEW V, V = UpVisit(mdd, 1).mdd,
           NEW u, u = BoundBy(V)
    PROVE  u >= opt /\ NoLess(CutOff(V, u), mdd)
<1>1. IsDiagram(mdd) /\ step \in Filtering
  BY DEF MddInv, MddPart, Filtering
<1>2. 1 \in 1..Len(mdd.levels)
  BY <1>1, OptFacts, DiagramFacts
<1>3. IsDiagram(V) /\ Smaller(V, mdd)
  BY <1>1, <1>2, OptFacts, UpVisitDiagram
<1>4. Fine(mdd) /\ upper >= opt
  BY DEF OptInv, FactPart, BoundPart
<1>5. Fine(V) /\ \A W : Keeps(mdd, W) => Keeps(V, W)
  BY <1>1, <1>2, <1>4, OptFacts, UpVisitFine
<1>6. AllActive(mdd) => AllActive(V)
  BY <1>1, <1>2, <1>4, OptFacts, UpVisitActive
<1>7. PICK W : Keeps(V, W)
  BY <1>1, <1>5, FilteredKeeps
<1>8. u \in Nat /\ u + 1 <= Len(NonEmpty(V.levels))
  BY <1>3, OptFacts, BoundByFacts
<1>9. u >= opt
  BY <1>3, <1>4, <1>5, <1>7, OptFacts, BoundStaysValid
<1>10. opt <= u /\ opt \in Nat
  BY <1>8, <1>9, OptFacts
<1>11. /\ Fine(CutOff(V, u))
       /\ \A U : Keeps(V, U) => Keeps(CutOff(V, u), U)
  BY <1>3, <1>5, <1>7, <1>8, <1>10, OptFacts, CutOffFine
<1>12. AllActive(V) => AllActive(CutOff(V, u))
  <2>1. /\ NodesOf(CutOff(V, u)) = NodesOf(V) \ CutNodes(V, u)
        /\ \A n \in NodesOf(CutOff(V, u)) : CutOff(V, u).facts[n].active = V.facts[n].active
    BY <1>3, <1>8, OptFacts, CutOffParts
  <2> QED BY <2>1 DEF AllActive
<1> QED BY <1>5, <1>6, <1>9, <1>11, <1>12 DEF NoLess

LEMMA FilterRootSafe ==
    ASSUME MddInv, OptInv, FilterRoot
    PROVE  OptInv'
<1> DEFINE V == UpVisit(mdd, 1).mdd
           N == CutOff(V, upper')
<1>1. /\ step = "root" /\ mdd' = N /\ upper' = BoundBy(V)
      /\ UNCHANGED <<fixedVars, task, childVars, parentVars>>
      /\ shared' = IF task \in {"forward", "backward"} THEN shared ELSE [shared EXCEPT !.upper = upper']
      /\ step' \in {"root", "down", "filtered"}
  BY DEF FilterRoot
<1>2. IsDiagram(mdd) /\ SharedPart
  BY <1>1 DEF MddInv, MddPart, Filtering
<1>3. 1 \in 1..Len(mdd.levels)
  BY <1>2, OptFacts, DiagramFacts
<1>4. IsDiagram(V) /\ Smaller(V, mdd)
  BY <1>2, <1>3, OptFacts, UpVisitDiagram
<1>5. lower < opt => upper' >= opt /\ NoLess(N, mdd)
  BY <1>1, RootRound
<1> HIDE DEF V
<1>6. upper' \in Nat /\ upper' + 1 <= Len(NonEmpty(V.levels))
  BY <1>1, <1>4, OptFacts, BoundByFacts
<1>7. IsDiagram(N) /\ Smaller(N, V)
  BY <1>4, <1>6, OptFacts, CutOffDiagram
<1> HIDE DEF N
<1>8. NodesOf(N) \subseteq NodesOf(mdd)
  BY <1>4, <1>7 DEF Smaller
<1>9. step \in Filtering \ {"split"} /\ step' \in Filtering \ {"split"}
  BY <1>1 DEF Filtering
<1>10. shared'.flat = shared.flat /\ (lower < opt /\ Published => shared'.upper >= opt)
  <2>1. CASE task \in {"forward", "backward"}
    BY <1>1, <2>1 DEF OptInv, BoundPart
  <2>2. CASE task \notin {"forward", "backward"}
    <3>1. Published
      BY <2>2 DEF Published
    <3>2. shared = [upper |-> shared.upper, complete |-> shared.complete, flat |-> shared.flat,
                    size |-> shared.size, room |-> shared.room]
      BY <1>2, <3>1 DEF SharedPart
    <3>3. shared'.flat = shared.flat /\ shared'.upper = upper'
      BY <1>1, <2>2, <3>2
    <3> QED BY <1>5, <3>3
  <2> QED BY <2>1, <2>2
<1>11. lower < opt => /\ NoLess(N, mdd) /\ upper' >= opt
                      /\ Published => shared'.upper >= opt
  BY <1>5, <1>10
<1> QED BY <1>1, <1>7, <1>8, <1>9, <1>10, <1>11, FilterSteps

(* What the invariant says of the MDDs while the MDDs are built.           *)
LEMMA OptInitially == MddInit => OptInv
<1> SUFFICES ASSUME MddInit PROVE OptInv
  OBVIOUS
<1>1. /\ Init /\ step = "graph" /\ task = "forward" /\ mdd = NoMdd /\ work = NoMdd /\ selection = NoMdd
  BY DEF MddInit
<1>2. OptIsLongest /\ CoveredWhenDone
  BY <1>1 DEF Init, OptIsLongest, CoveredWhenDone
<1>3. NodesOf(NoMdd) = {}
  BY DEF NodesOf, NoMdd
<1>4. NamePart
  BY <1>1, <1>3 DEF NamePart, Plain
<1> QED BY <1>1, <1>2, <1>4 DEF OptInv, CoverPart

LEMMA GraphStepSafe ==
    ASSUME MddInv, OptInv, GraphStep
    PROVE  OptInv'
<1>1. step = "graph" /\ Next /\ UNCHANGED mddVars
  BY DEF GraphStep
<1>2. /\ step' = step /\ task' = task /\ mdd' = mdd /\ work' = work /\ selection' = selection
      /\ split' = split /\ refined' = refined
  BY <1>1 DEF mddVars, filterVars, childVars
<1>3. IInv
  BY <1>1 DEF MddInv, GraphPart
<1>4. CoveredWhenDone'
  BY <1>1, <1>3, GraphStaysCovered DEF OptInv, CoverPart
<1>5. opt' = opt /\ strings' = strings
  BY <1>1 DEF Next, HeuristicImproves, HeuristicStops, StartRelaxation, RelaxCharacter, SkipCharacter,
              EndRelaxationRound, RelaxSelected, EndRelaxation, CalculateSimpleUpperBounds,
              DeactivateMatches, ReduceGraph
<1>6. OptIsLongest'
  BY <1>5 DEF OptInv, CoverPart, OptIsLongest
<1>7. \A M : NodesOf(M)' = NodesOf(M)
  BY DEF NodesOf
<1>8. NamePart'
  BY <1>1, <1>2, <1>7 DEF NamePart, Plain, OptInv, Filtering
<1> QED BY <1>1, <1>2, <1>4, <1>6, <1>8 DEF OptInv, CoverPart

LEMMA StartForwardSafe ==
    ASSUME MddInv, OptInv, StartForward
    PROVE  OptInv'
<1> DEFINE N == InitialMdd("forward", TRUE)
<1>1. /\ step = "graph" /\ pc = "done" /\ lower < upper /\ task' = "forward"
      /\ BeginFilter(N, upper)
      /\ UNCHANGED <<fixedVars, upper, childVars, parentVars, shared>>
  BY DEF StartForward
<1>2. /\ task = "forward" /\ strings \in Inputs /\ upper \in 0..Sigma /\ IInv /\ BoundedWhenDone
      /\ work = NoMdd /\ selection = NoMdd /\ parent = NoMdd /\ lower \in Nat
  BY <1>1 DEF MddInv, StepsFit, GraphPart, ParentPart, WorkPart, SelectionPart, Filtering, Selecting
<1>3. GraphIsReduced
  BY <1>1, <1>2 DEF IInv, GraphOK, BoundedWhenDone, Bounded, GraphIsReduced
<1>4. GraphCovers /\ OptIsLongest
  BY <1>1, <1>2 DEF IInv, OptInv, CoverPart, CoveredWhenDone, GraphCovers
<1>5. "forward" \in Directions /\ TRUE \in BOOLEAN
  BY DEF Directions
<1>6. IsDiagram(N) /\ Plain(N)
  BY <1>3, <1>5, InitialDiagram DEF Plain
<1>7. lower < opt => upper >= opt
  BY <1>2 DEF IInv, UpperIsBound
<1>8. lower < opt => Fine(N) /\ AllActive(N) /\ \E W : Keeps(N, W)
  BY <1>2, <1>3, <1>4, <1>5, <1>7, InitialFine
<1> HIDE DEF N
<1>9. mdd' = N /\ step' \in {"filtered", "root", "down"}
  BY <1>1, <1>6, FilterBegins
<1>10. /\ strings' = strings /\ lower' = lower /\ opt' = opt /\ upper' = upper
       /\ work' = work /\ selection' = selection /\ parent' = parent /\ UNCHANGED graphVars
  BY <1>1 DEF fixedVars, childVars, parentVars
<1>11. /\ \A M : Fine(M)' <=> Fine(M)
       /\ \A M : AllActive(M)' <=> AllActive(M)
       /\ \A M, W : Keeps(M, W)' <=> Keeps(M, W)
       /\ OptIsLongest' <=> OptIsLongest
  BY <1>10, SoundnessUnchanged
<1>12. CoverPart'
  <2>1. GraphCovers'
    BY <1>2, <1>4, <1>10, GraphCoversUnchanged
  <2> QED BY <1>4, <1>9, <1>11, <2>1 DEF CoverPart
<1>13. \A M : NodesOf(M)' = NodesOf(M)
  BY DEF NodesOf
<1>14. NodesOf(NoMdd) = {} /\ Fine(NoMdd) /\ AllActive(NoMdd) /\ \A W : Kept(NoMdd, W)
  BY <1>2, NoMddParts
<1>15. NamePart'
  BY <1>1, <1>2, <1>9, <1>10, <1>13, <1>14 DEF NamePart, Plain
<1>16. ASSUME lower < opt PROVE BoundPart' /\ FactPart' /\ WayPart'
  <2>1. ~Published' /\ ~ChildRuns' /\ step' # "merge"
    BY <1>1, <1>9 DEF Published, ChildRuns
  <2>2. BoundPart'
    BY <1>7, <1>10, <1>16, <2>1 DEF BoundPart
  <2>3. FactPart'
    BY <1>2, <1>8, <1>9, <1>10, <1>11, <1>14, <1>16 DEF FactPart
  <2>4. \A M, W : Kept(M, W)' <=> Kept(M, W)
    BY <1>11 DEF Kept
  <2>5. \E W : Kept(N, W)
    BY <1>8, <1>16 DEF Kept
  <2>6. WayPart'
    BY <1>2, <1>9, <1>10, <1>14, <2>1, <2>4, <2>5 DEF WayPart
  <2> QED BY <2>2, <2>3, <2>6
<1> QED BY <1>10, <1>12, <1>15, <1>16 DEF OptInv

LEMMA StartBackwardSafe ==
    ASSUME MddInv, OptInv, StartBackward
    PROVE  OptInv'
<1> DEFINE N == InitialMdd("reverse", ~cached)
<1>1. /\ step = "filtered" /\ task = "forward" /\ task' = "backward" /\ parent' = mdd
      /\ BeginFilter(N, upper)
      /\ UNCHANGED <<fixedVars, upper, childVars, parentUpper, shared>>
  BY DEF StartBackward
<1>2. /\ strings \in Inputs /\ upper \in 0..Sigma /\ lower \in Nat /\ GraphIsFixed
      /\ work = NoMdd /\ selection = NoMdd
  BY <1>1 DEF MddInv, StepsFit, GraphPart, WorkPart, SelectionPart, Filtering, Selecting
<1>3. GraphIsReduced
  BY <1>2 DEF GraphIsFixed, GraphIsReduced, Bounded
<1>4. GraphCovers /\ OptIsLongest
  BY <1>1 DEF OptInv, CoverPart
<1>5. "reverse" \in Directions /\ (~cached) \in BOOLEAN
  BY DEF Directions
<1>6. IsDiagram(N) /\ Plain(N)
  BY <1>3, <1>5, InitialDiagram DEF Plain
<1>7. lower < opt => BoundPart /\ FactPart /\ WayPart
  BY <1>1 DEF OptInv
<1>8. lower < opt => Fine(N) /\ AllActive(N) /\ \E W : Keeps(N, W)
  <2>1. lower < opt => upper >= opt
    BY <1>7 DEF BoundPart
  <2> QED BY <1>2, <1>3, <1>4, <1>5, <2>1, InitialFine
<1> HIDE DEF N
<1>9. mdd' = N /\ step' \in {"filtered", "root", "down"}
  BY <1>1, <1>6, FilterBegins
<1>10. /\ strings' = strings /\ lower' = lower /\ opt' = opt /\ upper' = upper
       /\ work' = work /\ selection' = selection /\ split' = split /\ refined' = refined
  BY <1>1 DEF fixedVars, childVars
<1>11. /\ \A M : Fine(M)' <=> Fine(M)
       /\ \A M : AllActive(M)' <=> AllActive(M)
       /\ \A M, W : Keeps(M, W)' <=> Keeps(M, W)
  BY <1>10, SoundnessUnchanged
<1>12. \A M : NodesOf(M)' = NodesOf(M)
  BY DEF NodesOf
<1>13. NodesOf(NoMdd) = {} /\ Fine(NoMdd) /\ AllActive(NoMdd) /\ \A W : Kept(NoMdd, W)
  BY <1>2, NoMddParts
<1>14. NamePart'
  BY <1>1, <1>2, <1>9, <1>10, <1>12, <1>13 DEF NamePart, Plain
<1>15. ASSUME lower < opt PROVE BoundPart' /\ FactPart' /\ WayPart'
  <2>1. ~Published' /\ ~ChildRuns' /\ step' # "merge"
    BY <1>1, <1>9 DEF Published, ChildRuns, Filtering
  <2>2. ~Published
    BY <1>1 DEF Published
  <2>3. BoundPart'
    BY <1>7, <1>10, <1>15, <2>1 DEF BoundPart
  <2>4. Fine(mdd) /\ AllActive(mdd)
    BY <1>1, <1>7, <1>15 DEF FactPart, ChildTasks
  <2>5. FactPart'
    BY <1>1, <1>2, <1>8, <1>9, <1>10, <1>11, <1>13, <1>15, <2>4 DEF FactPart
  <2>6. \A M, W : Kept(M, W)' <=> Kept(M, W)
    BY <1>11 DEF Kept
  <2>7. \E W : Kept(N, W)
    BY <1>8, <1>15 DEF Kept
  <2>8. \E W : Kept(mdd, W)
    BY <1>7, <1>15, <2>2 DEF WayPart
  <2>9. WayPart'
    BY <1>1, <1>9, <2>1, <2>6, <2>7, <2>8 DEF WayPart
  <2> QED BY <2>3, <2>5, <2>9
<1>16. step # "graph" /\ step' # "graph" /\ step # "solver" /\ UNCHANGED fixedVars
  BY <1>1, <1>9
<1> QED BY <1>14, <1>15, <1>16, OptFromParts

(* The layout flat has a longest solution that is a way of P.              *)
FlatKeeps(flat, P) ==
    /\ Len(flat) \in Nat
    /\ \E W : FlatHas(flat, W) /\ FlatSafe(flat, P.side, W) /\ \E q : Way(P, q, W)

(* From a round of the loop to the next one.                               *)
LEMMA RoundsSafe ==
    ASSUME MddInv, OptInv, step # "graph", step # "solver", task # "forward",
           step' \in {"rounds", "merge"}, UNCHANGED <<fixedVars, task>>,
           mdd' = NoMdd, work' = NoMdd, selection' = NoMdd,
           NEW P, parent' = P, NEW flat, shared'.flat = flat,
           lower < opt => /\ upper' >= opt /\ shared'.upper >= opt
                          /\ step' = "merge" => parentUpper' >= opt
                          /\ Fine(P) /\ AllActive(P) /\ FlatKeeps(flat, P)
    PROVE  OptInv'
<1>1. /\ strings' = strings /\ lower' = lower /\ opt' = opt
  BY DEF fixedVars
<1>2. step' \notin Filtering /\ step' # "split" /\ step' # "layout" /\ step' # "graph"
  BY DEF Filtering
<1>3. /\ NodesOf(NoMdd) = {} /\ Fine(NoMdd) /\ AllActive(NoMdd) /\ \A W : Kept(NoMdd, W)
  BY OptFacts, NoMddParts
<1>4. \A M : NodesOf(M)' = NodesOf(M)
  BY DEF NodesOf
<1>5. NamePart'
  BY <1>2, <1>3, <1>4 DEF NamePart, Plain
<1>6. ASSUME lower < opt PROVE BoundPart' /\ FactPart' /\ WayPart'
  <2>1. /\ upper' >= opt /\ shared'.upper >= opt
        /\ step' = "merge" => parentUpper' >= opt
        /\ Fine(P) /\ AllActive(P) /\ FlatKeeps(flat, P)
    BY <1>6
  <2>2. /\ \A M : Fine(M)' <=> Fine(M)
        /\ \A M : AllActive(M)' <=> AllActive(M)
        /\ \A M, q, W : Way(M, q, W)' <=> Way(M, q, W)
        /\ \A M, W : Keeps(M, W)' <=> Keeps(M, W)
        /\ \A f, W : FlatHas(f, W)' <=> FlatHas(f, W)
        /\ \A f, d, W : FlatSafe(f, d, W)' <=> FlatSafe(f, d, W)
    BY <1>1, SoundnessUnchanged
  <2>3. \A M, W : Kept(M, W)' <=> Kept(M, W)
    BY <2>2 DEF Kept
  <2>4. ~ChildRuns'
    BY <1>2 DEF ChildRuns
  <2>5. Published'
    BY <1>2 DEF Published
  <2>6. BoundPart'
    BY <1>1, <2>1, <2>4 DEF BoundPart
  <2>7. FactPart'
    BY <1>3, <2>1, <2>2 DEF FactPart
  <2>8. PICK W : FlatHas(flat, W) /\ FlatSafe(flat, P.side, W) /\ \E q : Way(P, q, W)
    BY <2>1 DEF FlatKeeps
  <2>9. Len(flat) \in Nat
    BY <2>1 DEF FlatKeeps
  <2>10. Remains(W)'
    BY <1>2, <1>3, <2>2, <2>3, <2>8, <2>9 DEF Remains
  <2>11. WayPart'
    BY <2>5, <2>10 DEF WayPart
  <2> QED BY <2>6, <2>7, <2>11
<1> QED BY <1>2, <1>5, <1>6, OptFromParts

(* The layout of an MDD that keeps a way has it.                           *)
LEMMA LaidKeeps ==
    ASSUME strings \in Inputs, opt \in Nat, NEW M, IsDiagram(M), Fine(M), NEW W, Keeps(M, W)
    PROVE  FlatKeeps(Laid(M), M)
<1>1. Aligned(M)
  BY DEF Fine
<1>2. PICK q : Way(M, q, W)
  BY DEF Keeps
<1>3. FlatHas(Laid(M), W)
  BY <1>1, <1>2, LaidHas
<1>4. FlatSafe(Laid(M), M.side, W)
  BY <1>1, LaidSafe
<1>5. Len(Laid(M)) \in Nat
  BY LaidParts, DiagramFacts
<1> QED BY <1>2, <1>3, <1>4, <1>5 DEF FlatKeeps

LEMMA ChooseSideSafe ==
    ASSUME MddInv, OptInv, ChooseSide
    PROVE  OptInv'
<1>1. /\ step = "filtered" /\ task = "backward" /\ step' = "rounds" /\ mdd' = NoMdd
      /\ parent' = IF Cardinality(MatchesIn(parent)) < Cardinality(MatchesIn(mdd)) THEN parent ELSE mdd
      /\ shared' = [upper |-> upper, complete |-> FALSE, flat |-> Laid(parent'),
                    size |-> SizeOf(parent'), room |-> SizeOf(parent')]
      /\ UNCHANGED <<fixedVars, upper, task, childVars, parentUpper>>
  BY DEF ChooseSide
<1>2. /\ IsDiagram(mdd) /\ IsDiagram(parent) /\ work = NoMdd /\ selection = NoMdd
  BY <1>1 DEF MddInv, MddPart, ParentPart, WorkPart, SelectionPart, Filtering, Selecting
<1> DEFINE P == parent'
           flat == Laid(P)
<1>3. /\ parent' = P /\ shared'.flat = flat /\ shared'.upper = upper /\ upper' = upper
      /\ work' = NoMdd /\ selection' = NoMdd
  BY <1>1, <1>2 DEF childVars
<1>4. P = parent \/ P = mdd
  BY <1>1
<1>5. ASSUME lower < opt PROVE upper >= opt /\ Fine(P) /\ AllActive(P) /\ FlatKeeps(flat, P)
  <2>1. BoundPart /\ FactPart /\ WayPart
    BY <1>1, <1>5 DEF OptInv
  <2>2. ~Published
    BY <1>1 DEF Published, Filtering
  <2>3. parent # NoMdd /\ mdd # NoMdd
    BY <1>2, DiagramIsThere
  <2>4. (\E W : Keeps(mdd, W)) /\ (\E W : Keeps(parent, W))
    BY <2>1, <2>2, <2>3 DEF WayPart, Kept
  <2>5. IsDiagram(P) /\ Fine(P) /\ AllActive(P) /\ \E W : Keeps(P, W)
    BY <1>1, <1>2, <1>4, <2>1, <2>4 DEF FactPart, ChildTasks
  <2> HIDE DEF P
  <2>6. FlatKeeps(flat, P)
    BY <2>5, OptFacts, LaidKeeps
  <2> QED BY <2>1, <2>5, <2>6 DEF BoundPart
<1> HIDE DEF P, flat
<1>6. /\ step # "graph" /\ step # "solver" /\ task # "forward" /\ step' \in {"rounds", "merge"}
      /\ step' # "merge" /\ UNCHANGED <<fixedVars, task>>
  BY <1>1
<1>7. lower < opt => /\ upper' >= opt /\ shared'.upper >= opt
                     /\ step' = "merge" => parentUpper' >= opt
                     /\ Fine(P) /\ AllActive(P) /\ FlatKeeps(flat, P)
  BY <1>3, <1>5, <1>6
<1> QED BY <1>1, <1>3, <1>6, <1>7, RoundsSafe

(* What is published, and what the flags leave of the parent's MDD.        *)
LEMMA PublishedFacts ==
    ASSUME MddInv, Published, step # "graph"
    PROVE  /\ IsDiagram(parent) /\ Len(shared.flat) > 0 /\ Source(parent.side) \in shared.flat[1].matches
           /\ shared = [upper |-> shared.upper, complete |-> shared.complete, flat |-> shared.flat,
                        size |-> shared.size, room |-> shared.room]
<1>1. task # "forward" /\ SharedPart
  BY DEF Published, MddInv
<1>2. IsDiagram(parent)
  BY <1>1 DEF MddInv, ParentPart
<1>3. /\ IsFlat(shared.flat, parent.side)
      /\ shared = [upper |-> shared.upper, complete |-> shared.complete, flat |-> shared.flat,
                   size |-> shared.size, room |-> shared.room]
  BY <1>1 DEF SharedPart
<1>4. Len(shared.flat) >= 1 /\ Source(parent.side) \in shared.flat[1].matches
  BY <1>3 DEF IsFlat
<1>5. Len(shared.flat) > 0
  <2>1. Len(shared.flat) >= 1 => Len(shared.flat) > 0
    BY DEF Len
  <2> QED BY <1>4, <2>1
<1> QED BY <1>2, <1>3, <1>4, <1>5

LEMMA ParentPruned ==
    ASSUME MddInv, OptInv, lower < opt, Published, step # "graph", NEW W, Remains(W)
    PROVE  /\ Keeps(PrunedByFlat(parent, shared.flat), W)
           /\ Fine(PrunedByFlat(parent, shared.flat)) /\ AllActive(PrunedByFlat(parent, shared.flat))
           /\ Keeps(PrunedByFlat(CopyOf(parent), shared.flat), W)
           /\ Fine(PrunedByFlat(CopyOf(parent), shared.flat))
<1> DEFINE flat == shared.flat
<1>1. /\ IsDiagram(parent) /\ Len(flat) > 0 /\ Source(parent.side) \in flat[1].matches
  BY PublishedFacts
<1>2. Fine(parent) /\ AllActive(parent)
  BY DEF OptInv, FactPart
<1>3. /\ Len(flat) \in Nat /\ FlatHas(flat, W) /\ FlatSafe(flat, parent.side, W)
      /\ \E q : Way(parent, q, W)
  BY DEF Remains
<1> HIDE DEF flat
<1>4. Keeps(PrunedByFlat(parent, flat), W)
  BY <1>1, <1>3, OptFacts, PrunedByFlatKeeps
<1>5. Fine(PrunedByFlat(parent, flat))
  BY <1>1, <1>2, OptFacts, PrunedFine
<1>6. AllActive(PrunedByFlat(parent, flat))
  <2>1. /\ NodesOf(PrunedByFlat(parent, flat)) = NodesOf(parent) \ FlatGone(parent, flat)
        /\ \A n \in NodesOf(PrunedByFlat(parent, flat)) : PrunedByFlat(parent, flat).facts[n].active = parent.facts[n].active
    BY <1>1, OptFacts, PrunedParts
  <2> QED BY <1>2, <2>1 DEF AllActive
<1>7. Keeps(PrunedByFlat(CopyOf(parent), flat), W)
  BY <1>1, <1>3, <1>4, OptFacts, CopyPrunedKeeps
<1>8. Fine(PrunedByFlat(CopyOf(parent), flat))
  <2>1. IsDiagram(CopyOf(parent)) /\ CopyOf(parent).side = parent.side
    BY <1>1, OptFacts, CopyDiagram
  <2>2. Fine(CopyOf(parent))
    BY <1>1, <1>2, OptFacts, CopyFine
  <2> QED BY <1>1, <2>1, <2>2, OptFacts, PrunedFine
<1> QED BY <1>4, <1>5, <1>6, <1>7, <1>8 DEF flat

(* The filter, or the split, of another MDD begins.                        *)
LEMMA FilterStarts ==
    ASSUME MddInv, OptInv, step # "graph", step # "solver", step # "layout", Published,
           step' \in Filtering, task' \in ChildTasks \cup {"parent"}, NamePart',
           step' = "split" => task' \in ChildTasks,
           UNCHANGED <<fixedVars, parent, selection>>, shared'.flat = shared.flat,
           NEW N, mdd' = N, NEW X, work' = X, X = work \/ X = NoMdd,
           lower < opt => /\ upper' >= opt /\ shared'.upper >= opt
                          /\ task' \in ChildTasks => parentUpper' >= opt
                          /\ Fine(N)
                          /\ task' \notin ChildTasks => AllActive(N)
                          /\ \E W : Remains(W) /\ Keeps(N, W)
    PROVE  OptInv'
<1>1. /\ strings' = strings /\ lower' = lower /\ opt' = opt /\ parent' = parent /\ selection' = selection
      /\ task' # "forward" /\ task' # "backward" /\ step' # "merge" /\ step' # "layout" /\ step' # "graph"
  BY DEF fixedVars, Filtering, ChildTasks
<1>2. /\ Fine(NoMdd) /\ \A W : Kept(NoMdd, W)
  BY OptFacts, NoMddParts
<1>3. ASSUME lower < opt PROVE BoundPart' /\ FactPart' /\ WayPart'
  <2>1. /\ upper' >= opt /\ shared'.upper >= opt
        /\ task' \in ChildTasks => parentUpper' >= opt
        /\ Fine(N)
        /\ task' \notin ChildTasks => AllActive(N)
        /\ \E W : Remains(W) /\ Keeps(N, W)
    BY <1>3
  <2>2. /\ \A M : Fine(M)' <=> Fine(M)
        /\ \A M : AllActive(M)' <=> AllActive(M)
        /\ \A M, q, W : Way(M, q, W)' <=> Way(M, q, W)
        /\ \A M, W : Keeps(M, W)' <=> Keeps(M, W)
        /\ \A f, W : FlatHas(f, W)' <=> FlatHas(f, W)
        /\ \A f, d, W : FlatSafe(f, d, W)' <=> FlatSafe(f, d, W)
    BY <1>1, SoundnessUnchanged
  <2>3. \A M, W : Kept(M, W)' <=> Kept(M, W)
    BY <2>2 DEF Kept
  <2>4. ChildRuns' => task' \in ChildTasks
    BY DEF ChildRuns, Filtering, ChildTasks
  <2>5. Published'
    BY <1>1 DEF Published
  <2>6. BoundPart'
    BY <1>1, <2>1, <2>4 DEF BoundPart
  <2>7. FactPart
    BY <1>3 DEF OptInv
  <2>8. FactPart'
    BY <1>1, <1>2, <2>1, <2>2, <2>7 DEF FactPart
  <2>9. PICK W : Remains(W) /\ Keeps(N, W)
    BY <2>1
  <2>10. Kept(N, W) /\ Kept(X, W)
    BY <1>2, <2>9 DEF Remains, Kept
  <2>11. (Len(shared.flat) \in Nat)' /\ FlatHas(shared.flat, W)' /\ FlatSafe(shared.flat, parent.side, W)'
    BY <1>1, <2>2, <2>9 DEF Remains
  <2>12. (\E q : Way(parent, q, W))'
    BY <1>1, <2>2, <2>9 DEF Remains
  <2>13. Kept(mdd, W)' /\ Kept(work, W)' /\ Kept(selection, W)'
    BY <1>1, <2>3, <2>9, <2>10 DEF Remains
  <2>14. Remains(W)'
    BY <1>1, <2>11, <2>12, <2>13 DEF Remains
  <2>15. WayPart'
    BY <2>5, <2>14 DEF WayPart
  <2> QED BY <2>6, <2>8, <2>15
<1> QED BY <1>1, <1>3, OptFromParts

LEMMA ForkSafe ==
    ASSUME MddInv, OptInv, Fork
    PROVE  OptInv'
<1> DEFINE N == PrunedByFlat(CopyOf(parent), shared.flat)
<1>1. /\ step = "rounds" /\ task' = "copy" /\ parentUpper' = upper
      /\ BeginFilter(N, upper)
      /\ UNCHANGED <<fixedVars, upper, childVars, parent, shared>>
  BY DEF Fork
<1>2. step \notin Filtering /\ step \notin Selecting
  BY <1>1 DEF Filtering, Selecting
<1>3. Published
  BY <1>1, <1>2 DEF Published, MddInv, StepsFit
<1>4. IsDiagram(parent) /\ Plain(parent) /\ work = NoMdd /\ selection = NoMdd
      /\ IsFlat(shared.flat, parent.side)
  BY <1>2, <1>3 DEF MddInv, ParentPart, WorkPart, SelectionPart, SharedPart, Published
<1>5. IsDiagram(N) /\ Plain(N)
  <2>1. Within(parent, parent)
    BY <1>4, OptFacts, PlainWithin
  <2>2. IsDiagram(CopyOf(parent)) /\ Within(CopyOf(parent), parent) /\ Plain(CopyOf(parent))
    BY <1>4, <2>1, OptFacts, CopyWithin
  <2> QED BY <1>4, <2>2, OptFacts, PrunedWithin
<1>6. ASSUME lower < opt PROVE /\ upper >= opt /\ shared.upper >= opt /\ Fine(N)
                               /\ \E W : Remains(W) /\ Keeps(N, W)
  <2>1. BoundPart /\ WayPart
    BY <1>1, <1>6 DEF OptInv
  <2>2. PICK W : Remains(W)
    BY <1>3, <2>1 DEF WayPart
  <2>3. Fine(N) /\ Keeps(N, W)
    BY <1>1, <1>3, <1>6, <2>2, ParentPruned
  <2> QED BY <1>3, <2>1, <2>2, <2>3 DEF BoundPart
<1> HIDE DEF N
<1>7. mdd' = N /\ step' \in {"filtered", "root", "down"}
  BY <1>1, <1>5, FilterBegins
<1>8. upper' = upper /\ shared' = shared /\ work' = work /\ selection' = selection
  BY <1>1 DEF childVars
<1>9. \A M : NodesOf(M)' = NodesOf(M)
  BY DEF NodesOf
<1>10. NodesOf(NoMdd) = {}
  BY DEF NodesOf, NoMdd
<1>11. NamePart'
  BY <1>1, <1>4, <1>5, <1>7, <1>8, <1>9, <1>10 DEF NamePart, Plain
<1>12. /\ step # "graph" /\ step # "solver" /\ step # "layout" /\ step' \in Filtering /\ step' # "split"
       /\ task' \in ChildTasks \cup {"parent"} /\ task' \in ChildTasks
       /\ UNCHANGED <<fixedVars, parent, selection>> /\ shared'.flat = shared.flat
  BY <1>1, <1>7, <1>8 DEF Filtering, ChildTasks
<1>13. lower < opt => /\ upper' >= opt /\ shared'.upper >= opt
                      /\ task' \in ChildTasks => parentUpper' >= opt
                      /\ Fine(N)
                      /\ task' \notin ChildTasks => AllActive(N)
                      /\ \E W : Remains(W) /\ Keeps(N, W)
  BY <1>1, <1>6, <1>8, <1>12
<1> QED BY <1>3, <1>7, <1>8, <1>11, <1>12, <1>13, FilterStarts

(* The bounds that the parent chooses from are valid.                      *)
LEMMA BoundsChosen ==
    ASSUME NEW l \in 0..Sigma, NEW a \in 0..Sigma, NEW b \in 0..Sigma, opt \in Nat, a >= opt, b >= opt
    PROVE  Max({l, Min({a, b})}) >= opt
<1>1. l \in Int /\ a \in Int /\ b \in Int
  BY CharactersFinite
<1>2. Min({a, b}) \in {a, b}
  BY <1>1, MinOfTwo
<1>3. Min({a, b}) \in Int /\ Min({a, b}) >= opt
  BY <1>1, <1>2
<1> DEFINE x == Min({a, b})
<1> HIDE DEF x
<1>4. Max({l, x}) \in Int /\ Max({l, x}) >= x
  BY <1>1, <1>3, MaxOfTwo DEF x
<1>5. Max({l, x}) >= opt
  BY <1>3, <1>4 DEF x
<1> QED BY <1>5 DEF x

LEMMA ParentResumesSafe ==
    ASSUME MddInv, OptInv, ParentResumes
    PROVE  OptInv'
<1> DEFINE N == PrunedByFlat(parent, shared.flat)
<1>1. /\ step = "merge"
      /\ upper' = Max({lower, Min({parentUpper, shared.upper})})
      /\ UNCHANGED <<fixedVars, childVars, parentVars, shared>>
  BY DEF ParentResumes
<1>2. \/ step' = "rounds" /\ UNCHANGED <<task, filterVars>> /\ lower >= upper'
      \/ task' = "parent" /\ BeginFilter(N, upper')
  BY DEF ParentResumes
<1>3. step \notin Filtering /\ step \notin Selecting
  BY <1>1 DEF Filtering, Selecting
<1>4. Published /\ task # "forward"
  BY <1>1, <1>3 DEF Published, MddInv, StepsFit
<1>5. /\ IsDiagram(parent) /\ Plain(parent) /\ mdd = NoMdd /\ work = NoMdd /\ selection = NoMdd
      /\ IsFlat(shared.flat, parent.side)
      /\ lower \in 0..Sigma /\ parentUpper \in 0..Sigma /\ shared.upper \in 0..Sigma
  BY <1>3, <1>4 DEF MddInv, GraphPart, MddPart, ParentPart, WorkPart, SelectionPart, SharedPart
<1>6. ASSUME lower < opt PROVE upper' >= opt /\ shared.upper >= opt
  <2>1. BoundPart
    BY <1>1, <1>6 DEF OptInv
  <2>2. parentUpper >= opt /\ shared.upper >= opt
    BY <1>1, <1>4, <2>1 DEF BoundPart
  <2> QED BY <1>1, <1>5, <2>2, OptFacts, BoundsChosen
<1>7. /\ parent' = parent /\ work' = NoMdd /\ selection' = NoMdd /\ shared' = shared
      /\ UNCHANGED <<fixedVars, parent, selection>>
  BY <1>1, <1>5 DEF childVars, parentVars
<1>8. CASE step' = "rounds" /\ UNCHANGED <<task, filterVars>> /\ lower >= upper'
  <2>1. mdd' = NoMdd /\ task' = task /\ UNCHANGED <<fixedVars, task>> /\ shared'.flat = shared.flat
    BY <1>1, <1>5, <1>7, <1>8 DEF filterVars
  <2>2. lower >= opt
    <3>1. upper' \in 0..Sigma
      BY <1>1, <1>5, MaxInRange
    <3>2. lower < opt => FALSE
      <4>1. lower \in Int /\ opt \in Int /\ upper' \in Int
        BY <3>1, OptFacts
      <4> QED BY <1>6, <1>8, <4>1
    <3> QED BY <3>2, OptFacts
  <2>3. ~(lower < opt)
    BY <2>2, OptFacts
  <2> QED BY <1>1, <1>4, <1>7, <1>8, <2>1, <2>3, RoundsSafe
<1>9. CASE task' = "parent" /\ BeginFilter(N, upper')
  <2>1. IsDiagram(N)
    <3>1. Within(parent, parent)
      BY <1>5, OptFacts, PlainWithin
    <3> QED BY <1>5, <3>1, OptFacts, PrunedWithin
  <2>2. ASSUME lower < opt PROVE Fine(N) /\ AllActive(N) /\ \E W : Remains(W) /\ Keeps(N, W)
    <3>1. WayPart
      BY <1>1, <2>2 DEF OptInv
    <3>2. PICK W : Remains(W)
      BY <1>4, <3>1 DEF WayPart
    <3> QED BY <1>1, <1>4, <2>2, <3>2, ParentPruned
  <2> HIDE DEF N
  <2>3. mdd' = N /\ step' \in {"filtered", "root", "down"}
    BY <1>9, <2>1, FilterBegins
  <2>4. NodesOf(NoMdd) = {} /\ \A M : NodesOf(M)' = NodesOf(M)
    BY DEF NodesOf, NoMdd
  <2>5. NamePart'
    BY <1>7, <1>9, <2>3, <2>4 DEF NamePart, Plain
  <2>6. /\ step # "graph" /\ step # "solver" /\ step # "layout" /\ step' \in Filtering /\ step' # "split"
        /\ task' \in ChildTasks \cup {"parent"} /\ task' \notin ChildTasks
        /\ shared'.flat = shared.flat /\ (NoMdd = work \/ NoMdd = NoMdd)
    BY <1>1, <1>7, <1>9, <2>3 DEF Filtering, ChildTasks
  <2>7. lower < opt => /\ upper' >= opt /\ shared'.upper >= opt
                       /\ task' \in ChildTasks => parentUpper' >= opt
                       /\ Fine(N)
                       /\ task' \notin ChildTasks => AllActive(N)
                       /\ \E W : Remains(W) /\ Keeps(N, W)
    BY <1>6, <1>7, <2>2, <2>6
  <2> QED BY <1>4, <1>7, <2>3, <2>5, <2>6, <2>7, FilterStarts
<1> QED BY <1>2, <1>8, <1>9

LEMMA ParentLaysOutSafe ==
    ASSUME MddInv, OptInv, ParentLaysOut
    PROVE  OptInv'
<1>1. /\ step = "filtered" /\ task = "parent" /\ parent' = mdd /\ step' = "rounds" /\ mdd' = NoMdd
      /\ shared' = [shared EXCEPT !.flat = Laid(mdd), !.size = SizeOf(mdd)]
      /\ upper' = Max({lower, Min({upper, shared.upper})})
      /\ UNCHANGED <<fixedVars, task, childVars>>
  BY DEF ParentLaysOut
<1>2. Published
  BY <1>1 DEF Published
<1>3. /\ IsDiagram(mdd) /\ work = NoMdd /\ selection = NoMdd /\ shared.upper \in 0..Sigma /\ lower \in 0..Sigma
  BY <1>1, <1>2 DEF MddInv, GraphPart, MddPart, WorkPart, SelectionPart, SharedPart, Filtering, Selecting
<1>4. shared = [upper |-> shared.upper, complete |-> shared.complete, flat |-> shared.flat,
                size |-> shared.size, room |-> shared.room]
  BY <1>1, <1>2, PublishedFacts
<1>5. shared'.flat = Laid(mdd) /\ shared'.upper = shared.upper
  BY <1>1, <1>4
<1>6. ASSUME lower < opt
      PROVE  upper' >= opt /\ shared.upper >= opt /\ Fine(mdd) /\ AllActive(mdd) /\ FlatKeeps(Laid(mdd), mdd)
  <2>1. BoundPart /\ FactPart
    BY <1>1, <1>6 DEF OptInv
  <2>2. upper >= opt /\ shared.upper >= opt
    BY <1>2, <2>1 DEF BoundPart
  <2>3. upper' >= opt
    BY <1>1, <1>3, <2>2, OptFacts, BoundsChosen
  <2>4. Fine(mdd) /\ AllActive(mdd)
    BY <1>1, <2>1 DEF FactPart, ChildTasks
  <2>5. PICK W : Keeps(mdd, W)
    BY <1>1, <1>6, FilteredKeeps DEF Filtering
  <2>6. FlatKeeps(Laid(mdd), mdd)
    BY <1>3, <2>4, <2>5, OptFacts, LaidKeeps
  <2> QED BY <2>2, <2>3, <2>4, <2>6
<1>7. /\ step # "graph" /\ step # "solver" /\ task # "forward" /\ step' \in {"rounds", "merge"}
      /\ step' # "merge" /\ UNCHANGED <<fixedVars, task>> /\ work' = NoMdd /\ selection' = NoMdd
  BY <1>1, <1>3 DEF childVars
<1>8. lower < opt => /\ upper' >= opt /\ shared'.upper >= opt
                     /\ step' = "merge" => parentUpper' >= opt
                     /\ Fine(mdd) /\ AllActive(mdd) /\ FlatKeeps(Laid(mdd), mdd)
  BY <1>5, <1>6, <1>7
<1> QED BY <1>1, <1>5, <1>7, <1>8, RoundsSafe

LEMMA EndReductionSafe ==
    ASSUME MddInv, OptInv, EndReduction
    PROVE  OptInv'
<1>1. /\ step = "rounds" /\ step' = "solver" /\ upper' = Max({lower, upper})
      /\ shared' = [shared EXCEPT !.complete = @ \/ lower >= upper]
      /\ UNCHANGED <<strings, lower, opt, task, filterVars, childVars, parentVars>>
  BY DEF EndReduction
<1>2. step \notin Filtering /\ step \notin Selecting /\ step' \notin Filtering /\ step' # "split" /\ step' # "layout"
  BY <1>1 DEF Filtering, Selecting
<1>3. Published /\ task # "forward"
  BY <1>1, <1>2 DEF Published, MddInv, StepsFit
<1>4. /\ strings' = strings /\ lower' = lower /\ opt' = opt /\ task' = task /\ mdd' = mdd /\ work' = work
      /\ selection' = selection /\ parent' = parent /\ parentUpper' = parentUpper /\ refined' = refined
  BY <1>1 DEF filterVars, childVars, parentVars
<1>5. shared'.flat = shared.flat /\ shared'.upper = shared.upper
  BY <1>1, <1>3, PublishedFacts
<1>6. /\ \A M : Fine(M)' <=> Fine(M)
      /\ \A M : AllActive(M)' <=> AllActive(M)
      /\ \A M, q, W : Way(M, q, W)' <=> Way(M, q, W)
      /\ \A M, W : Keeps(M, W)' <=> Keeps(M, W)
      /\ \A f, W : FlatHas(f, W)' <=> FlatHas(f, W)
      /\ \A f, d, W : FlatSafe(f, d, W)' <=> FlatSafe(f, d, W)
      /\ \A M : Plain(M)' <=> Plain(M)
      /\ OptIsLongest' <=> OptIsLongest
  BY <1>4, SoundnessUnchanged
<1>7. CoverPart'
  BY <1>1, <1>6 DEF OptInv, CoverPart
<1>8. \A M : NodesOf(M)' = NodesOf(M)
  BY DEF NodesOf
<1>9. NamePart'
  BY <1>2, <1>4, <1>6, <1>8 DEF OptInv, NamePart
<1>10. ASSUME lower < opt PROVE BoundPart' /\ FactPart' /\ WayPart'
  <2>1. BoundPart /\ FactPart /\ WayPart
    BY <1>1, <1>10 DEF OptInv
  <2>2. ~ChildRuns'
    BY <1>1, <1>2 DEF ChildRuns
  <2>3. upper' >= upper /\ upper' \in Int
    BY <1>1, OptFacts, MaxOfTwo
  <2>4. upper' >= opt
    BY <2>1, <2>3, OptFacts DEF BoundPart
  <2>5. BoundPart'
    BY <1>1, <1>3, <1>4, <1>5, <2>1, <2>2, <2>4 DEF BoundPart
  <2>6. FactPart'
    BY <1>4, <1>6, <2>1 DEF FactPart
  <2>7. \A M, W : Kept(M, W)' <=> Kept(M, W)
    BY <1>6 DEF Kept
  <2>8. PICK W : Remains(W)
    BY <1>3, <2>1 DEF WayPart
  <2>9. (Len(shared.flat) \in Nat)' /\ FlatHas(shared.flat, W)' /\ FlatSafe(shared.flat, parent.side, W)'
    BY <1>4, <1>5, <1>6, <2>8 DEF Remains
  <2>10. (\E q : Way(parent, q, W))'
    BY <1>4, <1>6, <2>8 DEF Remains
  <2>11. Kept(mdd, W)' /\ Kept(work, W)' /\ Kept(selection, W)'
    BY <1>1, <1>4, <2>7, <2>8 DEF Remains
  <2>12. Remains(W)'
    BY <1>2, <2>9, <2>10, <2>11 DEF Remains
  <2>13. Published'
    BY <1>2, <1>3, <1>4 DEF Published
  <2>14. WayPart'
    BY <2>12, <2>13 DEF WayPart
  <2> QED BY <2>5, <2>6, <2>14
<1> QED BY <1>1, <1>4, <1>7, <1>9, <1>10 DEF OptInv

(* The child's memory is gone: what is left is what it has published.      *)
LEMMA ChildEndsSafe ==
    ASSUME MddInv, OptInv, task \in ChildTasks, step # "graph", step # "solver", ChildEnds,
           UNCHANGED <<fixedVars, task, parentVars>>, NEW flat, shared'.flat = flat,
           lower < opt => parentUpper >= opt /\ shared'.upper >= opt /\ FlatKeeps(flat, parent)
    PROVE  OptInv'
<1>1. /\ step' = "merge" /\ upper' = parentUpper /\ mdd' = NoMdd /\ work' = NoMdd /\ selection' = NoMdd
  BY DEF ChildEnds
<1>2. parent' = parent /\ parentUpper' = parentUpper /\ task # "forward" /\ UNCHANGED <<fixedVars, task>>
      /\ step' \in {"rounds", "merge"}
  BY <1>1 DEF parentVars, ChildTasks
<1>3. ASSUME lower < opt PROVE Fine(parent) /\ AllActive(parent)
  BY <1>3 DEF OptInv, FactPart
<1>4. lower < opt => /\ upper' >= opt /\ shared'.upper >= opt
                     /\ step' = "merge" => parentUpper' >= opt
                     /\ Fine(parent) /\ AllActive(parent) /\ FlatKeeps(flat, parent)
  BY <1>1, <1>2, <1>3
<1> QED BY <1>1, <1>2, <1>4, RoundsSafe

(* What holds while a child runs.                                          *)
LEMMA ChildFacts ==
    ASSUME MddInv, OptInv, ChildRuns
    PROVE  /\ task \in ChildTasks /\ step # "graph" /\ step # "solver" /\ step # "merge" /\ Published
           /\ lower < opt => /\ upper >= opt /\ parentUpper >= opt /\ shared.upper >= opt
                             /\ FactPart /\ FlatKeeps(shared.flat, parent) /\ \E W : Remains(W)
<1>1. task \in ChildTasks /\ step # "graph" /\ step # "solver" /\ step # "merge"
  BY DEF ChildRuns, ChildTasks, MddInv, StepsFit, Selecting
<1>2. Published
  BY <1>1 DEF Published, ChildTasks
<1>3. ASSUME lower < opt
      PROVE  /\ upper >= opt /\ parentUpper >= opt /\ shared.upper >= opt
             /\ FactPart /\ FlatKeeps(shared.flat, parent) /\ \E W : Remains(W)
  <2>1. BoundPart /\ FactPart /\ WayPart
    BY <1>1, <1>3 DEF OptInv
  <2>2. upper >= opt /\ parentUpper >= opt /\ shared.upper >= opt
    BY <1>2, <2>1 DEF BoundPart
  <2>3. PICK W : Remains(W)
    BY <1>2, <2>1 DEF WayPart
  <2>4. FlatKeeps(shared.flat, parent)
    BY <2>3 DEF Remains, FlatKeeps
  <2> QED BY <2>1, <2>2, <2>3, <2>4
<1> QED BY <1>1, <1>2, <1>3

LEMMA KillSafe ==
    ASSUME MddInv, OptInv, Kill
    PROVE  OptInv'
<1>1. ChildRuns /\ ChildEnds /\ UNCHANGED <<fixedVars, task, parentVars>> /\ shared' = shared
  BY DEF Kill
<1>2. /\ task \in ChildTasks /\ step # "graph" /\ step # "solver"
      /\ lower < opt => parentUpper >= opt /\ shared'.upper >= opt /\ FlatKeeps(shared.flat, parent)
  BY <1>1, ChildFacts
<1>3. shared'.flat = shared.flat
  BY <1>1
<1> QED BY <1>1, <1>2, <1>3, ChildEndsSafe

(* The layout, the parent's MDD, and those that the child works on.        *)
AllKeep(flat, P, X, S) ==
    /\ Fine(X) /\ Fine(S) /\ Len(flat) \in Nat
    /\ \E W : /\ FlatHas(flat, W) /\ FlatSafe(flat, P.side, W) /\ \E q : Way(P, q, W)
              /\ Keeps(X, W) /\ Keeps(S, W)

(* The child does not filter, and has not come to its end.                 *)
LEMMA ChildMovesSafe ==
    ASSUME MddInv, OptInv, ChildRuns, step' \in Selecting \ {"layout"}, task' \in ChildTasks, NamePart',
           UNCHANGED <<fixedVars, parentVars>>, mdd' = NoMdd, upper' = upper,
           NEW X, work' = X, NEW S, selection' = S, NEW flat, shared'.flat = flat,
           lower < opt => shared'.upper >= opt /\ AllKeep(flat, parent, X, S)
    PROVE  OptInv'
<1>1. /\ strings' = strings /\ lower' = lower /\ opt' = opt /\ parent' = parent /\ parentUpper' = parentUpper
      /\ task' # "forward" /\ step' \notin Filtering /\ step' # "layout" /\ step' # "graph"
  BY DEF fixedVars, parentVars, ChildTasks, Selecting, Filtering
<1>2. Fine(NoMdd) /\ \A W : Kept(NoMdd, W)
  BY OptFacts, NoMddParts
<1>3. step # "graph" /\ step # "solver"
  BY ChildFacts
<1>4. ASSUME lower < opt PROVE BoundPart' /\ FactPart' /\ WayPart'
  <2>1. shared'.upper >= opt /\ AllKeep(flat, parent, X, S)
    BY <1>4
  <2>2. upper >= opt /\ parentUpper >= opt /\ FactPart
    BY <1>4, ChildFacts
  <2>3. /\ \A M : Fine(M)' <=> Fine(M)
        /\ \A M : AllActive(M)' <=> AllActive(M)
        /\ \A M, q, W : Way(M, q, W)' <=> Way(M, q, W)
        /\ \A M, W : Keeps(M, W)' <=> Keeps(M, W)
        /\ \A f, W : FlatHas(f, W)' <=> FlatHas(f, W)
        /\ \A f, d, W : FlatSafe(f, d, W)' <=> FlatSafe(f, d, W)
    BY <1>1, SoundnessUnchanged
  <2>4. \A M, W : Kept(M, W)' <=> Kept(M, W)
    BY <2>3 DEF Kept
  <2>5. Published'
    BY <1>1 DEF Published
  <2>6. BoundPart'
    BY <1>1, <2>1, <2>2 DEF BoundPart
  <2>7. Fine(X) /\ Fine(S) /\ Len(flat) \in Nat
    BY <2>1 DEF AllKeep
  <2>8. FactPart'
    BY <1>1, <1>2, <2>2, <2>3, <2>7 DEF FactPart
  <2>9. PICK W : /\ FlatHas(flat, W) /\ FlatSafe(flat, parent.side, W) /\ \E q : Way(parent, q, W)
                 /\ Keeps(X, W) /\ Keeps(S, W)
    BY <2>1 DEF AllKeep
  <2>10. (Len(shared.flat) \in Nat)' /\ FlatHas(shared.flat, W)' /\ FlatSafe(shared.flat, parent.side, W)'
    BY <1>1, <2>3, <2>7, <2>9
  <2>11. (\E q : Way(parent, q, W))'
    BY <1>1, <2>3, <2>9
  <2>12. Kept(X, W) /\ Kept(S, W)
    BY <2>9 DEF Kept
  <2>13. Kept(mdd, W)' /\ Kept(work, W)' /\ Kept(selection, W)'
    BY <1>1, <1>2, <2>4, <2>12
  <2>14. Remains(W)'
    BY <1>1, <2>10, <2>11, <2>13 DEF Remains
  <2>15. WayPart'
    BY <2>5, <2>14 DEF WayPart
  <2> QED BY <2>6, <2>8, <2>15
<1> QED BY <1>1, <1>3, <1>4, OptFromParts

(* The child goes on with what it had.                                     *)
LEMMA StillKeeps ==
    ASSUME MddInv, OptInv, ChildRuns, lower < opt, step # "layout", IsDiagram(work), IsDiagram(selection)
    PROVE  AllKeep(shared.flat, parent, work, selection)
<1>1. FactPart /\ \E W : Remains(W)
  BY ChildFacts
<1>2. PICK W : Remains(W)
  BY <1>1
<1>3. work # NoMdd /\ selection # NoMdd
  BY DiagramIsThere
<1>4. Keeps(work, W) /\ Keeps(selection, W)
  BY <1>2, <1>3 DEF Remains, Kept
<1>5. Len(shared.flat) \in Nat /\ FlatHas(shared.flat, W) /\ FlatSafe(shared.flat, parent.side, W)
  BY <1>2 DEF Remains
<1>6. \E q : Way(parent, q, W)
  BY <1>2 DEF Remains
<1> QED BY <1>1, <1>4, <1>5, <1>6 DEF AllKeep, FactPart

LEMMA CopyIsFilteredSafe ==
    ASSUME MddInv, OptInv, CopyIsFiltered
    PROVE  OptInv'
<1>1. /\ step = "filtered" /\ task = "copy" /\ UNCHANGED <<fixedVars, task, parentVars>>
      /\ \/ lower >= upper /\ shared' = [shared EXCEPT !.complete = TRUE] /\ ChildEnds
         \/ /\ work' = mdd /\ selection' = CopyOf(mdd) /\ step' = "select" /\ mdd' = NoMdd
            /\ UNCHANGED <<upper, refined, shared>>
  BY DEF CopyIsFiltered
<1>2. ChildRuns
  BY <1>1 DEF ChildRuns
<1>3. /\ task \in ChildTasks /\ step # "graph" /\ step # "solver" /\ Published
      /\ lower < opt => /\ upper >= opt /\ parentUpper >= opt /\ shared.upper >= opt
                        /\ FactPart /\ FlatKeeps(shared.flat, parent) /\ \E W : Remains(W)
  BY <1>2, ChildFacts
<1>4. /\ shared = [upper |-> shared.upper, complete |-> shared.complete, flat |-> shared.flat,
                   size |-> shared.size, room |-> shared.room]
  BY <1>3, PublishedFacts
<1>5. IsDiagram(mdd) /\ work = NoMdd
  BY <1>1 DEF MddInv, MddPart, WorkPart, Filtering, Selecting
<1>6. CASE lower >= upper /\ shared' = [shared EXCEPT !.complete = TRUE] /\ ChildEnds
  <2>1. shared'.flat = shared.flat /\ shared'.upper = shared.upper
    BY <1>4, <1>6
  <2>2. lower < opt => parentUpper >= opt /\ shared'.upper >= opt /\ FlatKeeps(shared.flat, parent)
    BY <1>3, <2>1
  <2> QED BY <1>1, <1>3, <1>6, <2>1, <2>2, ChildEndsSafe
<1>7. CASE /\ work' = mdd /\ selection' = CopyOf(mdd) /\ step' = "select" /\ mdd' = NoMdd
           /\ UNCHANGED <<upper, refined, shared>>
  <2>1. task' \in ChildTasks /\ task' = task /\ refined' = refined /\ shared'.flat = shared.flat
        /\ shared'.upper = shared.upper /\ UNCHANGED <<fixedVars, parentVars>> /\ upper' = upper
    BY <1>1, <1>3, <1>7
  <2>2. step' \in Selecting \ {"layout"} /\ step' \notin Filtering
    BY <1>7 DEF Selecting, Filtering
  <2>3. NodesOf(CopyOf(mdd)) = NodesOf(mdd)
    BY <1>5, OptFacts, CopyDiagram
  <2>4. Plain(mdd)
    BY <1>1 DEF OptInv, NamePart
  <2>5. NodesOf(NoMdd) = {} /\ \A M : NodesOf(M)' = NodesOf(M)
    BY DEF NodesOf, NoMdd
  <2>6. NamePart'
    BY <1>7, <2>1, <2>2, <2>3, <2>4, <2>5 DEF NamePart, Plain, Filtering
  <2>7. ASSUME lower < opt PROVE AllKeep(shared.flat, parent, mdd, CopyOf(mdd))
    <3>1. PICK W : Remains(W)
      BY <1>3, <2>7
    <3>2. mdd # NoMdd
      BY <1>5, DiagramIsThere
    <3>3. Keeps(mdd, W) /\ Fine(mdd)
      BY <1>3, <2>7, <3>1, <3>2 DEF Remains, Kept, FactPart
    <3>4. Keeps(CopyOf(mdd), W) /\ Fine(CopyOf(mdd))
      BY <1>5, <3>3, OptFacts, CopyFine
    <3>5. Len(shared.flat) \in Nat /\ FlatHas(shared.flat, W) /\ FlatSafe(shared.flat, parent.side, W)
      BY <3>1 DEF Remains
    <3>6. \E q : Way(parent, q, W)
      BY <3>1 DEF Remains
    <3> QED BY <3>3, <3>4, <3>5, <3>6 DEF AllKeep
  <2>8. lower < opt => shared'.upper >= opt /\ AllKeep(shared.flat, parent, mdd, CopyOf(mdd))
    BY <1>3, <2>1, <2>7
  <2> QED BY <1>2, <1>7, <2>1, <2>2, <2>6, <2>8, ChildMovesSafe
<1> QED BY <1>1, <1>6, <1>7

LEMMA TrialIsOverSafe ==
    ASSUME MddInv, OptInv, TrialIsOver
    PROVE  OptInv'
<1>1. /\ step = "filtered" /\ task = "trial" /\ step' = "select" /\ mdd' = NoMdd
      /\ UNCHANGED <<fixedVars, upper, task, childVars, parentVars, shared>>
  BY DEF TrialIsOver
<1>2. ChildRuns
  BY <1>1 DEF ChildRuns
<1>3. IsDiagram(work) /\ IsDiagram(selection)
  BY <1>1 DEF MddInv, WorkPart, SelectionPart, Filtering
<1>4. /\ work' = work /\ selection' = selection /\ refined' = refined /\ task' = task
      /\ shared'.flat = shared.flat /\ shared'.upper = shared.upper /\ upper' = upper
      /\ UNCHANGED <<fixedVars, parentVars>>
  BY <1>1 DEF childVars
<1>5. step' \in Selecting \ {"layout"} /\ step' \notin Filtering /\ task' \in ChildTasks
  BY <1>1 DEF Selecting, Filtering, ChildTasks
<1>6. NodesOf(NoMdd) = {} /\ \A M : NodesOf(M)' = NodesOf(M)
  BY DEF NodesOf, NoMdd
<1>7. NamePart'
  BY <1>1, <1>4, <1>5, <1>6 DEF NamePart, Plain, OptInv, Filtering
<1>8. lower < opt => shared'.upper >= opt /\ AllKeep(shared.flat, parent, work, selection)
  BY <1>1, <1>2, <1>3, <1>4, ChildFacts, StillKeeps
<1> QED BY <1>1, <1>2, <1>4, <1>5, <1>7, <1>8, ChildMovesSafe

LEMMA MarkCompleteSafe ==
    ASSUME MddInv, OptInv, MarkComplete
    PROVE  OptInv'
<1>1. /\ step = "next" /\ step' = "complete" /\ shared' = [shared EXCEPT !.complete = TRUE]
      /\ UNCHANGED <<fixedVars, upper, task, filterVars, childVars, parentVars>>
  BY DEF MarkComplete
<1>2. ChildRuns
  BY <1>1 DEF ChildRuns
<1>3. step \in Selecting /\ step \notin Filtering
  BY <1>1 DEF Selecting, Filtering
<1>4. IsDiagram(work) /\ IsDiagram(selection) /\ mdd = NoMdd
  BY <1>3 DEF MddInv, WorkPart, SelectionPart, MddPart
<1>5. shared'.flat = shared.flat /\ shared'.upper = shared.upper
  BY <1>1, <1>2, ChildFacts, PublishedFacts
<1>6. /\ work' = work /\ selection' = selection /\ refined' = refined /\ task' = task /\ mdd' = NoMdd
      /\ upper' = upper /\ UNCHANGED <<fixedVars, parentVars>>
  BY <1>1, <1>4 DEF childVars, filterVars
<1>7. step' \in Selecting \ {"layout"} /\ step' \notin Filtering /\ task' \in ChildTasks
  BY <1>1, <1>2, <1>6, ChildFacts DEF Selecting, Filtering
<1>8. NodesOf(NoMdd) = {} /\ \A M : NodesOf(M)' = NodesOf(M)
  BY DEF NodesOf, NoMdd
<1>9. NamePart'
  BY <1>1, <1>6, <1>7, <1>8 DEF NamePart, Plain, OptInv, Filtering
<1>10. lower < opt => shared'.upper >= opt /\ AllKeep(shared.flat, parent, work, selection)
  BY <1>1, <1>2, <1>4, <1>5, ChildFacts, StillKeeps
<1> QED BY <1>1, <1>2, <1>5, <1>6, <1>7, <1>9, <1>10, ChildMovesSafe

LEMMA NextCharacterSafe ==
    ASSUME MddInv, OptInv, NextCharacter
    PROVE  OptInv'
<1>1. /\ step = "next" /\ step' = "select" /\ UNCHANGED <<fixedVars, upper, task, filterVars, work, refined, parentVars, shared>>
      /\ selection' = selection \/ selection' = PrunedByFlat(selection, shared.flat)
  BY DEF NextCharacter
<1>2. ChildRuns
  BY <1>1 DEF ChildRuns
<1>3. step \in Selecting /\ step \notin Filtering
  BY <1>1 DEF Selecting, Filtering
<1>4. IsDiagram(work) /\ IsDiagram(selection) /\ Within(selection, parent) /\ mdd = NoMdd
  BY <1>3 DEF MddInv, WorkPart, SelectionPart, MddPart
<1>5. /\ Published /\ step # "graph" /\ IsDiagram(parent) /\ IsFlat(shared.flat, parent.side)
      /\ Len(shared.flat) > 0 /\ Source(parent.side) \in shared.flat[1].matches
  BY <1>2, ChildFacts, PublishedFacts DEF MddInv, SharedPart
<1>6. Plain(selection)
  BY DEF OptInv, NamePart
<1> DEFINE S == selection'
<1>7. Plain(S)
  BY <1>1, <1>4, <1>5, <1>6, OptFacts, PrunedWithin
<1>8. ASSUME lower < opt PROVE AllKeep(shared.flat, parent, work, S)
  <2>1. AllKeep(shared.flat, parent, work, selection)
    BY <1>1, <1>2, <1>4, <1>8, StillKeeps
  <2>2. CASE S = PrunedByFlat(selection, shared.flat)
    <3>1. Fine(work) /\ Fine(selection) /\ Len(shared.flat) \in Nat
      BY <2>1 DEF AllKeep
    <3>2. selection.side = parent.side
      BY <1>4 DEF Within
    <3>3. PICK W : /\ FlatHas(shared.flat, W) /\ FlatSafe(shared.flat, parent.side, W) /\ \E q : Way(parent, q, W)
                   /\ Keeps(work, W) /\ Keeps(selection, W)
      BY <2>1 DEF AllKeep
    <3>4. Source(selection.side) \in shared.flat[1].matches
      BY <1>5, <3>2
    <3>5. Keeps(PrunedByFlat(selection, shared.flat), W)
      BY <1>4, <1>5, <3>1, <3>3, <3>4, OptFacts, PrunedKeeps
    <3>6. Fine(PrunedByFlat(selection, shared.flat))
      BY <1>4, <1>5, <3>1, <3>4, OptFacts, PrunedFine
    <3> QED BY <2>2, <3>1, <3>3, <3>5, <3>6 DEF AllKeep
  <2> QED BY <1>1, <2>1, <2>2
<1>9. /\ work' = work /\ selection' = S /\ refined' = refined /\ task' = task /\ mdd' = NoMdd
      /\ shared' = shared /\ shared'.flat = shared.flat /\ upper' = upper /\ UNCHANGED <<fixedVars, parentVars>>
  BY <1>1, <1>4 DEF filterVars
<1> HIDE DEF S
<1>10. step' \in Selecting \ {"layout"} /\ step' \notin Filtering /\ task' \in ChildTasks
  BY <1>1, <1>2, <1>9, ChildFacts DEF Selecting, Filtering
<1>11. NodesOf(NoMdd) = {} /\ \A M : NodesOf(M)' = NodesOf(M)
  BY DEF NodesOf, NoMdd
<1>12. NamePart'
  BY <1>1, <1>7, <1>9, <1>10, <1>11 DEF NamePart, Plain, OptInv, Filtering
<1>13. lower < opt => shared'.upper >= opt /\ AllKeep(shared.flat, parent, work, S)
  BY <1>2, <1>8, <1>9, ChildFacts
<1> QED BY <1>2, <1>9, <1>10, <1>12, <1>13, ChildMovesSafe

(* The bound of the last level.                                            *)
LEMMA LastLevelBound ==
    ASSUME strings \in Inputs, lower \in Nat, opt \in Nat, lower <= Sigma, NEW M, IsDiagram(M), Aligned(M), NEW W, Keeps(M, W),
           NEW n \in M.levels[Len(M.levels)], NEW u \in 0..Sigma, u >= opt
    PROVE  BottomBound(u, M, n) >= opt
<1>1. PICK q : Way(M, q, W)
  BY DEF Keeps
<1> DEFINE e == opt + 1
           l == Len(M.levels)
<1>2. e \in 1..(opt + 1) /\ opt = e - 1 /\ e \in Nat
  OBVIOUS
<1>3. e \in 1..Len(M.levels) /\ q[e] \in M.levels[e] /\ q[e] \in NodesOf(M) /\ DepthOf(q[e]) = opt
  BY <1>1, <1>2, WayLevels
<1>4. Len(M.levels) \in Nat \ {0} /\ Len(M.levels) \in 1..Len(M.levels) /\ n \in NodesOf(M)
  BY DiagramFacts
<1>5. DepthOf(n) \in 0..Sigma /\ M.facts[n].ub \in 0..Sigma
  BY <1>4, DiagramFacts DEF IsDiagram, Known
<1>6. l \in Nat /\ l \in 1..Len(M.levels) /\ n \in M.levels[l] /\ e <= l
  BY <1>3, <1>4
<1> HIDE DEF e, l
<1>7. (l < e) <=> (DepthOf(n) < DepthOf(q[e]))
  BY <1>3, <1>6 DEF IsDiagram
<1>8. DepthOf(n) >= opt
  <2>1. ~(l < e)
    BY <1>2, <1>6
  <2>2. DepthOf(n) \in Int
    BY <1>5
  <2> QED BY <1>3, <1>7, <2>1, <2>2
<1> DEFINE b == Min({u, DepthOf(n)})
           c == M.facts[n].ub
<1>9. u \in Int /\ DepthOf(n) \in Int /\ c \in Int /\ lower \in Int
  BY <1>5, CharactersFinite
<1>10. b \in {u, DepthOf(n)}
  BY <1>9, MinOfTwo
<1>11. b \in Int /\ b >= opt
  BY <1>8, <1>9, <1>10
<1>12. BottomBound(u, M, n) = Max({lower, b, c})
  BY DEF BottomBound
<1> HIDE DEF b, c
<1>13. \E x \in {lower, b, c} : \A y \in {lower, b, c} : x >= y
  BY <1>9, <1>11
<1>14. Max({lower, b, c}) \in {lower, b, c} /\ Max({lower, b, c}) >= b
  BY <1>13 DEF Max
<1>15. Max({lower, b, c}) \in Int
  BY <1>9, <1>11, <1>14
<1> QED BY <1>11, <1>12, <1>14, <1>15

LEMMA ReportRefinedSafe ==
    ASSUME MddInv, OptInv, ReportRefined
    PROVE  OptInv'
<1>1. /\ step = "filtered" /\ task = "refine" /\ refined' = refined \cup {split}
      /\ step' = "next" /\ work' = mdd /\ mdd' = NoMdd
      /\ UNCHANGED <<fixedVars, upper, task, selection, parentVars>>
  BY DEF ReportRefined
<1>2. PICK n \in mdd.levels[Len(mdd.levels)] :
          shared' = [shared EXCEPT !.upper = BottomBound(@, mdd, n), !.flat = StillInFlat(@, mdd)]
  BY DEF ReportRefined
<1>3. ChildRuns
  BY <1>1 DEF ChildRuns
<1>4. /\ IsDiagram(mdd) /\ Within(mdd, parent) /\ IsDiagram(selection) /\ lower \in 0..Sigma
  BY <1>1 DEF MddInv, GraphPart, MddPart, SelectionPart, Filtering, ChildTasks
<1>5. /\ Published /\ step # "graph" /\ task \in ChildTasks
      /\ shared = [upper |-> shared.upper, complete |-> shared.complete, flat |-> shared.flat,
                   size |-> shared.size, room |-> shared.room]
  BY <1>3, ChildFacts, PublishedFacts
<1>6. shared.upper \in 0..Sigma
  BY <1>5 DEF MddInv, SharedPart
<1> DEFINE flat == StillInFlat(shared.flat, mdd)
<1>7. shared'.flat = flat /\ shared'.upper = BottomBound(shared.upper, mdd, n)
  BY <1>2, <1>5
<1>8. ASSUME lower < opt PROVE shared'.upper >= opt /\ AllKeep(flat, parent, mdd, selection)
  <2>1. PICK W : Remains(W)
    BY <1>3, <1>8, ChildFacts
  <2>2. Fine(mdd) /\ Fine(selection) /\ Aligned(mdd) /\ shared.upper >= opt
    BY <1>3, <1>8, ChildFacts DEF FactPart, Fine
  <2>3. mdd # NoMdd /\ selection # NoMdd
    BY <1>4, DiagramIsThere
  <2>4. Keeps(mdd, W) /\ Keeps(selection, W)
    BY <1>1, <2>1, <2>3 DEF Remains, Kept
  <2>5. shared'.upper >= opt
    <3>1. lower <= Sigma
      BY <1>4
    <3> QED BY <1>4, <1>6, <1>7, <2>2, <2>4, <3>1, OptFacts, LastLevelBound
  <2>6. mdd.side = parent.side
    BY <1>4 DEF Within
  <2>7. Len(shared.flat) \in Nat /\ FlatHas(shared.flat, W) /\ FlatSafe(shared.flat, parent.side, W)
    BY <2>1 DEF Remains
  <2>8. \E q : Way(parent, q, W)
    BY <2>1 DEF Remains
  <2>9. PICK q : Way(mdd, q, W)
    BY <2>4 DEF Keeps
  <2>10. FlatHas(Laid(mdd), W)
    BY <1>4, <2>2, <2>9, OptFacts, LaidHas
  <2>11. FlatSafe(Laid(mdd), parent.side, W)
    BY <1>4, <2>2, <2>4, <2>6, OptFacts, LaidSafe
  <2>12. FlatHas(flat, W) /\ FlatSafe(flat, parent.side, W)
    BY <1>4, <2>7, <2>10, <2>11, OptFacts, StillHas
  <2>13. Len(flat) \in Nat
    BY <1>4, OptFacts, StillParts
  <2> QED BY <2>2, <2>4, <2>5, <2>8, <2>12, <2>13 DEF AllKeep
<1> HIDE DEF flat
<1>9. \A x \in NodesOf(mdd) : x[3] \subseteq refined'
  BY <1>1 DEF OptInv, NamePart, Filtering
<1>10. /\ selection' = selection /\ task' = task /\ upper' = upper /\ UNCHANGED <<fixedVars, parentVars>>
  BY <1>1
<1>11. step' \in Selecting \ {"layout"} /\ step' \notin Filtering /\ task' \in ChildTasks
  BY <1>1, <1>5, <1>10 DEF Selecting, Filtering
<1>12. NodesOf(NoMdd) = {} /\ \A M : NodesOf(M)' = NodesOf(M)
  BY DEF NodesOf, NoMdd
<1>13. NamePart'
  BY <1>1, <1>9, <1>10, <1>11, <1>12 DEF NamePart, Plain, OptInv, Filtering
<1>14. lower < opt => shared'.upper >= opt /\ AllKeep(flat, parent, mdd, selection)
  BY <1>8
<1> QED BY <1>1, <1>3, <1>7, <1>10, <1>11, <1>13, <1>14, ChildMovesSafe

LEMMA LayOutSafe ==
    ASSUME MddInv, OptInv, LayOut
    PROVE  OptInv'
<1>1. /\ step = "layout" /\ shared' = [shared EXCEPT !.flat = Laid(work), !.size = SizeOf(work)]
      /\ ChildEnds /\ UNCHANGED <<fixedVars, task, parentVars>>
  BY DEF LayOut
<1>2. ChildRuns
  BY <1>1 DEF ChildRuns
<1>3. IsDiagram(work) /\ Within(work, parent)
  BY <1>1 DEF MddInv, WorkPart, Selecting
<1>4. /\ task \in ChildTasks /\ step # "graph" /\ step # "solver" /\ Published
      /\ lower < opt => /\ upper >= opt /\ parentUpper >= opt /\ shared.upper >= opt
                        /\ FactPart /\ FlatKeeps(shared.flat, parent) /\ \E W : Remains(W)
  BY <1>2, ChildFacts
<1>5. shared'.flat = Laid(work) /\ shared'.upper = shared.upper
  BY <1>1, <1>4, PublishedFacts
<1>6. ASSUME lower < opt PROVE FlatKeeps(Laid(work), parent)
  <2>1. PICK W : Remains(W)
    BY <1>4, <1>6
  <2>2. Fine(work)
    BY <1>4, <1>6 DEF FactPart
  <2>3. Keeps(CopyOf(work), W)
    BY <1>1, <2>1 DEF Remains
  <2>4. IsDiagram(CopyOf(work)) /\ CopyOf(work).side = parent.side
        /\ CopyOf(work).levels = work.levels /\ CopyOf(work).arcs = work.arcs
    BY <1>3, OptFacts, CopyDiagram DEF Within
  <2>5. Laid(CopyOf(work)) = Laid(work)
    BY <2>4 DEF Laid
  <2>6. Fine(CopyOf(work)) /\ Aligned(CopyOf(work))
    BY <1>3, <2>2, OptFacts, CopyFine DEF Fine
  <2>7. PICK q : Way(CopyOf(work), q, W)
    BY <2>3 DEF Keeps
  <2>8. FlatHas(Laid(work), W)
    BY <2>4, <2>5, <2>6, <2>7, OptFacts, LaidHas
  <2>9. FlatSafe(Laid(work), parent.side, W)
    BY <2>3, <2>4, <2>5, <2>6, OptFacts, LaidSafe
  <2>10. Len(Laid(work)) \in Nat
    BY <1>3, OptFacts, LaidParts, DiagramFacts
  <2>11. \E r : Way(parent, r, W)
    BY <2>1 DEF Remains
  <2> QED BY <2>8, <2>9, <2>10, <2>11 DEF FlatKeeps
<1>7. lower < opt => parentUpper >= opt /\ shared'.upper >= opt /\ FlatKeeps(Laid(work), parent)
  BY <1>4, <1>5, <1>6
<1> QED BY <1>1, <1>4, <1>5, <1>7, ChildEndsSafe

LEMMA TryCharacterSafe ==
    ASSUME MddInv, OptInv, TryCharacter
    PROVE  OptInv'
<1> DEFINE B == IF refined = {} THEN work ELSE selection
           N == CopyOf(B)
<1>1. /\ step = "select" /\ task' = "trial"
      /\ UNCHANGED <<fixedVars, upper, work, selection, refined, parentVars, shared>>
  BY DEF TryCharacter
<1>2. PICK c \in trying : BeginSplit(N, c)
  BY DEF TryCharacter
<1>3. step \in Selecting /\ step \notin Filtering /\ ChildRuns
  BY <1>1 DEF Selecting, Filtering, ChildRuns
<1>4. IsDiagram(work) /\ IsDiagram(selection)
  BY <1>3 DEF MddInv, WorkPart, SelectionPart
<1>5. task \in ChildTasks /\ step # "graph" /\ step # "solver" /\ Published
  BY <1>3, ChildFacts
<1>6. Plain(B)
  <2>1. \A n \in NodesOf(work) : n[3] \subseteq refined
    BY DEF OptInv, NamePart
  <2>2. refined = {} => Plain(work)
    BY <2>1 DEF Plain
  <2>3. Plain(selection)
    BY DEF OptInv, NamePart
  <2> QED BY <2>2, <2>3
<1>7. IsDiagram(B) /\ B \in {work, selection}
  BY <1>4
<1>8. ASSUME lower < opt PROVE Fine(B) /\ \E W : Remains(W) /\ Keeps(B, W)
  <2>1. PICK W : Remains(W)
    BY <1>3, <1>8, ChildFacts
  <2>2. Fine(work) /\ Fine(selection)
    BY <1>3, <1>8, ChildFacts DEF FactPart
  <2>3. work # NoMdd /\ selection # NoMdd
    BY <1>4, DiagramIsThere
  <2>4. Keeps(work, W) /\ Keeps(selection, W)
    BY <1>1, <2>1, <2>3 DEF Remains, Kept
  <2> QED BY <1>7, <2>1, <2>2, <2>4
<1>9. strings \in Inputs /\ lower \in Nat /\ opt \in Nat
  BY OptFacts
<1> HIDE DEF B
<1>10. IsDiagram(N) /\ NodesOf(N) = NodesOf(B)
  BY <1>7, <1>9, CopyDiagram
<1>11. ASSUME lower < opt PROVE Fine(N) /\ \E W : Remains(W) /\ Keeps(N, W)
  BY <1>7, <1>8, <1>9, <1>11, CopyFine
<1>12. Plain(N)
  BY <1>6, <1>10 DEF Plain
<1> HIDE DEF N
<1>13. /\ mdd' = N /\ split' = c /\ step' \in {"filtered", "root", "down", "split"}
       /\ step' \in {"down", "split"} => at' \in 2..Len(N.levels)
  BY <1>2, <1>10, SplitBegins
<1>14. step' \in Filtering /\ task' \in ChildTasks
  BY <1>1, <1>13 DEF Filtering, ChildTasks
<1>15. \A M : NodesOf(M)' = NodesOf(M)
  BY DEF NodesOf
<1>16. Plain(selection)' <=> Plain(selection)
  BY <1>1 DEF Plain, NodesOf
<1>17. \A n \in NodesOf(work)' : n[3] \subseteq refined'
  BY <1>1, <1>15 DEF OptInv, NamePart
<1>18. step' = "split" => \A j \in at'..Len(mdd'.levels) : \A n \in mdd'.levels[j] : split' \notin n[3]
  <2> SUFFICES ASSUME step' = "split", NEW j \in at'..Len(N.levels), NEW n \in N.levels[j]
               PROVE  split' \notin n[3]
    BY <1>13
  <2>1. j \in 1..Len(N.levels)
    <3>1. at' \in 2..Len(N.levels)
      BY <1>13
    <3>2. Len(N.levels) \in Nat
      BY <1>9, <1>10, DiagramFacts
    <3> QED BY <3>1, <3>2
  <2>2. n \in NodesOf(N)
    BY <2>1 DEF NodesOf
  <2> QED BY <1>12, <2>2 DEF Plain
<1>19. NamePart'
  <2>1. task' # "copy" /\ task' # "refine"
    BY <1>1
  <2>2. Plain(selection)'
    BY <1>16 DEF OptInv, NamePart
  <2> QED BY <1>17, <1>18, <2>1, <2>2 DEF NamePart
<1>20. /\ UNCHANGED <<fixedVars, parent, selection>> /\ shared'.flat = shared.flat /\ work' = work
       /\ upper' = upper /\ shared'.upper = shared.upper /\ parentUpper' = parentUpper
  BY <1>1 DEF parentVars
<1>21. lower < opt => upper >= opt /\ shared.upper >= opt /\ parentUpper >= opt
  BY <1>3, ChildFacts
<1>22. lower < opt => /\ upper' >= opt /\ shared'.upper >= opt
                      /\ task' \in ChildTasks => parentUpper' >= opt
                      /\ Fine(N)
                      /\ task' \notin ChildTasks => AllActive(N)
                      /\ \E W : Remains(W) /\ Keeps(N, W)
  BY <1>11, <1>14, <1>20, <1>21
<1>23. step # "layout" /\ task' \in ChildTasks \cup {"parent"}
  BY <1>1, <1>14
<1> QED BY <1>5, <1>13, <1>14, <1>19, <1>20, <1>22, <1>23, FilterStarts

LEMMA RefineCharacterSafe ==
    ASSUME MddInv, OptInv, RefineCharacter
    PROVE  OptInv'
<1>1. /\ step = "select" /\ task' = "refine" /\ work' = NoMdd
      /\ UNCHANGED <<fixedVars, upper, selection, refined, parentVars, shared>>
  BY DEF RefineCharacter
<1>2. PICK c \in Characters \ refined : BeginSplit(work, c)
  BY DEF RefineCharacter
<1>3. step \in Selecting /\ step \notin Filtering /\ ChildRuns
  BY <1>1 DEF Selecting, Filtering, ChildRuns
<1>4. IsDiagram(work)
  BY <1>3 DEF MddInv, WorkPart
<1>5. task \in ChildTasks /\ step # "graph" /\ step # "solver" /\ Published
  BY <1>3, ChildFacts
<1>6. \A n \in NodesOf(work) : n[3] \subseteq refined
  BY DEF OptInv, NamePart
<1>8. ASSUME lower < opt PROVE Fine(work) /\ \E W : Remains(W) /\ Keeps(work, W)
  <2>1. PICK W : Remains(W)
    BY <1>3, <1>8, ChildFacts
  <2>2. Fine(work)
    BY <1>3, <1>8, ChildFacts DEF FactPart
  <2>3. work # NoMdd
    BY <1>4, DiagramIsThere
  <2>4. Keeps(work, W)
    BY <1>1, <2>1, <2>3 DEF Remains, Kept
  <2> QED BY <2>1, <2>2, <2>4
<1>9. strings \in Inputs /\ lower \in Nat /\ opt \in Nat
  BY OptFacts
<1> DEFINE N == work
<1>10. IsDiagram(N) /\ \A n \in NodesOf(N) : n[3] \subseteq refined
  BY <1>4, <1>6
<1>11. ASSUME lower < opt PROVE Fine(N) /\ \E W : Remains(W) /\ Keeps(N, W)
  BY <1>8, <1>11
<1>12. BeginSplit(N, c)
  BY <1>2
<1> HIDE DEF N
<1>13. /\ mdd' = N /\ split' = c /\ step' \in {"filtered", "root", "down", "split"}
       /\ step' \in {"down", "split"} => at' \in 2..Len(N.levels)
  BY <1>10, <1>12, SplitBegins
<1>14. step' \in Filtering /\ task' \in ChildTasks
  BY <1>1, <1>13 DEF Filtering, ChildTasks
<1>15. NodesOf(NoMdd) = {} /\ \A M : NodesOf(M)' = NodesOf(M)
  BY DEF NodesOf, NoMdd
<1>16. Plain(selection)' <=> Plain(selection)
  BY <1>1 DEF Plain, NodesOf
<1>17. \A n \in NodesOf(work)' : n[3] \subseteq refined'
  BY <1>1, <1>15
<1>18. step' = "split" => \A j \in at'..Len(mdd'.levels) : \A n \in mdd'.levels[j] : split' \notin n[3]
  <2> SUFFICES ASSUME step' = "split", NEW j \in at'..Len(N.levels), NEW n \in N.levels[j]
               PROVE  split' \notin n[3]
    BY <1>13
  <2>1. j \in 1..Len(N.levels)
    <3>1. at' \in 2..Len(N.levels)
      BY <1>13
    <3>2. Len(N.levels) \in Nat
      BY <1>9, <1>10, DiagramFacts
    <3> QED BY <3>1, <3>2
  <2>2. n \in NodesOf(N)
    BY <2>1 DEF NodesOf
  <2> QED BY <1>2, <1>10, <1>13, <2>2
<1>19. NamePart'
  <2>1. task' # "copy"
    BY <1>1
  <2>2. Plain(selection)'
    BY <1>16 DEF OptInv, NamePart
  <2>3. \A n \in NodesOf(mdd)' : n[3] \subseteq refined' \cup {split'}
    BY <1>1, <1>10, <1>13, <1>15
  <2> QED BY <1>17, <1>18, <2>1, <2>2, <2>3 DEF NamePart
<1>20. /\ UNCHANGED <<fixedVars, parent, selection>> /\ shared'.flat = shared.flat
       /\ upper' = upper /\ shared'.upper = shared.upper /\ parentUpper' = parentUpper
  BY <1>1 DEF parentVars
<1>21. lower < opt => upper >= opt /\ shared.upper >= opt /\ parentUpper >= opt
  BY <1>3, ChildFacts
<1>22. lower < opt => /\ upper' >= opt /\ shared'.upper >= opt
                      /\ task' \in ChildTasks => parentUpper' >= opt
                      /\ Fine(N)
                      /\ task' \notin ChildTasks => AllActive(N)
                      /\ \E W : Remains(W) /\ Keeps(N, W)
  BY <1>11, <1>14, <1>20, <1>21
<1>23. step # "layout" /\ task' \in ChildTasks \cup {"parent"}
  BY <1>1, <1>14
<1>24. work' = NoMdd
  BY <1>1
<1> QED BY <1>5, <1>13, <1>14, <1>19, <1>20, <1>22, <1>23, <1>24, FilterStarts

(* A way of a longest solution is one of the paths of the model.           *)
LEMMA WayIsPath ==
    ASSUME strings \in Inputs, opt \in 0..Sigma, NEW M, IsDiagram(M), NEW q, NEW W, Way(M, q, W)
    PROVE  FreePaths(M)[opt] # {}
<1>1. IsFree(M, q, opt)
  BY DEF Way
<1> QED BY <1>1, FreePathsAre

LEMMA CopyPaths ==
    ASSUME strings \in Inputs, opt \in 0..Sigma, NEW M, IsDiagram(M), FreePaths(CopyOf(M))[opt] # {}
    PROVE  FreePaths(M)[opt] # {}
<1>1. /\ IsDiagram(CopyOf(M)) /\ CopyOf(M).side = M.side
      /\ NodesOf(CopyOf(M)) = NodesOf(M) /\ CopyOf(M).arcs = M.arcs
  BY CopyDiagram
<1>2. PICK q : IsFree(CopyOf(M), q, opt)
  BY <1>1, FreePathsAre
<1>3. IsFree(M, q, opt)
  BY <1>1, <1>2 DEF IsFree
<1> QED BY <1>3, FreePathsAre

(* What the MDDs are, wherever there is one.                               *)
LEMMA AllDiagrams ==
    ASSUME MddInv
    PROVE  /\ mdd # NoMdd => IsDiagram(mdd)
           /\ work # NoMdd => IsDiagram(work)
           /\ selection # NoMdd => IsDiagram(selection)
           /\ parent # NoMdd => IsDiagram(parent)
           /\ ~Published => work = NoMdd /\ selection = NoMdd /\ shared = NotShared
           /\ step = "layout" => work # NoMdd /\ selection # NoMdd /\ Published
<1>1. mdd # NoMdd => IsDiagram(mdd)
  BY DEF MddInv, MddPart
<1>2. work # NoMdd => IsDiagram(work)
  BY DEF MddInv, WorkPart
<1>3. selection # NoMdd => IsDiagram(selection)
  BY DEF MddInv, SelectionPart
<1>4. parent # NoMdd => IsDiagram(parent)
  BY DEF MddInv, ParentPart
<1>5. ~Published => work = NoMdd /\ selection = NoMdd /\ shared = NotShared
  <2> SUFFICES ASSUME ~Published PROVE work = NoMdd /\ selection = NoMdd /\ shared = NotShared
    OBVIOUS
  <2>1. task \in {"forward", "backward"}
    BY DEF Published
  <2>2. task \notin ChildTasks
    BY <2>1 DEF ChildTasks
  <2>3. step \notin Selecting
    BY <2>2 DEF MddInv, StepsFit
  <2>4. work = NoMdd
    BY <2>1, <2>3 DEF MddInv, WorkPart
  <2>5. selection = NoMdd
    BY <2>1, <2>3 DEF MddInv, SelectionPart
  <2>6. shared = NotShared
    BY DEF MddInv, SharedPart
  <2> QED BY <2>4, <2>5, <2>6
<1>6. step = "layout" => work # NoMdd /\ selection # NoMdd /\ Published
  <2> SUFFICES ASSUME step = "layout" PROVE work # NoMdd /\ selection # NoMdd /\ Published
    OBVIOUS
  <2>1. step \in Selecting
    BY DEF Selecting
  <2>2. IsDiagram(work) /\ IsDiagram(selection)
    BY <2>1 DEF MddInv, WorkPart, SelectionPart
  <2>3. task \in ChildTasks
    BY <2>1 DEF MddInv, StepsFit
  <2>4. Published
    BY <2>3 DEF Published, ChildTasks
  <2> QED BY <2>2, <2>4, DiagramIsThere
<1> QED BY <1>1, <1>2, <1>3, <1>4, <1>5, <1>6

LEMMA OptimumIsThere ==
    ASSUME MddInv, OptInv
    PROVE  SomeOptimumRemains
<1> SUFFICES ASSUME step # "graph", lower < opt
             PROVE  /\ \A M \in Diagrams : FreePaths(M)[opt] # {}
                    /\ shared # NotShared => FreePaths(PrunedByFlat(parent, shared.flat))[opt] # {}
  BY DEF SomeOptimumRemains
<1>1. strings \in Inputs /\ opt \in 0..Sigma /\ opt \in Nat /\ lower \in Nat
  BY OptFacts
<1>2. WayPart
  BY DEF OptInv
<1>3. \A M, W : IsDiagram(M) /\ Keeps(M, W) => FreePaths(M)[opt] # {}
  BY <1>1, WayIsPath DEF Keeps
<1>4. \A M, q, W : IsDiagram(M) /\ Way(M, q, W) => FreePaths(M)[opt] # {}
  BY <1>1, WayIsPath
<1>5. CASE ~Published
  <2>1. work = NoMdd /\ selection = NoMdd /\ shared = NotShared
    BY <1>5, AllDiagrams
  <2>2. (\E W : Kept(mdd, W)) /\ (\E W : Kept(parent, W))
    BY <1>2, <1>5 DEF WayPart
  <2>3. mdd # NoMdd => FreePaths(mdd)[opt] # {}
    BY <1>3, <2>2, AllDiagrams DEF Kept
  <2>4. parent # NoMdd => FreePaths(parent)[opt] # {}
    BY <1>3, <2>2, AllDiagrams DEF Kept
  <2> QED BY <2>1, <2>3, <2>4 DEF Diagrams
<1>6. CASE Published
  <2>1. PICK W : Remains(W)
    BY <1>2, <1>6 DEF WayPart
  <2>2. mdd # NoMdd => FreePaths(mdd)[opt] # {}
    BY <1>3, <2>1, AllDiagrams DEF Kept, Remains
  <2>3. parent # NoMdd => FreePaths(parent)[opt] # {}
    BY <1>4, <2>1, AllDiagrams DEF Remains
  <2>4. work # NoMdd => FreePaths(work)[opt] # {}
    <3>1. CASE step = "layout"
      <4>1. IsDiagram(work) /\ Keeps(CopyOf(work), W)
        BY <2>1, <3>1, AllDiagrams DEF Remains
      <4>2. IsDiagram(CopyOf(work))
        BY <1>1, <4>1, CopyDiagram
      <4> QED BY <1>1, <1>3, <4>1, <4>2, CopyPaths
    <3>2. CASE step # "layout"
      BY <1>3, <2>1, <3>2, AllDiagrams DEF Kept, Remains
    <3> QED BY <3>1, <3>2
  <2>5. selection # NoMdd => FreePaths(selection)[opt] # {}
    <3>1. CASE step = "layout"
      BY <1>3, <2>1, <3>1, AllDiagrams DEF Remains
    <3>2. CASE step # "layout"
      BY <1>3, <2>1, <3>2, AllDiagrams DEF Kept, Remains
    <3> QED BY <3>1, <3>2
  <2>6. FreePaths(PrunedByFlat(parent, shared.flat))[opt] # {}
    <3>1. Keeps(PrunedByFlat(parent, shared.flat), W)
      BY <1>6, <2>1, ParentPruned
    <3>2. IsDiagram(parent) /\ Len(shared.flat) > 0 /\ Source(parent.side) \in shared.flat[1].matches
      BY <1>6, PublishedFacts
    <3>3. IsDiagram(PrunedByFlat(parent, shared.flat))
      BY <1>1, <3>2, PrunedDiagram
    <3> QED BY <1>3, <3>1, <3>3
  <2> QED BY <2>2, <2>3, <2>4, <2>5, <2>6 DEF Diagrams
<1> QED BY <1>5, <1>6

LEMMA BoundsAreThere ==
    ASSUME MddInv, OptInv
    PROVE  BoundsAreValid
<1> SUFFICES ASSUME step # "graph", lower < opt
             PROVE  /\ upper >= opt
                    /\ ChildRuns \/ step = "merge" => parentUpper >= opt
                    /\ shared # NotShared => shared.upper >= opt
  BY DEF BoundsAreValid
<1>1. BoundPart
  BY DEF OptInv
<1>2. shared # NotShared => Published
  BY AllDiagrams
<1> QED BY <1>1, <1>2 DEF BoundPart

LEMMA FactsOfPath ==
    ASSUME strings \in Inputs, lower \in Nat, NEW M, IsDiagram(M), Sound(M), NEW k \in (lower + 1)..Sigma,
           NEW q \in FreePaths(M)[k], NEW i \in 2..(k + 1)
    PROVE  LET f == M.facts[q[i]]
               before == {Letter(q[j]) : j \in 2..i}
               after == {Letter(q[j]) : j \in (i + 1)..(k + 1)}
           IN  /\ f.allRoot \subseteq before /\ before \subseteq f.toRoot
               /\ f.allSink \subseteq after /\ after \subseteq f.sink
               /\ f.ub >= k + 1 - i
<1>1. k \in 0..Sigma /\ i \in 1..(k + 1)
  OBVIOUS
<1>2. IsFree(M, q, k)
  BY <1>1, FreePathsAre
<1>3. Knows(M.facts[q[i]], q, i, k)
  BY <1>1, <1>2 DEF Sound
<1>4. Passed(q, i) = {Letter(q[j]) : j \in 2..i}
  BY DEF Passed, Part
<1>5. Coming(q, i, k) = {Letter(q[j]) : j \in (i + 1)..(k + 1)}
  BY DEF Coming, Part
<1> QED BY <1>3, <1>4, <1>5 DEF Knows, Holds

(* No path is longer than the lower bound when that is optimal.            *)
LEMMA PathsNotLonger ==
    ASSUME strings \in Inputs, lower \in Nat, OptIsLongest, opt \in Nat, lower >= opt, NEW M, IsDiagram(M),
           NEW k \in (lower + 1)..Sigma, NEW q \in FreePaths(M)[k]
    PROVE  FALSE
<1>1. k \in 0..Sigma /\ k \in Nat
  OBVIOUS
<1>2. IsFree(M, q, k)
  BY <1>1, FreePathsAre
<1>3. M.side \in Directions
  BY DEF IsDiagram
<1>4. k <= opt
  BY <1>1, <1>2, <1>3, PathThread, ThreadLength
<1> QED BY <1>4

LEMMA FactsAreTrue ==
    ASSUME MddInv, OptInv
    PROVE  NodeFactsHold
<1> SUFFICES ASSUME NEW M \in {mdd, work, selection} \ {NoMdd}, NEW k \in (lower + 1)..Sigma,
                    NEW q \in FreePaths(M)[k], NEW i \in 2..(k + 1)
             PROVE  LET f == M.facts[q[i]]
                        before == {Letter(q[j]) : j \in 2..i}
                        after == {Letter(q[j]) : j \in (i + 1)..(k + 1)}
                    IN  /\ f.allRoot \subseteq before /\ before \subseteq f.toRoot
                        /\ f.allSink \subseteq after /\ after \subseteq f.sink
                        /\ f.ub >= k + 1 - i
  BY DEF NodeFactsHold
<1>1. IsDiagram(M)
  BY AllDiagrams
<1>2. strings \in Inputs /\ lower \in Nat /\ opt \in Nat /\ OptIsLongest
  BY OptFacts
<1>3. lower < opt
  BY <1>1, <1>2, PathsNotLonger
<1>4. step # "graph"
  <2> SUFFICES ASSUME step = "graph" PROVE FALSE
    OBVIOUS
  <2>1. task = "forward"
    BY DEF MddInv, StepsFit
  <2>2. ~Published
    BY <2>1 DEF Published
  <2>3. work = NoMdd /\ selection = NoMdd
    BY <2>2, AllDiagrams
  <2>4. mdd = NoMdd
    BY DEF MddInv, MddPart, Filtering
  <2> QED BY <2>3, <2>4
<1>5. Sound(M)
  BY <1>3, <1>4 DEF OptInv, FactPart, Fine
<1> QED BY <1>1, <1>2, <1>5, FactsOfPath

LEMMA OptStutter ==
    ASSUME MddInv, OptInv, UNCHANGED <<vars, mddVars>>
    PROVE  OptInv'
<1>1. /\ UNCHANGED <<step, task, mdd, at, parent, parentUpper, work, selection, split, refined, shared>>
      /\ UNCHANGED <<fixedVars, upper>> /\ strings' = strings /\ lower' = lower /\ opt' = opt
      /\ pc' = pc
  BY DEF vars, graphVars, relaxVars, mddVars, filterVars, childVars, parentVars, fixedVars
<1>2. CASE step # "graph"
  <2>1. NamePart'
    BY <1>1 DEF OptInv, NamePart, Plain, NodesOf
  <2>3. BoundPart' <=> BoundPart
    BY <1>1 DEF BoundPart, ChildRuns, Published, Filtering
  <2>4. FactPart' <=> FactPart
    BY <1>1, SoundnessUnchanged DEF FactPart, ChildTasks
  <2>5. \A W : Remains(W)' <=> Remains(W)
    <3> TAKE W
    <3>1. Kept(mdd, W)' <=> Kept(mdd, W)
      BY <1>1, SoundnessUnchanged DEF Kept
    <3>2. Kept(work, W)' <=> Kept(work, W)
      BY <1>1, SoundnessUnchanged DEF Kept
    <3>3. Kept(selection, W)' <=> Kept(selection, W)
      BY <1>1, SoundnessUnchanged DEF Kept
    <3>4. /\ Keeps(CopyOf(work), W)' <=> Keeps(CopyOf(work), W)
          /\ (\E V : Keeps(selection, V))' <=> \E V : Keeps(selection, V)
      <4>1. CopyOf(work)' = CopyOf(work)
        BY <1>1 DEF CopyOf
      <4> QED BY <1>1, <4>1, SoundnessUnchanged
    <3>5. FlatHas(shared.flat, W)' <=> FlatHas(shared.flat, W)
      BY <1>1, SoundnessUnchanged
    <3>6. FlatSafe(shared.flat, parent.side, W)' <=> FlatSafe(shared.flat, parent.side, W)
      BY <1>1, SoundnessUnchanged
    <3>7. (\E q : Way(parent, q, W))' <=> \E q : Way(parent, q, W)
      BY <1>1, SoundnessUnchanged
    <3> QED BY <1>1, <3>1, <3>2, <3>3, <3>4, <3>5, <3>6, <3>7 DEF Remains
  <2>6. /\ (\E W : Kept(mdd, W))' <=> \E W : Kept(mdd, W)
        /\ (\E W : Kept(parent, W))' <=> \E W : Kept(parent, W)
    BY <1>1, SoundnessUnchanged DEF Kept
  <2>7. Published' <=> Published
    BY <1>1 DEF Published, Filtering
  <2>8. WayPart' <=> WayPart
    BY <2>5, <2>6, <2>7 DEF WayPart
  <2> QED BY <1>1, <1>2, <2>1, <2>3, <2>4, <2>8, OptFromParts DEF OptInv
<1>3. CASE step = "graph"
  <2>1. CoverPart'
    <3>1. OptIsLongest' <=> OptIsLongest
      BY <1>1, SoundnessUnchanged
    <3>2. AvailableBehind' <=> AvailableBehind
      <4>1. active' = active /\ up' = up /\ avail' = avail /\ strings \in Inputs /\ lower \in Nat
        BY <1>1, OptFacts DEF fixedVars, graphVars
      <4>2. /\ Chains' = Chains
            /\ \A d \in Directions, C \in Chains : Places(d, C)' = Places(d, C)
            /\ \A X : Letters(X)' = Letters(X) /\ Weight(X)' = Weight(X)
        BY <1>1, <4>1, StringsUnchanged
      <4>3. Better' = Better
        BY <1>1, <4>2 DEF Better
      <4>4. \A C, d, m : From(d, C, m)' = From(d, C, m)
        BY <1>1 DEF From, Before, Root, Leaf
      <4>5. \A C \in Better : C \in Chains
        BY DEF Better
      <4> QED BY <4>1, <4>2, <4>3, <4>4, <4>5 DEF AvailableBehind
    <3> QED BY <1>1, <1>3, <3>1, <3>2 DEF OptInv, CoverPart, CoveredWhenDone
  <2>2. NamePart'
    BY <1>1 DEF OptInv, NamePart, Plain, NodesOf
  <2> QED BY <1>1, <1>3, <2>1, <2>2 DEF OptInv
<1> QED BY <1>2, <1>3

LEMMA OptStepBut ==
    ASSUME MddInv, OptInv, [MddNext]_<<vars, mddVars>>, ~SplitNextLevel, ~KeepOnlyOne
    PROVE  OptInv'
<1>1. CASE UNCHANGED <<vars, mddVars>>
  BY <1>1, OptStutter
<1>2. CASE GraphStep \/ StartForward \/ StartBackward \/ ChooseSide
  BY <1>2, GraphStepSafe, StartForwardSafe, StartBackwardSafe, ChooseSideSafe
<1>3. CASE FilterDown \/ FilterUp \/ FilterRoot
  BY <1>3, FilterDownSafe, FilterUpSafe, FilterRootSafe
<1>4. CASE Fork \/ ParentResumes \/ ParentLaysOut \/ EndReduction \/ Kill
  BY <1>4, ForkSafe, ParentResumesSafe, ParentLaysOutSafe, EndReductionSafe, KillSafe
<1>5. CASE CopyIsFiltered \/ TryCharacter \/ TrialIsOver \/ RefineCharacter
  BY <1>5, CopyIsFilteredSafe, TryCharacterSafe, TrialIsOverSafe, RefineCharacterSafe
<1>6. CASE ReportRefined \/ NextCharacter \/ MarkComplete \/ LayOut
  BY <1>6, ReportRefinedSafe, NextCharacterSafe, MarkCompleteSafe, LayOutSafe
<1> QED BY <1>1, <1>2, <1>3, <1>4, <1>5, <1>6 DEF MddNext, ChildNext

(* Until the first child has filtered its copy.                            *)
BeforeRefinement == rounds = 0 \/ (rounds = 1 /\ task = "copy")

EarlyPart ==
    /\ rounds \in Nat
    /\ rounds = 0 => task \notin ChildTasks
    /\ step \in {"next", "complete", "layout"} => task = "refine"

EarlyInv == EarlyPart /\ (BeforeRefinement => OptInv)

LEMMA EarlyStep ==
    ASSUME MddInv, EarlyPart, [MddNext]_<<vars, mddVars>>
    PROVE  EarlyPart' /\ (BeforeRefinement' => BeforeRefinement)
<1>1. /\ rounds \in Nat /\ (rounds = 0 => task \notin ChildTasks)
      /\ step \in {"next", "complete", "layout"} => task = "refine"
      /\ step \in Selecting => task \in ChildTasks
      /\ step = "split" => task \in {"trial", "refine"}
  BY DEF EarlyPart, MddInv, StepsFit
<1> DEFINE Goal == /\ rounds' \in Nat
                   /\ rounds' = 0 => task' \notin ChildTasks
                   /\ step' \in {"next", "complete", "layout"} => task' = "refine"
                   /\ BeforeRefinement' => BeforeRefinement
<1>2. CASE rounds' = rounds /\ task' = task /\ (step' \in {"next", "complete", "layout"} => task = "refine")
  <2>1. Goal
    BY <1>1, <1>2 DEF BeforeRefinement
  <2> QED BY <2>1 DEF EarlyPart
<1>3. CASE UNCHANGED <<vars, mddVars>>
  BY <1>1, <1>2, <1>3 DEF mddVars, parentVars
<1>4. CASE GraphStep \/ EndReduction \/ Kill \/ TrialIsOver
  <2>1. rounds' = rounds /\ task' = task /\ (step' = step \/ step' \notin {"next", "complete", "layout"})
    BY <1>4 DEF GraphStep, EndReduction, Kill, TrialIsOver, ChildEnds, mddVars, parentVars
  <2> QED BY <1>1, <1>2, <2>1
<1>5. CASE FilterDown \/ FilterUp \/ FilterRoot
  <2>1. rounds' = rounds /\ task' = task
    BY <1>5 DEF FilterDown, FilterUp, FilterRoot, parentVars
  <2>2. step' \notin {"next", "complete", "layout"}
    BY <1>5 DEF FilterDown, FilterUp, FilterRoot
  <2> QED BY <1>2, <2>1, <2>2
<1>6. CASE StartForward \/ StartBackward \/ ChooseSide \/ ParentResumes \/ ParentLaysOut
  <2>1. rounds' = rounds /\ task' \in {"forward", "backward", "parent", task}
    BY <1>6 DEF StartForward, StartBackward, ChooseSide, ParentResumes, ParentLaysOut, parentVars
  <2>2. step' \notin {"next", "complete", "layout"}
    BY <1>6 DEF StartForward, StartBackward, ChooseSide, ParentResumes, ParentLaysOut, BeginFilter
  <2>3. Goal
    BY <1>1, <2>1, <2>2 DEF BeforeRefinement, ChildTasks
  <2> QED BY <2>3 DEF EarlyPart
<1>7. CASE Fork
  <2>1. rounds' = rounds + 1 /\ task' = "copy" /\ step' \notin {"next", "complete", "layout"}
    BY <1>7 DEF Fork, BeginFilter
  <2>2. Goal
    BY <1>1, <2>1 DEF BeforeRefinement
  <2> QED BY <2>2 DEF EarlyPart
<1>8. CASE CopyIsFiltered
  <2>1. rounds' = rounds /\ task' = task /\ step' \notin {"next", "complete", "layout"}
    BY <1>8 DEF CopyIsFiltered, ChildEnds, parentVars
  <2> QED BY <1>2, <2>1
<1>9. CASE TryCharacter \/ RefineCharacter
  <2>1. rounds' = rounds /\ task' \in {"trial", "refine"} /\ step = "select"
    BY <1>9 DEF TryCharacter, RefineCharacter, parentVars
  <2>2. step' \notin {"next", "complete", "layout"}
    BY <1>9 DEF TryCharacter, RefineCharacter, BeginSplit, BeginFilter
  <2>3. rounds # 0
    BY <1>1, <2>1 DEF Selecting
  <2>4. Goal
    BY <1>1, <2>1, <2>2, <2>3 DEF BeforeRefinement, ChildTasks
  <2> QED BY <2>4 DEF EarlyPart
<1>10. CASE SplitNextLevel
  <2>1. rounds' = rounds /\ task' = task /\ step = "split" /\ step' \notin {"next", "complete", "layout"}
    BY <1>10 DEF SplitNextLevel, parentVars, BeginFilter
  <2> QED BY <1>2, <2>1
<1>11. CASE ReportRefined
  <2>1. rounds' = rounds /\ task' = task /\ task = "refine"
    BY <1>11 DEF ReportRefined, parentVars
  <2> QED BY <1>2, <2>1
<1>12. CASE NextCharacter \/ MarkComplete \/ KeepOnlyOne \/ LayOut
  <2>1. rounds' = rounds /\ task' = task /\ step \in {"next", "complete", "layout"}
    BY <1>12 DEF NextCharacter, MarkComplete, KeepOnlyOne, LayOut, parentVars
  <2> QED BY <1>1, <1>2, <2>1
<1> QED
  BY <1>3, <1>4, <1>5, <1>6, <1>7, <1>8, <1>9, <1>10, <1>11, <1>12 DEF MddNext, ChildNext

LEMMA EarlyKeeps ==
    ASSUME MddInv, EarlyInv, [MddNext]_<<vars, mddVars>>
    PROVE  EarlyInv'
<1>1. EarlyPart' /\ (BeforeRefinement' => BeforeRefinement)
  BY EarlyStep DEF EarlyInv
<1>2. ASSUME BeforeRefinement PROVE ~SplitNextLevel /\ ~KeepOnlyOne
  <2>1. task = "copy" \/ task \notin ChildTasks
    BY <1>2 DEF EarlyInv, EarlyPart, BeforeRefinement
  <2>2. ~SplitNextLevel
    BY <2>1 DEF SplitNextLevel, MddInv, StepsFit, ChildTasks
  <2>3. ~KeepOnlyOne
    BY <2>1 DEF KeepOnlyOne, EarlyInv, EarlyPart, ChildTasks
  <2> QED BY <2>2, <2>3
<1>3. BeforeRefinement' => OptInv'
  BY <1>1, <1>2, OptStepBut DEF EarlyInv
<1> QED BY <1>1, <1>3 DEF EarlyInv

(* Filtering alone never loses all longest solutions: in both MDDs of the  *)
(* main process and in the first child's copy, until that is filtered,     *)
(* some of them are left, the bounds are valid and the facts of the nodes  *)
(* are true (mdd_filter.cpp, mdd_node.hpp, reduction_orchestration.cpp).   *)
THEOREM FilteringIsSound ==
    MddSpec => [](BeforeRefinement => SomeOptimumRemains /\ BoundsAreValid /\ NodeFactsHold)
<1>1. MddInit => EarlyInv
  <2> SUFFICES ASSUME MddInit PROVE EarlyInv
    OBVIOUS
  <2>1. OptInv
    BY OptInitially
  <2>2. rounds = 0 /\ task = "forward" /\ step = "graph"
    BY DEF MddInit
  <2> QED BY <2>1, <2>2 DEF EarlyInv, EarlyPart, ChildTasks
<1>2. MddInv /\ EarlyInv /\ [MddNext]_<<vars, mddVars>> => EarlyInv'
  BY EarlyKeeps
<1>3. MddInv /\ EarlyInv => (BeforeRefinement => SomeOptimumRemains /\ BoundsAreValid /\ NodeFactsHold)
  BY OptimumIsThere, BoundsAreThere, FactsAreTrue DEF EarlyInv
<1> QED BY <1>1, <1>2, <1>3, MddInvariance, PTL DEF MddSpec

(* What SplitLevel calls useful, cut and freed.  No node of the level has  *)
(* been split off on the character before.                                 *)
Useful(M, i, c) ==
    {n \in SplitNodes(M, i, c) : /\ MovedPreds(M, n, c) # {}
                                 /\ Succs(M, n) # {} \/ DepthOf(n) > lower}

SplitCopies(M, i, c) == {NoMaybe(n, c) : n \in Useful(M, i, c)}

SplitCut(M, i, c) ==
    UNION {{<<p, n>> : p \in MovedPreds(M, n, c)}
             \cup {<<n, s>> : s \in LostSuccs(M, n, c)} : n \in SplitNodes(M, i, c)}

SplitFreed(M, i, c, skipped) ==
    UNION {LeftIn(M, n, c) \cup LeftOut(M, n, c) : n \in Deactivated(M, i, c)} \ skipped

NotYet(M, i, c) == \A n \in M.levels[i] : c \notin n[3]

LEMMA CopyNames ==
    ASSUME strings \in Inputs, NEW M, IsDiagram(M), NEW i \in 2..Len(M.levels), NEW c \in Characters,
           NotYet(M, i, c)
    PROVE  /\ Useful(M, i, c) \subseteq SplitNodes(M, i, c) /\ SplitNodes(M, i, c) \subseteq M.levels[i]
           /\ M.levels[i] \subseteq NodesOf(M) /\ i \in 1..Len(M.levels) /\ i # 1
           /\ RootNode(M.side) \notin M.levels[i]
           /\ \A n \in M.levels[i] : /\ NoMaybe(n, c) \notin NodesOf(M)
                                     /\ DepthOf(NoMaybe(n, c)) = DepthOf(n)
                                     /\ MatchOf(NoMaybe(n, c)) = MatchOf(n)
           /\ \A n, o \in M.levels[i] : NoMaybe(n, c) = NoMaybe(o, c) => n = o
           /\ \A n, o \in M.levels[i] : DepthOf(n) = DepthOf(o)
<1>1. /\ i \in 1..Len(M.levels) /\ i # 1 /\ M.levels[i] \subseteq NodesOf(M)
      /\ RootNode(M.side) \notin M.levels[i]
  BY DiagramFacts
<1>2. Useful(M, i, c) \subseteq SplitNodes(M, i, c) /\ SplitNodes(M, i, c) \subseteq M.levels[i]
  BY DEF Useful, SplitNodes
<1>3. \A n \in M.levels[i] : DepthOf(NoMaybe(n, c)) = DepthOf(n) /\ MatchOf(NoMaybe(n, c)) = MatchOf(n)
  BY DEF NoMaybe, DepthOf, MatchOf
<1>4. ASSUME NEW n \in M.levels[i], NEW o \in M.levels[i] PROVE DepthOf(n) = DepthOf(o)
  <2>1. n \in NodesOf(M) /\ o \in NodesOf(M)
    BY <1>1
  <2>2. DepthOf(n) \in 0..Sigma /\ DepthOf(o) \in 0..Sigma
    BY <2>1, DiagramFacts
  <2>3. ~(DepthOf(n) < DepthOf(o)) /\ ~(DepthOf(o) < DepthOf(n))
    BY <1>1 DEF IsDiagram
  <2> QED BY <2>2, <2>3
<1>5. ASSUME NEW n \in M.levels[i] PROVE NoMaybe(n, c) \notin NodesOf(M)
  <2> SUFFICES ASSUME NoMaybe(n, c) \in NodesOf(M) PROVE FALSE
    OBVIOUS
  <2>1. PICK j \in 1..Len(M.levels) : NoMaybe(n, c) \in M.levels[j]
    BY DEF NodesOf
  <2>2. DepthOf(NoMaybe(n, c)) = DepthOf(n)
    BY <1>3
  <2>3. DepthOf(n) \in 0..Sigma
    BY <1>1, DiagramFacts
  <2>4. j < i <=> DepthOf(n) < DepthOf(n)
    BY <1>1, <2>1, <2>2 DEF IsDiagram
  <2>5. i < j <=> DepthOf(n) < DepthOf(n)
    BY <1>1, <2>1, <2>2 DEF IsDiagram
  <2>6. j = i
    BY <1>1, <2>3, <2>4, <2>5
  <2>7. c \in NoMaybe(n, c)[3]
    BY DEF NoMaybe
  <2> QED BY <2>1, <2>6, <2>7 DEF NotYet
<1>6. ASSUME NEW n \in M.levels[i], NEW o \in M.levels[i], NoMaybe(n, c) = NoMaybe(o, c) PROVE n = o
  <2>1. n = <<n[1], n[2], n[3]>> /\ o = <<o[1], o[2], o[3]>>
    BY <1>1, DiagramFacts
  <2>2. n[1] = o[1] /\ n[2] = o[2] /\ n[3] \cup {c} = o[3] \cup {c}
    BY <1>6 DEF NoMaybe
  <2>3. c \notin n[3] /\ c \notin o[3]
    BY DEF NotYet
  <2>4. n[3] \in SUBSET Characters /\ o[3] \in SUBSET Characters
    BY <1>1, DiagramFacts
  <2>5. \A x \in Characters : x \in n[3] <=> x \in o[3]
    BY <2>2, <2>3
  <2>6. n[3] = o[3]
    BY <2>4, <2>5
  <2> QED BY <2>1, <2>2, <2>6
<1> QED BY <1>1, <1>2, <1>3, <1>4, <1>5, <1>6

(* What a split makes of a node, and what the copy knows.                  *)
CopyKnows(f, g, c) ==
    /\ f.toRoot = g.toRoot \ {c} /\ f.allRoot = g.allRoot \ {c} /\ f.sink = g.sink
    /\ f.allSink = g.allSink /\ f.ub = g.ub /\ f.active /\ f.needSucc

StillKnows(f, g, c) ==
    /\ f.toRoot = g.toRoot /\ f.allRoot = g.allRoot \cup {c} /\ f.sink = g.sink \ {c}
    /\ f.allSink = g.allSink /\ f.ub = g.ub /\ f.needSucc

LEMMA SplitParts ==
    ASSUME strings \in Inputs, NEW M, IsDiagram(M), NEW i \in 2..Len(M.levels), NEW c \in Characters,
           NotYet(M, i, c), NEW skipped
    PROVE  LET N == SplitLevel(M, i, c, skipped)
           IN  /\ NodesOf(N) = NodesOf(M) \cup SplitCopies(M, i, c)
               /\ N.levels[i] = M.levels[i] \cup SplitCopies(M, i, c)
               /\ \A k \in 1..Len(M.levels) : k # i => N.levels[k] = M.levels[k]
               /\ N.arcs = (M.arcs \ (SplitCut(M, i, c) \cup SplitFreed(M, i, c, skipped)))
                              \cup UNION {{<<p, NoMaybe(n, c)>> : p \in MovedPreds(M, n, c)}
                                            \cup {<<NoMaybe(n, c), s>> : s \in Succs(M, n)} : n \in Useful(M, i, c)}
               /\ \A n \in Useful(M, i, c) : CopyKnows(N.facts[NoMaybe(n, c)], M.facts[n], c)
               /\ \A n \in SplitNodes(M, i, c) : /\ StillKnows(N.facts[n], M.facts[n], c)
                                                 /\ M.facts[n].active /\ n \notin Deactivated(M, i, c) => N.facts[n].active
               /\ \A n \in NodesOf(M) \ SplitNodes(M, i, c) : /\ SameKnown(N.facts[n], M.facts[n])
                                                              /\ N.facts[n].active = M.facts[n].active
                                                              /\ N.facts[n].needSucc <=>
                                                                    \/ M.facts[n].needSucc
                                                                    \/ \E m \in SplitNodes(M, i, c) : n \in Preds(M, m)
<1> DEFINE apart == SplitNodes(M, i, c)
           dead == Deactivated(M, i, c)
           useful == Useful(M, i, c)
           cut == SplitCut(M, i, c)
           freed == SplitFreed(M, i, c, skipped)
           added == UNION {{<<p, NoMaybe(n, c)>> : p \in MovedPreds(M, n, c)}
                             \cup {<<NoMaybe(n, c), s>> : s \in Succs(M, n)} : n \in useful}
           copies == {NoMaybe(n, c) : n \in useful}
           original(n) == CHOOSE o \in useful : NoMaybe(o, c) = n
           facts == [n \in DOMAIN M.facts \cup copies |->
               IF n \in copies
               THEN [M.facts[original(n)] EXCEPT !.toRoot = @ \ {c}, !.allRoot = @ \ {c}, !.active = TRUE,
                                                 !.needPred = TRUE, !.needSucc = TRUE]
               ELSE IF n \in apart
               THEN [M.facts[n] EXCEPT !.sink = @ \ {c}, !.allRoot = @ \cup {c}, !.active = @ /\ n \notin dead,
                                       !.needPred = TRUE, !.needSucc = TRUE]
               ELSE M.facts[n]]
           A == UNION {Preds(M, n) : n \in apart}
           B == UNION {Succs(M, n) : n \in apart}
           levels == [M.levels EXCEPT ![i] = @ \cup copies]
           arcs == (M.arcs \ (cut \cup freed)) \cup added
           F == Flagged(facts, A, B)
           N == SplitLevel(M, i, c, skipped)
<1>1. N = [M EXCEPT !.levels[i] = @ \cup copies, !.arcs = (@ \ (cut \cup freed)) \cup added, !.facts = F]
  BY DEF SplitLevel, Useful, SplitCut, SplitFreed
<1>2. /\ DOMAIN M.levels = 1..Len(M.levels) /\ DOMAIN M.facts = NodesOf(M) /\ i \in 1..Len(M.levels)
      /\ \A n \in NodesOf(M) : M.facts[n] \in Known
  BY DiagramFacts DEF IsDiagram
<1>3. /\ useful \subseteq apart /\ apart \subseteq M.levels[i] /\ M.levels[i] \subseteq NodesOf(M)
      /\ \A n \in M.levels[i] : NoMaybe(n, c) \notin NodesOf(M)
      /\ \A n, o \in M.levels[i] : NoMaybe(n, c) = NoMaybe(o, c) => n = o
  BY CopyNames
<1>4. ASSUME NEW n \in useful PROVE original(NoMaybe(n, c)) = n /\ NoMaybe(n, c) \in copies
  <2>1. original(NoMaybe(n, c)) \in useful /\ NoMaybe(original(NoMaybe(n, c)), c) = NoMaybe(n, c)
    OBVIOUS
  <2> QED BY <2>1, <1>3
<1>5. facts \in [NodesOf(M) \cup copies -> Known]
  <2>1. ASSUME NEW n \in copies PROVE M.facts[original(n)] \in Known
    <3>1. original(n) \in useful
      OBVIOUS
    <3> QED BY <3>1, <1>2, <1>3
  <2> HIDE DEF original, copies, apart, dead
  <2>2. ASSUME NEW n \in copies
        PROVE  [M.facts[original(n)] EXCEPT !.toRoot = @ \ {c}, !.allRoot = @ \ {c}, !.active = TRUE,
                                            !.needPred = TRUE, !.needSucc = TRUE] \in Known
    BY <2>1, <2>2 DEF Known
  <2>3. ASSUME NEW n \in NodesOf(M)
        PROVE  [M.facts[n] EXCEPT !.sink = @ \ {c}, !.allRoot = @ \cup {c}, !.active = @ /\ n \notin dead,
                                  !.needPred = TRUE, !.needSucc = TRUE] \in Known
    <3>1. M.facts[n] \in Known /\ (M.facts[n].active /\ n \notin dead) \in BOOLEAN
      BY <1>2
    <3> QED BY <3>1 DEF Known
  <2> QED BY <1>2, <1>3, <2>2, <2>3
<1>6. ASSUME NEW n \in useful PROVE CopyKnows(facts[NoMaybe(n, c)], M.facts[n], c)
  <2>1. NoMaybe(n, c) \in copies /\ original(NoMaybe(n, c)) = n /\ M.facts[n] \in Known
    BY <1>2, <1>3, <1>4
  <2>2. facts[NoMaybe(n, c)] = [M.facts[n] EXCEPT !.toRoot = @ \ {c}, !.allRoot = @ \ {c}, !.active = TRUE,
                                                 !.needPred = TRUE, !.needSucc = TRUE]
    BY <2>1
  <2> HIDE DEF facts
  <2> QED BY <2>1, <2>2 DEF CopyKnows, Known
<1>7. \A n \in NodesOf(M) : n \notin copies
  BY <1>3
<1>8. ASSUME NEW n \in apart
      PROVE  /\ StillKnows(facts[n], M.facts[n], c)
             /\ M.facts[n].active /\ n \notin dead => facts[n].active
  <2>1. n \in NodesOf(M) /\ n \notin copies /\ M.facts[n] \in Known
    BY <1>2, <1>3, <1>7
  <2> HIDE DEF copies, apart, dead
  <2>2. facts[n] = [M.facts[n] EXCEPT !.sink = @ \ {c}, !.allRoot = @ \cup {c}, !.active = @ /\ n \notin dead,
                                      !.needPred = TRUE, !.needSucc = TRUE]
    BY <1>2, <1>8, <2>1
  <2> HIDE DEF facts
  <2>3. StillKnows(facts[n], M.facts[n], c)
    BY <2>1, <2>2 DEF StillKnows, Known
  <2>4. M.facts[n].active /\ n \notin dead => facts[n].active
    BY <2>1, <2>2 DEF Known
  <2> QED BY <2>3, <2>4
<1>9. ASSUME NEW n \in NodesOf(M) \ apart PROVE facts[n] = M.facts[n]
  BY <1>2, <1>7
<1> HIDE DEF facts
<1>10. \A n \in NodesOf(M) \cup copies : /\ SameKnown(F[n], facts[n]) /\ F[n].active = facts[n].active
                                         /\ F[n].needSucc <=> facts[n].needSucc \/ n \in A
  <2> HIDE DEF A, B, copies
  <2> QED BY <1>5, FlaggedParts
<1> HIDE DEF F
<1>11. N.levels = levels /\ N.arcs = arcs /\ N.facts = F
  <2>1. M = [side |-> M.side, levels |-> M.levels, arcs |-> M.arcs, facts |-> M.facts]
    BY DEF IsDiagram
  <2> HIDE DEF copies, added, cut, freed, N
  <2> QED BY <1>1, <2>1
<1> HIDE DEF N
<1>12. \A k \in 1..Len(M.levels) : N.levels[k] = IF k = i THEN M.levels[i] \cup copies ELSE M.levels[k]
  BY <1>2, <1>11
<1>13. NodesOf(N) = NodesOf(M) \cup copies
  <2>1. Len(N.levels) = Len(M.levels)
    BY SplitDiagram DEF N
  <2> HIDE DEF copies
  <2> QED BY <1>2, <1>12, <2>1 DEF NodesOf
<1>14. \A n \in useful : CopyKnows(N.facts[NoMaybe(n, c)], M.facts[n], c)
  <2> TAKE n \in useful
  <2>1. NoMaybe(n, c) \in copies /\ CopyKnows(facts[NoMaybe(n, c)], M.facts[n], c)
    BY <1>6
  <2>2. /\ SameKnown(F[NoMaybe(n, c)], facts[NoMaybe(n, c)]) /\ F[NoMaybe(n, c)].active = facts[NoMaybe(n, c)].active
        /\ facts[NoMaybe(n, c)].needSucc => F[NoMaybe(n, c)].needSucc
    BY <1>10, <2>1
  <2> QED BY <1>11, <2>1, <2>2 DEF SameKnown, CopyKnows
<1>15. \A n \in apart : /\ StillKnows(N.facts[n], M.facts[n], c)
                        /\ M.facts[n].active /\ n \notin dead => N.facts[n].active
  <2> TAKE n \in apart
  <2>1. n \in NodesOf(M)
    BY <1>3
  <2>2. /\ SameKnown(F[n], facts[n]) /\ F[n].active = facts[n].active
        /\ facts[n].needSucc => F[n].needSucc
    BY <1>10, <2>1
  <2>3. StillKnows(N.facts[n], M.facts[n], c)
    BY <1>8, <1>11, <2>2 DEF SameKnown, StillKnows
  <2> QED BY <1>8, <1>11, <2>2, <2>3
<1>16. \A n \in NodesOf(M) \ apart :
          /\ SameKnown(N.facts[n], M.facts[n]) /\ N.facts[n].active = M.facts[n].active
          /\ N.facts[n].needSucc <=> M.facts[n].needSucc \/ \E m \in apart : n \in Preds(M, m)
  <2> TAKE n \in NodesOf(M) \ apart
  <2>1. facts[n] = M.facts[n] /\ SameKnown(F[n], facts[n]) /\ F[n].active = facts[n].active
    BY <1>9, <1>10
  <2>2. F[n].needSucc <=> facts[n].needSucc \/ n \in A
    BY <1>10
  <2>3. n \in A <=> \E m \in apart : n \in Preds(M, m)
    OBVIOUS
  <2> QED BY <1>11, <2>1, <2>2, <2>3
<1>17. N.levels[i] = M.levels[i] \cup copies /\ \A k \in 1..Len(M.levels) : k # i => N.levels[k] = M.levels[k]
  BY <1>2, <1>12
<1>18. copies = SplitCopies(M, i, c)
  BY DEF SplitCopies
<1> QED BY <1>11, <1>13, <1>14, <1>15, <1>16, <1>17, <1>18 DEF N

(* The node that a node of the split MDD comes from.                       *)
Origin(M, i, c, x) == IF x \in NodesOf(M) THEN x ELSE CHOOSE o \in Useful(M, i, c) : NoMaybe(o, c) = x

LEMMA OriginFacts ==
    ASSUME strings \in Inputs, NEW M, IsDiagram(M), NEW i \in 2..Len(M.levels), NEW c \in Characters,
           NotYet(M, i, c), NEW skipped
    PROVE  LET N == SplitLevel(M, i, c, skipped)
           IN  /\ \A x \in NodesOf(N) : /\ Origin(M, i, c, x) \in NodesOf(M)
                                        /\ DepthOf(Origin(M, i, c, x)) = DepthOf(x)
                                        /\ MatchOf(Origin(M, i, c, x)) = MatchOf(x)
                                        /\ Letter(Origin(M, i, c, x)) = Letter(x)
                                        /\ x \in NodesOf(M) \/ \E n \in Useful(M, i, c) : x = NoMaybe(n, c)
               /\ \A n \in NodesOf(M) : Origin(M, i, c, n) = n
               /\ \A n \in Useful(M, i, c) : Origin(M, i, c, NoMaybe(n, c)) = n
<1> DEFINE N == SplitLevel(M, i, c, skipped)
           copies == {NoMaybe(n, c) : n \in Useful(M, i, c)}
<1>1. NodesOf(N) = NodesOf(M) \cup copies
  BY SplitParts DEF SplitCopies
<1>2. /\ Useful(M, i, c) \subseteq M.levels[i] /\ M.levels[i] \subseteq NodesOf(M)
      /\ \A n \in M.levels[i] : /\ NoMaybe(n, c) \notin NodesOf(M)
                                /\ DepthOf(NoMaybe(n, c)) = DepthOf(n)
                                /\ MatchOf(NoMaybe(n, c)) = MatchOf(n)
      /\ \A n, o \in M.levels[i] : NoMaybe(n, c) = NoMaybe(o, c) => n = o
  BY CopyNames
<1>3. \A n \in NodesOf(M) : Origin(M, i, c, n) = n
  BY DEF Origin
<1>4. ASSUME NEW n \in Useful(M, i, c) PROVE Origin(M, i, c, NoMaybe(n, c)) = n
  <2>1. NoMaybe(n, c) \notin NodesOf(M)
    BY <1>2
  <2>2. Origin(M, i, c, NoMaybe(n, c)) = CHOOSE o \in Useful(M, i, c) : NoMaybe(o, c) = NoMaybe(n, c)
    BY <2>1 DEF Origin
  <2>3. /\ Origin(M, i, c, NoMaybe(n, c)) \in Useful(M, i, c)
        /\ NoMaybe(Origin(M, i, c, NoMaybe(n, c)), c) = NoMaybe(n, c)
    BY <2>2
  <2> QED BY <1>2, <2>3
<1>5. \A x \in NodesOf(N) : x \in NodesOf(M) \/ \E n \in Useful(M, i, c) : x = NoMaybe(n, c)
  BY <1>1
<1> HIDE DEF N, copies
<1>6. ASSUME NEW x \in NodesOf(N)
      PROVE  /\ Origin(M, i, c, x) \in NodesOf(M)
             /\ DepthOf(Origin(M, i, c, x)) = DepthOf(x)
             /\ MatchOf(Origin(M, i, c, x)) = MatchOf(x)
  BY <1>2, <1>3, <1>4, <1>5
<1>7. \A x \in NodesOf(N) : Letter(Origin(M, i, c, x)) = Letter(x)
  BY <1>6 DEF Letter
<1> QED BY <1>3, <1>4, <1>5, <1>6, <1>7 DEF N

LEMMA SplitArcs ==
    ASSUME strings \in Inputs, NEW M, IsDiagram(M), NEW i \in 2..Len(M.levels), NEW c \in Characters,
           NotYet(M, i, c), NEW skipped, NEW x, NEW y, <<x, y>> \in SplitLevel(M, i, c, skipped).arcs
    PROVE  /\ <<Origin(M, i, c, x), Origin(M, i, c, y)>> \in M.arcs
           /\ \A n \in Useful(M, i, c) : y = NoMaybe(n, c) => Origin(M, i, c, x) \in MovedPreds(M, n, c)
           /\ y \in SplitNodes(M, i, c) => c \in M.facts[Origin(M, i, c, x)].allRoot
<1> DEFINE N == SplitLevel(M, i, c, skipped)
<1>1. N.arcs = (M.arcs \ (SplitCut(M, i, c) \cup SplitFreed(M, i, c, skipped)))
                  \cup UNION {{<<p, NoMaybe(n, c)>> : p \in MovedPreds(M, n, c)}
                                \cup {<<NoMaybe(n, c), s>> : s \in Succs(M, n)} : n \in Useful(M, i, c)}
  BY SplitParts
<1>2. \/ <<x, y>> \in M.arcs /\ <<x, y>> \notin SplitCut(M, i, c)
      \/ \E n \in Useful(M, i, c) : y = NoMaybe(n, c) /\ x \in MovedPreds(M, n, c)
      \/ \E n \in Useful(M, i, c) : x = NoMaybe(n, c) /\ y \in Succs(M, n)
  BY <1>1
<1> HIDE DEF N
<1>3. /\ \A n \in NodesOf(M) : Origin(M, i, c, n) = n
      /\ \A n \in Useful(M, i, c) : Origin(M, i, c, NoMaybe(n, c)) = n
  BY OriginFacts
<1>4. /\ Useful(M, i, c) \subseteq SplitNodes(M, i, c) /\ SplitNodes(M, i, c) \subseteq M.levels[i]
      /\ M.levels[i] \subseteq NodesOf(M)
      /\ \A n \in M.levels[i] : NoMaybe(n, c) \notin NodesOf(M)
      /\ \A n, o \in M.levels[i] : NoMaybe(n, c) = NoMaybe(o, c) => n = o
      /\ \A n, o \in M.levels[i] : DepthOf(n) = DepthOf(o)
  BY CopyNames
<1>5. /\ \A n \in NodesOf(M) : /\ Preds(M, n) \subseteq NodesOf(M) /\ Succs(M, n) \subseteq NodesOf(M)
                               /\ DepthOf(n) \in 0..Sigma
      /\ \A n, s \in NodesOf(M) : s \in Succs(M, n) => <<n, s>> \in M.arcs /\ DepthOf(s) = DepthOf(n) + 1
      /\ \A n, p \in NodesOf(M) : p \in Preds(M, n) => <<p, n>> \in M.arcs
  BY DiagramFacts
<1>6. \A n : MovedPreds(M, n, c) \subseteq Preds(M, n)
  BY DEF MovedPreds
<1>7. CASE <<x, y>> \in M.arcs /\ <<x, y>> \notin SplitCut(M, i, c)
  <2>1. x \in NodesOf(M) /\ y \in NodesOf(M)
    BY <1>7 DEF IsDiagram
  <2>2. Origin(M, i, c, x) = x /\ Origin(M, i, c, y) = y
    BY <1>3, <2>1
  <2>3. \A n \in Useful(M, i, c) : y # NoMaybe(n, c)
    BY <1>4, <2>1
  <2>4. ASSUME y \in SplitNodes(M, i, c) PROVE c \in M.facts[x].allRoot
    <3>1. x \notin MovedPreds(M, y, c)
      BY <1>7, <2>4 DEF SplitCut
    <3>2. x \in Preds(M, y)
      BY <1>7 DEF Preds
    <3> QED BY <3>1, <3>2 DEF MovedPreds
  <2> QED BY <1>7, <2>2, <2>3, <2>4
<1>8. ASSUME NEW n \in Useful(M, i, c), y = NoMaybe(n, c), x \in MovedPreds(M, n, c)
      PROVE  /\ <<Origin(M, i, c, x), Origin(M, i, c, y)>> \in M.arcs
             /\ \A m \in Useful(M, i, c) : y = NoMaybe(m, c) => Origin(M, i, c, x) \in MovedPreds(M, m, c)
             /\ y \notin SplitNodes(M, i, c)
  <2>1. n \in NodesOf(M) /\ x \in NodesOf(M) /\ <<x, n>> \in M.arcs
    BY <1>4, <1>5, <1>6, <1>8
  <2>2. Origin(M, i, c, x) = x /\ Origin(M, i, c, y) = n
    BY <1>3, <1>8, <2>1
  <2>3. \A m \in Useful(M, i, c) : y = NoMaybe(m, c) => m = n
    BY <1>4, <1>8
  <2>4. y \notin NodesOf(M)
    BY <1>4, <1>8
  <2> QED BY <1>4, <1>8, <2>1, <2>2, <2>3, <2>4
<1>9. ASSUME NEW n \in Useful(M, i, c), x = NoMaybe(n, c), y \in Succs(M, n)
      PROVE  /\ <<Origin(M, i, c, x), Origin(M, i, c, y)>> \in M.arcs
             /\ \A m \in Useful(M, i, c) : y # NoMaybe(m, c)
             /\ y \notin SplitNodes(M, i, c)
  <2>1. n \in NodesOf(M) /\ n \in M.levels[i] /\ y \in NodesOf(M) /\ <<n, y>> \in M.arcs
        /\ DepthOf(y) = DepthOf(n) + 1 /\ DepthOf(n) \in Int
    BY <1>4, <1>5, <1>9
  <2>2. Origin(M, i, c, x) = n /\ Origin(M, i, c, y) = y
    BY <1>3, <1>9, <2>1
  <2>3. y \notin M.levels[i]
    <3>1. DepthOf(y) # DepthOf(n)
      BY <2>1
    <3> QED BY <1>4, <2>1, <3>1
  <2>4. \A m \in Useful(M, i, c) : y # NoMaybe(m, c)
    BY <1>4, <2>1
  <2> QED BY <1>4, <2>1, <2>2, <2>3, <2>4
<1> QED BY <1>2, <1>7, <1>8, <1>9

(* The path that a path of the split MDD comes from.                       *)
OriginPath(M, i, c, q, k) == [m \in 1..(k + 1) |-> Origin(M, i, c, q[m])]

LEMMA SplitPaths ==
    ASSUME strings \in Inputs, NEW M, IsDiagram(M), NEW i \in 2..Len(M.levels), NEW c \in Characters,
           NotYet(M, i, c), NEW skipped, NEW k \in Nat, NEW q, IsFree(SplitLevel(M, i, c, skipped), q, k)
    PROVE  /\ IsFree(M, OriginPath(M, i, c, q, k), k)
           /\ \A j \in 1..(k + 1) : /\ Passed(OriginPath(M, i, c, q, k), j) = Passed(q, j)
                                    /\ Coming(OriginPath(M, i, c, q, k), j, k) = Coming(q, j, k)
<1> DEFINE N == SplitLevel(M, i, c, skipped)
           o(x) == Origin(M, i, c, x)
           p == OriginPath(M, i, c, q, k)
<1>1. /\ q \in [1..(k + 1) -> NodesOf(N)] /\ q[1] = RootNode(N.side)
      /\ \A j \in 1..k : <<q[j], q[j + 1]>> \in N.arcs
      /\ \A j, l \in 2..(k + 1) : Letter(q[j]) = Letter(q[l]) => j = l
  BY DEF IsFree
<1>2. N.side = M.side
  BY SplitDiagram
<1>3. \A x \in NodesOf(N) : o(x) \in NodesOf(M) /\ Letter(o(x)) = Letter(x)
  BY OriginFacts
<1>4. \A j \in 1..(k + 1) : p[j] = o(q[j])
  BY DEF OriginPath
<1>5. \A j \in 1..(k + 1) : p[j] \in NodesOf(M) /\ Letter(p[j]) = Letter(q[j])
  BY <1>1, <1>3, <1>4
<1>6. p \in [1..(k + 1) -> NodesOf(M)]
  BY <1>4, <1>5 DEF OriginPath
<1>7. p[1] = RootNode(M.side)
  <2>1. RootNode(M.side) \in NodesOf(M)
    BY DiagramFacts
  <2>2. o(RootNode(M.side)) = RootNode(M.side)
    BY <2>1, OriginFacts
  <2> QED BY <1>1, <1>2, <1>4, <2>2
<1>8. ASSUME NEW j \in 1..k PROVE <<p[j], p[j + 1]>> \in M.arcs
  <2>1. <<o(q[j]), o(q[j + 1])>> \in M.arcs
    BY <1>1, SplitArcs
  <2>2. j \in 1..(k + 1) /\ j + 1 \in 1..(k + 1)
    OBVIOUS
  <2> QED BY <1>4, <2>1, <2>2
<1> HIDE DEF p, o, N
<1>9. \A j, l \in 2..(k + 1) : Letter(p[j]) = Letter(p[l]) => j = l
  <2>1. \A j \in 2..(k + 1) : Letter(p[j]) = Letter(q[j])
    BY <1>5
  <2> QED BY <1>1, <2>1
<1>10. IsFree(M, p, k)
  BY <1>6, <1>7, <1>8, <1>9 DEF IsFree
<1>11. ASSUME NEW j \in 1..(k + 1) PROVE Passed(p, j) = Passed(q, j) /\ Coming(p, j, k) = Coming(q, j, k)
  <2>1. \A l \in 2..j : Letter(p[l]) = Letter(q[l])
    BY <1>5
  <2>2. \A l \in (j + 1)..(k + 1) : Letter(p[l]) = Letter(q[l])
    BY <1>5
  <2>3. Passed(p, j) = Passed(q, j)
    BY <2>1 DEF Passed, Part
  <2>4. Coming(p, j, k) = Coming(q, j, k)
    BY <2>2 DEF Coming, Part
  <2> QED BY <2>3, <2>4
<1> QED BY <1>10, <1>11 DEF p

(* What splitting relies on, of an MDD.                                    *)
Separated(M, i, c) ==
    \A k \in (lower + 1)..Sigma : \A q : IsFree(M, q, k) =>
       \A j \in 1..k : q[j + 1] \in SplitNodes(M, i, c) /\ c \in Passed(q, j) => c \in M.facts[q[j]].allRoot

LEMMA SplitSound ==
    ASSUME strings \in Inputs, lower \in Nat, NEW M, IsDiagram(M), Fine(M),
           NEW i \in 2..Len(M.levels), NEW c \in Characters,
           NotYet(M, i, c), Separated(M, i, c), NEW skipped
    PROVE  Sound(SplitLevel(M, i, c, skipped))
<1> DEFINE N == SplitLevel(M, i, c, skipped)
<1> SUFFICES ASSUME NEW k \in (lower + 1)..Sigma, NEW q, IsFree(N, q, k), NEW j \in 1..(k + 1)
             PROVE  Knows(N.facts[q[j]], q, j, k)
  BY DEF Sound
<1> DEFINE p == OriginPath(M, i, c, q, k)
<1>1. k \in Nat /\ k \in 0..Sigma
  OBVIOUS
<1>2. /\ IsFree(M, p, k)
      /\ \A l \in 1..(k + 1) : Passed(p, l) = Passed(q, l) /\ Coming(p, l, k) = Coming(q, l, k)
  BY <1>1, SplitPaths
<1>3. \A l \in 1..(k + 1) : p[l] = Origin(M, i, c, q[l])
  BY DEF OriginPath
<1>4. /\ q \in [1..(k + 1) -> NodesOf(N)] /\ \A l \in 1..k : <<q[l], q[l + 1]>> \in N.arcs
  BY DEF IsFree
<1>5. q[j] \in NodesOf(N)
  BY <1>4
<1>6. /\ Origin(M, i, c, q[j]) \in NodesOf(M)
      /\ q[j] \in NodesOf(M) \/ \E n \in Useful(M, i, c) : q[j] = NoMaybe(n, c)
      /\ \A n \in NodesOf(M) : Origin(M, i, c, n) = n
      /\ \A n \in Useful(M, i, c) : Origin(M, i, c, NoMaybe(n, c)) = n
  BY <1>5, OriginFacts
<1> HIDE DEF p
<1>7. \A l \in 1..(k + 1) : Knows(M.facts[p[l]], p, l, k)
  BY <1>2 DEF Fine, Sound
<1>8. Holds(M.facts[p[j]], Passed(q, j), Coming(q, j, k), k + 1 - j)
  BY <1>2, <1>7 DEF Knows
<1>9. /\ Useful(M, i, c) \subseteq SplitNodes(M, i, c) /\ SplitNodes(M, i, c) \subseteq M.levels[i]
      /\ M.levels[i] \subseteq NodesOf(M) /\ RootNode(M.side) \notin M.levels[i]
  BY CopyNames
<1>10. Passed(q, j) \cap Coming(q, j, k) = {}
  <2>1. Passed(p, j) \cap Coming(p, j, k) = {}
    BY <1>1, <1>2, LetterCounts
  <2> QED BY <1>2, <2>1
(* On the level that is split.                                             *)
<1>11. ASSUME p[j] \in SplitNodes(M, i, c)
       PROVE  /\ j - 1 \in 1..k
              /\ c \in Passed(q, j) <=> c \in Passed(q, j - 1)
              /\ c \in Passed(q, j) => c \in M.facts[p[j - 1]].allRoot
              /\ c \in M.facts[p[j - 1]].allRoot => c \in Passed(q, j)
  <2>1. p[j] # RootNode(M.side) /\ p[j] \in NodesOf(M)
    BY <1>9, <1>11
  <2>2. j # 1
    BY <1>2, <2>1 DEF IsFree
  <2> DEFINE h == j - 1
  <2>3. h \in 1..k /\ j = h + 1 /\ h \in 1..(k + 1)
    BY <2>2
  <2> HIDE DEF h
  <2>4. c \in M.facts[p[j]].sink
    BY <1>11 DEF SplitNodes
  <2>5. Letter(p[j]) # c
    BY <2>1, <2>4 DEF Fine, Local
  <2>6. c \in Passed(p, j) <=> c \in Passed(p, h)
    BY <1>1, <1>2, <2>3, <2>5, LetterSteps
  <2>7. c \in Passed(p, h) => c \in M.facts[p[h]].allRoot
    BY <1>2, <1>11, <2>3 DEF Separated
  <2>8. M.facts[p[h]].allRoot \subseteq Passed(p, h)
    BY <1>7, <2>3 DEF Knows, Holds
  <2>9. Passed(p, h) = Passed(q, h) /\ Passed(p, j) = Passed(q, j)
    BY <1>2, <2>3
  <2>10. /\ c \in Passed(q, j) <=> c \in Passed(q, h)
         /\ c \in Passed(q, j) => c \in M.facts[p[h]].allRoot
         /\ c \in M.facts[p[h]].allRoot => c \in Passed(q, j)
    BY <2>6, <2>7, <2>8, <2>9
  <2> QED BY <2>3, <2>10 DEF h
<1>12. ASSUME j - 1 \in 1..k
       PROVE  /\ \A n \in Useful(M, i, c) : q[j] = NoMaybe(n, c) => p[j - 1] \in MovedPreds(M, n, c)
              /\ q[j] \in SplitNodes(M, i, c) => c \in M.facts[p[j - 1]].allRoot
  <2> DEFINE h == j - 1
  <2>1. h \in 1..k /\ j = h + 1 /\ h \in 1..(k + 1)
    BY <1>12
  <2> HIDE DEF h
  <2>2. <<q[h], q[j]>> \in N.arcs
    BY <1>4, <2>1
  <2>3. /\ \A n \in Useful(M, i, c) : q[j] = NoMaybe(n, c) => Origin(M, i, c, q[h]) \in MovedPreds(M, n, c)
        /\ q[j] \in SplitNodes(M, i, c) => c \in M.facts[Origin(M, i, c, q[h])].allRoot
    BY <2>2, SplitArcs
  <2>4. p[h] = Origin(M, i, c, q[h])
    BY <1>3, <2>1
  <2>5. /\ \A n \in Useful(M, i, c) : q[j] = NoMaybe(n, c) => p[h] \in MovedPreds(M, n, c)
        /\ q[j] \in SplitNodes(M, i, c) => c \in M.facts[p[h]].allRoot
    BY <2>3, <2>4
  <2> QED BY <2>5 DEF h
<1>13. ASSUME NEW n \in Useful(M, i, c), q[j] = NoMaybe(n, c)
       PROVE  Knows(N.facts[q[j]], q, j, k)
  <2>1. p[j] = n /\ n \in SplitNodes(M, i, c)
    BY <1>3, <1>6, <1>9, <1>13
  <2>2. CopyKnows(N.facts[q[j]], M.facts[n], c)
    BY <1>13, SplitParts
  <2>3. p[j - 1] \in MovedPreds(M, n, c)
    BY <1>11, <1>12, <1>13, <2>1
  <2>4. c \notin M.facts[p[j - 1]].allRoot
    BY <2>3 DEF MovedPreds
  <2>5. c \notin Passed(q, j)
    BY <1>11, <2>1, <2>4
  <2>6. Holds(M.facts[n], Passed(q, j), Coming(q, j, k), k + 1 - j)
    BY <1>8, <2>1
  <2> HIDE DEF N
  <2> QED BY <2>2, <2>5, <2>6 DEF Knows, Holds, CopyKnows
<1>14. ASSUME q[j] \in SplitNodes(M, i, c)
       PROVE  Knows(N.facts[q[j]], q, j, k)
  <2>1. p[j] = q[j]
    BY <1>3, <1>6, <1>9, <1>14
  <2>2. StillKnows(N.facts[q[j]], M.facts[q[j]], c)
    BY <1>14, SplitParts
  <2>3. c \in M.facts[p[j - 1]].allRoot
    BY <1>11, <1>12, <1>14, <2>1
  <2>4. c \in Passed(q, j)
    BY <1>11, <1>14, <2>1, <2>3
  <2>5. c \notin Coming(q, j, k)
    BY <1>10, <2>4
  <2>6. Holds(M.facts[q[j]], Passed(q, j), Coming(q, j, k), k + 1 - j)
    BY <1>8, <2>1
  <2> HIDE DEF N
  <2> QED BY <2>2, <2>4, <2>5, <2>6 DEF Knows, Holds, StillKnows
<1>15. ASSUME q[j] \in NodesOf(M) \ SplitNodes(M, i, c)
       PROVE  Knows(N.facts[q[j]], q, j, k)
  <2>1. p[j] = q[j]
    BY <1>3, <1>6, <1>15
  <2>2. SameKnown(N.facts[q[j]], M.facts[q[j]])
    BY <1>15, SplitParts
  <2>3. Holds(M.facts[q[j]], Passed(q, j), Coming(q, j, k), k + 1 - j)
    BY <1>8, <2>1
  <2> HIDE DEF N
  <2> QED BY <2>2, <2>3 DEF Knows, Holds, SameKnown
<1> QED BY <1>6, <1>13, <1>14, <1>15

LEMMA SplitFine ==
    ASSUME strings \in Inputs, lower \in Nat, NEW M, IsDiagram(M), Fine(M),
           NEW i \in 2..Len(M.levels), NEW c \in Characters,
           NotYet(M, i, c), Separated(M, i, c), NEW skipped
    PROVE  Fine(SplitLevel(M, i, c, skipped))
<1> DEFINE N == SplitLevel(M, i, c, skipped)
           copies == SplitCopies(M, i, c)
<1>1. Sound(N)
  BY SplitSound
<1>2. /\ Useful(M, i, c) \subseteq SplitNodes(M, i, c) /\ SplitNodes(M, i, c) \subseteq M.levels[i]
      /\ M.levels[i] \subseteq NodesOf(M) /\ RootNode(M.side) \notin M.levels[i] /\ i \in 1..Len(M.levels)
      /\ \A n \in M.levels[i] : DepthOf(NoMaybe(n, c)) = DepthOf(n) /\ MatchOf(NoMaybe(n, c)) = MatchOf(n)
  BY CopyNames
<1>3. /\ NodesOf(N) = NodesOf(M) \cup copies
      /\ N.levels[i] = M.levels[i] \cup copies
      /\ \A k \in 1..Len(M.levels) : k # i => N.levels[k] = M.levels[k]
      /\ \A n \in Useful(M, i, c) : CopyKnows(N.facts[NoMaybe(n, c)], M.facts[n], c)
      /\ \A n \in SplitNodes(M, i, c) : StillKnows(N.facts[n], M.facts[n], c)
      /\ \A n \in NodesOf(M) \ SplitNodes(M, i, c) : SameKnown(N.facts[n], M.facts[n])
  <2>1. NodesOf(N) = NodesOf(M) \cup copies
    BY SplitParts
  <2>2. N.levels[i] = M.levels[i] \cup copies
    BY SplitParts
  <2>6. \A k \in 1..Len(M.levels) : k # i => N.levels[k] = M.levels[k]
    BY SplitParts
  <2>3. \A n \in Useful(M, i, c) : CopyKnows(N.facts[NoMaybe(n, c)], M.facts[n], c)
    BY SplitParts
  <2>4. \A n \in SplitNodes(M, i, c) : StillKnows(N.facts[n], M.facts[n], c)
    BY SplitParts
  <2>5. \A n \in NodesOf(M) \ SplitNodes(M, i, c) : SameKnown(N.facts[n], M.facts[n])
    BY SplitParts
  <2> QED BY <2>1, <2>2, <2>3, <2>4, <2>5, <2>6
<1>4. Len(N.levels) = Len(M.levels) /\ N.side = M.side
  BY SplitDiagram
<1>5. \A x \in copies : \E n \in Useful(M, i, c) : x = NoMaybe(n, c)
  BY DEF SplitCopies
<1> HIDE DEF N, copies
<1>6. \A n \in NodesOf(M) : n # RootNode(M.side) =>
         Letter(n) \notin M.facts[n].sink /\ (DepthOf(n) > lower => M.facts[n].allSink = {})
  BY DEF Fine, Local
<1>7. Local(N)
  <2> SUFFICES ASSUME NEW x \in NodesOf(N), x # RootNode(M.side)
               PROVE  Letter(x) \notin N.facts[x].sink /\ (DepthOf(x) > lower => N.facts[x].allSink = {})
    BY <1>4 DEF Local
  <2>1. CASE x \in copies
    <3>1. PICK n \in Useful(M, i, c) : x = NoMaybe(n, c)
      BY <1>5, <2>1
    <3>2. n \in NodesOf(M) /\ n # RootNode(M.side) /\ Letter(x) = Letter(n) /\ DepthOf(x) = DepthOf(n)
      BY <1>2, <3>1 DEF Letter
    <3>3. CopyKnows(N.facts[x], M.facts[n], c)
      BY <1>3, <3>1
    <3> QED BY <1>6, <3>2, <3>3 DEF CopyKnows
  <2>2. CASE x \in SplitNodes(M, i, c)
    <3>1. x \in NodesOf(M) /\ StillKnows(N.facts[x], M.facts[x], c)
      BY <1>2, <1>3, <2>2
    <3> QED BY <1>6, <3>1 DEF StillKnows
  <2>3. CASE x \in NodesOf(M) \ SplitNodes(M, i, c)
    <3>1. SameKnown(N.facts[x], M.facts[x])
      BY <1>3, <2>3
    <3> QED BY <1>6, <2>3, <3>1 DEF SameKnown
  <2> QED BY <1>3, <2>1, <2>2, <2>3
<1>8. Aligned(N)
  <2> SUFFICES ASSUME NEW k \in 1..Len(M.levels), NEW x \in N.levels[k], DepthOf(x) <= opt
               PROVE  k = DepthOf(x) + 1
    BY <1>4 DEF Aligned
  <2>1. \E n \in M.levels[k] : DepthOf(n) = DepthOf(x)
    BY <1>2, <1>3, <1>5
  <2> QED BY <2>1 DEF Fine, Aligned
<1> QED BY <1>1, <1>7, <1>8 DEF Fine, N

(* What of the split keeps W safe.                                         *)
LEMMA SplitSafe ==
    ASSUME strings \in Inputs, opt \in Nat, NEW M, IsDiagram(M), NEW i \in 2..Len(M.levels), NEW c \in Characters,
           NotYet(M, i, c), NEW skipped, NEW W, Safe(M, W)
    PROVE  Safe(SplitLevel(M, i, c, skipped), W)
<1> DEFINE N == SplitLevel(M, i, c, skipped)
           o(x) == Origin(M, i, c, x)
<1> SUFFICES ASSUME NEW e \in 1..opt, NEW n \in NodesOf(N), DepthOf(n) = e - 1 /\ MatchOf(n) = W[e],
                    NEW t \in Succs(N, n), Nearer(N.side, MatchOf(t), W[e + 1])
             PROVE  Letter(t) \in Used(W, e)
  BY DEF Safe
<1>1. IsDiagram(N) /\ N.side = M.side
  BY SplitDiagram
<1>2. t \in NodesOf(N) /\ <<n, t>> \in N.arcs
  BY <1>1, DiagramFacts
<1>3. \A x \in NodesOf(N) : /\ o(x) \in NodesOf(M) /\ DepthOf(o(x)) = DepthOf(x)
                            /\ MatchOf(o(x)) = MatchOf(x) /\ Letter(o(x)) = Letter(x)
  BY OriginFacts
<1>4. <<o(n), o(t)>> \in M.arcs
  BY <1>2, SplitArcs
<1>5. o(t) \in Succs(M, o(n))
  BY <1>4 DEF Succs
<1> HIDE DEF o, N
<1>6. Letter(o(t)) \in Used(W, e)
  BY <1>1, <1>2, <1>3, <1>5 DEF Safe
<1> QED BY <1>2, <1>3, <1>6

(* The nodes and arcs that a split does not touch.                         *)
LEMMA Untouched ==
    ASSUME strings \in Inputs, NEW M, IsDiagram(M), NEW i \in 2..Len(M.levels), NEW c \in Characters,
           NotYet(M, i, c), NEW skipped
    PROVE  /\ \A n \in NodesOf(M) \ SplitNodes(M, i, c) :
                 /\ n \in NodesOf(SplitLevel(M, i, c, skipped))
                 /\ SplitLevel(M, i, c, skipped).facts[n].active = M.facts[n].active
           /\ \A x, y : <<x, y>> \in M.arcs /\ x \notin SplitNodes(M, i, c) /\ y \notin SplitNodes(M, i, c)
                 => <<x, y>> \in SplitLevel(M, i, c, skipped).arcs
<1> DEFINE N == SplitLevel(M, i, c, skipped)
<1>1. NodesOf(N) = NodesOf(M) \cup SplitCopies(M, i, c)
  BY SplitParts
<1>2. N.arcs = (M.arcs \ (SplitCut(M, i, c) \cup SplitFreed(M, i, c, skipped)))
                  \cup UNION {{<<p, NoMaybe(n, c)>> : p \in MovedPreds(M, n, c)}
                                \cup {<<NoMaybe(n, c), s>> : s \in Succs(M, n)} : n \in Useful(M, i, c)}
  BY SplitParts
<1>3. \A n \in NodesOf(M) \ SplitNodes(M, i, c) : N.facts[n].active = M.facts[n].active
  BY SplitParts
<1>4. Deactivated(M, i, c) \subseteq SplitNodes(M, i, c)
  BY DEF Deactivated
<1>5. ASSUME NEW x, NEW y, x \notin SplitNodes(M, i, c), y \notin SplitNodes(M, i, c)
      PROVE  <<x, y>> \notin SplitCut(M, i, c) /\ <<x, y>> \notin SplitFreed(M, i, c, skipped)
  BY <1>4, <1>5 DEF SplitCut, SplitFreed, LeftIn, LeftOut
<1> HIDE DEF N
<1>6. ASSUME NEW x, NEW y, <<x, y>> \in M.arcs, x \notin SplitNodes(M, i, c), y \notin SplitNodes(M, i, c)
      PROVE  <<x, y>> \in N.arcs
  BY <1>2, <1>5, <1>6
<1> QED BY <1>1, <1>3, <1>6 DEF N

(* The way goes over the copy.                                             *)
LEMMA WayToCopy ==
    ASSUME strings \in Inputs, lower \in Nat, opt \in Nat, lower < opt, NEW M, IsDiagram(M),
           NEW i \in 2..Len(M.levels), NEW c \in Characters, NotYet(M, i, c), NEW skipped,
           NEW q, NEW W, Way(M, q, W), NEW h \in 1..opt, NEW m, m = h + 1,
           q[m] \in SplitNodes(M, i, c), q[h] \in MovedPreds(M, q[m], c)
    PROVE  \E r : Way(SplitLevel(M, i, c, skipped), r, W)
<1> DEFINE N == SplitLevel(M, i, c, skipped)
           n == q[m]
           o == NoMaybe(n, c)
           r == [l \in 1..(opt + 1) |-> IF l = m THEN o ELSE q[l]]
<1>1. m \in 2..(opt + 1) /\ m \in 1..(opt + 1) /\ m = h + 1 /\ h \in 1..(opt + 1)
  OBVIOUS
<1>2. /\ q \in [1..(opt + 1) -> NodesOf(M)] /\ q[1] = RootNode(M.side)
      /\ \A l \in 1..opt : <<q[l], q[l + 1]>> \in M.arcs
      /\ \A l, j \in 2..(opt + 1) : Letter(q[l]) = Letter(q[j]) => l = j
      /\ \A l \in 1..(opt + 1) : MatchOf(q[l]) = W[l] /\ M.facts[q[l]].active
  BY DEF Way, IsFree
<1>3. IsFree(M, q, opt)
  BY DEF Way
<1>4. \A l \in 1..(opt + 1) : DepthOf(q[l]) = l - 1
  BY <1>3, PathFacts
<1>5. /\ SplitNodes(M, i, c) \subseteq M.levels[i] /\ M.levels[i] \subseteq NodesOf(M)
      /\ \A x \in M.levels[i] : DepthOf(NoMaybe(x, c)) = DepthOf(x) /\ MatchOf(NoMaybe(x, c)) = MatchOf(x)
      /\ \A x, y \in M.levels[i] : DepthOf(x) = DepthOf(y)
  BY CopyNames
<1>6. \A l \in 1..(opt + 1) : l # m => q[l] \notin SplitNodes(M, i, c)
  <2> SUFFICES ASSUME NEW l \in 1..(opt + 1), l # m, q[l] \in SplitNodes(M, i, c) PROVE FALSE
    OBVIOUS
  <2>1. DepthOf(q[l]) = DepthOf(q[m])
    BY <1>5
  <2> QED BY <1>1, <1>4, <2>1
<1>7. n \in Useful(M, i, c)
  <2>1. Succs(M, n) # {} \/ DepthOf(n) > lower
    <3>1. CASE m \in 1..opt
      <4>1. <<q[m], q[m + 1]>> \in M.arcs
        BY <1>2, <3>1
      <4>2. q[m + 1] \in Succs(M, n)
        BY <4>1 DEF Succs
      <4> QED BY <4>2
    <3>2. CASE m = opt + 1
      <4>1. DepthOf(n) = opt
        BY <1>1, <1>4, <3>2
      <4> QED BY <4>1
    <3> QED BY <1>1, <3>1, <3>2
  <2> QED BY <2>1 DEF Useful
<1>8. N.arcs = (M.arcs \ (SplitCut(M, i, c) \cup SplitFreed(M, i, c, skipped)))
                  \cup UNION {{<<p, NoMaybe(x, c)>> : p \in MovedPreds(M, x, c)}
                                \cup {<<NoMaybe(x, c), s>> : s \in Succs(M, x)} : x \in Useful(M, i, c)}
  BY SplitParts
<1>9. NodesOf(N) = NodesOf(M) \cup SplitCopies(M, i, c)
  BY SplitParts
<1>10. N.side = M.side
  BY SplitDiagram
<1>11. N.facts[o].active
  <2>1. CopyKnows(N.facts[o], M.facts[n], c)
    BY <1>7, SplitParts
  <2> QED BY <2>1 DEF CopyKnows
<1>12. o \in NodesOf(N)
  BY <1>7, <1>9 DEF SplitCopies
<1>13. /\ \A x \in NodesOf(M) \ SplitNodes(M, i, c) : x \in NodesOf(N) /\ N.facts[x].active = M.facts[x].active
       /\ \A x, y : <<x, y>> \in M.arcs /\ x \notin SplitNodes(M, i, c) /\ y \notin SplitNodes(M, i, c)
                 => <<x, y>> \in N.arcs
  BY Untouched
<1>14. <<q[h], o>> \in N.arcs /\ \A s \in Succs(M, n) : <<o, s>> \in N.arcs
  BY <1>7, <1>8
<1>15. MatchOf(o) = MatchOf(n) /\ Letter(o) = Letter(n)
  BY <1>5 DEF Letter
<1> HIDE DEF N, o
<1>16. /\ \A l \in 1..(opt + 1) : l # m => r[l] = q[l]
       /\ r[m] = o
  BY <1>1
<1>17. \A l \in 1..(opt + 1) : r[l] \in NodesOf(N) /\ N.facts[r[l]].active /\ MatchOf(r[l]) = W[l] /\ Letter(r[l]) = Letter(q[l])
  <2> SUFFICES ASSUME NEW l \in 1..(opt + 1)
               PROVE  r[l] \in NodesOf(N) /\ N.facts[r[l]].active /\ MatchOf(r[l]) = W[l] /\ Letter(r[l]) = Letter(q[l])
    OBVIOUS
  <2>1. CASE l = m
    BY <1>2, <1>11, <1>12, <1>15, <1>16, <2>1
  <2>2. CASE l # m
    <3>1. q[l] \in NodesOf(M) \ SplitNodes(M, i, c)
      BY <1>2, <1>6, <2>2
    <3> QED BY <1>2, <1>13, <1>16, <2>2, <3>1
  <2> QED BY <2>1, <2>2
<1>18. r \in [1..(opt + 1) -> NodesOf(N)]
  BY <1>17
<1>19. ASSUME NEW l \in 1..opt, NEW j, j = l + 1 PROVE <<r[l], r[j]>> \in N.arcs
  <2>1. l \in 1..(opt + 1) /\ j \in 1..(opt + 1) /\ <<q[l], q[j]>> \in M.arcs
    BY <1>2, <1>19
  <2>2. CASE l = m
    <3>1. j # m /\ r[j] = q[j]
      BY <1>1, <1>16, <1>19, <2>1, <2>2
    <3>2. q[j] \in Succs(M, n)
      BY <2>1, <2>2 DEF Succs
    <3> QED BY <1>14, <1>16, <2>2, <3>1, <3>2
  <2>3. CASE j = m
    <3>1. l = h /\ l # m
      BY <1>1, <1>19, <2>3
    <3> QED BY <1>14, <1>16, <2>1, <2>3, <3>1
  <2>4. CASE l # m /\ j # m
    <3>1. q[l] \notin SplitNodes(M, i, c) /\ q[j] \notin SplitNodes(M, i, c)
      BY <1>6, <2>1, <2>4
    <3>2. r[l] = q[l] /\ r[j] = q[j]
      BY <1>16, <2>1, <2>4
    <3> QED BY <1>13, <2>1, <3>1, <3>2
  <2> QED BY <2>2, <2>3, <2>4
<1>20. r[1] = RootNode(N.side)
  <2>1. 1 \in 1..(opt + 1) /\ 1 # m
    BY <1>1
  <2> QED BY <1>2, <1>10, <1>16, <2>1
<1>21. \A l, j \in 2..(opt + 1) : Letter(r[l]) = Letter(r[j]) => l = j
  <2>1. \A l \in 2..(opt + 1) : Letter(r[l]) = Letter(q[l])
    BY <1>17
  <2> QED BY <1>2, <2>1
<1> HIDE DEF r
<1>22. IsFree(N, r, opt)
  BY <1>18, <1>19, <1>20, <1>21 DEF IsFree
<1>23. Way(N, r, W)
  BY <1>17, <1>22 DEF Way
<1> QED BY <1>23 DEF N

(* A node with a way that comes from a predecessor of which every path has *)
(* the character: it is not deactivated, and the arcs of the way stay.     *)
LEMMA WayNotMoved ==
    ASSUME strings \in Inputs, lower \in Nat, opt \in 0..Sigma, lower < opt, NEW M, IsDiagram(M), Fine(M),
           NEW i \in 2..Len(M.levels), NEW c \in Characters, NotYet(M, i, c),
           NEW q, NEW W, Way(M, q, W), NEW h \in 1..opt, NEW m, m = h + 1,
           q[m] \in SplitNodes(M, i, c), q[h] \notin MovedPreds(M, q[m], c)
    PROVE  /\ q[m] \notin Deactivated(M, i, c)
           /\ \A j : m \in 1..opt /\ j = m + 1 => q[j] \notin LostSuccs(M, q[m], c)
<1> DEFINE n == q[m]
<1>1. opt \in Nat /\ opt \in (lower + 1)..Sigma /\ m \in 2..(opt + 1) /\ m \in 1..(opt + 1) /\ h \in 1..(opt + 1)
  BY CharactersFinite
<1>2. IsFree(M, q, opt)
  BY DEF Way
<1>3. \A l \in 1..(opt + 1) : Knows(M.facts[q[l]], q, l, opt)
  BY <1>1, <1>2 DEF Fine, Sound
<1>4. /\ \A l \in 1..(opt + 1) : q[l] \in NodesOf(M) /\ DepthOf(q[l]) = l - 1
      /\ \A l \in 1..opt : q[l + 1] \in Succs(M, q[l]) /\ q[l] \in Preds(M, q[l + 1])
  BY <1>1, <1>2, PathFacts
<1>5. q[h] \in Preds(M, n) /\ q[h] \in Preds(M, n) \ MovedPreds(M, n, c)
  BY <1>4
<1>6. c \in M.facts[q[h]].allRoot
  BY <1>5 DEF MovedPreds
<1>7. c \in Passed(q, m)
  <2>1. M.facts[q[h]].allRoot \subseteq Passed(q, h)
    BY <1>1, <1>3 DEF Knows, Holds
  <2>2. c \in Passed(q, m) <=> c \in Passed(q, h) \/ c = Letter(q[m])
    BY <1>1, <1>2, LetterSteps
  <2> QED BY <1>6, <2>1, <2>2
<1>8. /\ IsFiniteSet(Passed(q, m)) /\ Cardinality(Passed(q, m)) = m - 1
      /\ Passed(q, m) \cap Coming(q, m, opt) = {}
  <2> DEFINE z == m
  <2>1. z \in 1..(opt + 1)
    BY <1>1
  <2> HIDE DEF z
  <2>2. IsFiniteSet(Passed(q, z)) /\ Cardinality(Passed(q, z)) = z - 1
    BY <1>1, <1>2, <2>1, LetterCounts
  <2>3. Passed(q, z) \cap Coming(q, z, opt) = {}
    BY <1>1, <1>2, <2>1, LetterCounts
  <2> QED BY <2>2, <2>3 DEF z
<1>9. c \notin Coming(q, m, opt)
  BY <1>7, <1>8
<1>10. ASSUME NEW j, m \in 1..opt, j = m + 1 PROVE q[j] \notin LostSuccs(M, n, c) /\ q[j] \in Succs(M, n)
  <2>1. \A x : x \in Coming(q, m, opt) <=> x \in Coming(q, j, opt) \/ x = Letter(q[j])
    BY <1>1, <1>2, <1>10, LetterSteps
  <2>2. j \in 1..(opt + 1)
    BY <1>10
  <2>3. M.facts[q[j]].allSink \subseteq Coming(q, j, opt)
    BY <1>3, <2>2 DEF Knows, Holds
  <2>4. c \notin M.facts[q[j]].allSink /\ Letter(q[j]) # c
    BY <1>9, <2>1, <2>3
  <2> QED BY <1>4, <1>10, <2>4 DEF LostSuccs
<1>11. ~(Succs(M, n) \ LostSuccs(M, n, c) = {} /\ DepthOf(n) <= lower)
  <2> SUFFICES ASSUME DepthOf(n) <= lower PROVE Succs(M, n) \ LostSuccs(M, n, c) # {}
    OBVIOUS
  <2>1. m \in 1..opt
    BY <1>1, <1>4
  <2>2. q[m + 1] \in Succs(M, n) \ LostSuccs(M, n, c)
    BY <1>10, <2>1
  <2> QED BY <2>2
<1>12. ~(Cardinality(M.facts[n].allRoot \cup {c}) > DepthOf(n))
  <2>1. M.facts[n].allRoot \subseteq Passed(q, m)
    BY <1>1, <1>3 DEF Knows, Holds
  <2>2. M.facts[n].allRoot \cup {c} \subseteq Passed(q, m)
    BY <1>7, <2>1
  <2>3. /\ Cardinality(M.facts[n].allRoot \cup {c}) \in Nat /\ Cardinality(Passed(q, m)) \in Nat
        /\ Cardinality(M.facts[n].allRoot \cup {c}) <= Cardinality(Passed(q, m))
    BY <1>8, <2>2, AtLeast
  <2>4. DepthOf(n) = m - 1
    BY <1>1, <1>4
  <2> QED BY <1>8, <2>3, <2>4
<1>13. n \notin Deactivated(M, i, c)
  <2>1. Preds(M, n) \ MovedPreds(M, n, c) # {}
    BY <1>5
  <2> QED BY <1>11, <1>12, <2>1 DEF Deactivated
<1> QED BY <1>10, <1>13

LEMMA WayStaysBehind ==
    ASSUME strings \in Inputs, lower \in Nat, opt \in 0..Sigma, lower < opt, NEW M, IsDiagram(M), Fine(M),
           NEW i \in 2..Len(M.levels), NEW c \in Characters, NotYet(M, i, c), NEW skipped,
           NEW q, NEW W, Way(M, q, W), NEW h \in 1..opt, NEW m, m = h + 1,
           q[m] \in SplitNodes(M, i, c), q[h] \notin MovedPreds(M, q[m], c)
    PROVE  Way(SplitLevel(M, i, c, skipped), q, W)
<1> DEFINE N == SplitLevel(M, i, c, skipped)
           n == q[m]
<1>1. opt \in Nat /\ m \in 2..(opt + 1) /\ m \in 1..(opt + 1) /\ h \in 1..(opt + 1)
  OBVIOUS
<1>2. /\ q \in [1..(opt + 1) -> NodesOf(M)] /\ IsFree(M, q, opt)
      /\ \A l \in 1..opt : <<q[l], q[l + 1]>> \in M.arcs
      /\ \A l \in 1..(opt + 1) : MatchOf(q[l]) = W[l] /\ M.facts[q[l]].active
  BY DEF Way, IsFree
<1>3. \A l \in 1..(opt + 1) : DepthOf(q[l]) = l - 1
  BY <1>1, <1>2, PathFacts
<1>4. /\ SplitNodes(M, i, c) \subseteq M.levels[i] /\ M.levels[i] \subseteq NodesOf(M)
      /\ \A x, y \in M.levels[i] : DepthOf(x) = DepthOf(y)
  BY CopyNames
<1>5. \A l \in 1..(opt + 1) : l # m => q[l] \notin SplitNodes(M, i, c)
  <2> SUFFICES ASSUME NEW l \in 1..(opt + 1), l # m, q[l] \in SplitNodes(M, i, c) PROVE FALSE
    OBVIOUS
  <2>1. DepthOf(q[l]) = DepthOf(q[m])
    BY <1>4
  <2> QED BY <1>1, <1>3, <2>1
<1>6. n \notin Deactivated(M, i, c) /\ \A j : m \in 1..opt /\ j = m + 1 => q[j] \notin LostSuccs(M, n, c)
  BY WayNotMoved
<1>7. N.arcs = (M.arcs \ (SplitCut(M, i, c) \cup SplitFreed(M, i, c, skipped)))
                  \cup UNION {{<<p, NoMaybe(x, c)>> : p \in MovedPreds(M, x, c)}
                                \cup {<<NoMaybe(x, c), s>> : s \in Succs(M, x)} : x \in Useful(M, i, c)}
  BY SplitParts
<1>8. NodesOf(N) = NodesOf(M) \cup SplitCopies(M, i, c)
  BY SplitParts
<1>9. N.side = M.side
  BY SplitDiagram
<1>10. N.facts[n].active
  <2>1. M.facts[n].active /\ n \notin Deactivated(M, i, c) => N.facts[n].active
    BY SplitParts
  <2> QED BY <1>1, <1>2, <1>6, <2>1
<1>11. \A x \in NodesOf(M) \ SplitNodes(M, i, c) : N.facts[x].active = M.facts[x].active
  BY SplitParts
<1> HIDE DEF N
<1>12. ASSUME NEW l \in 1..(opt + 1) PROVE q[l] \in NodesOf(N) /\ N.facts[q[l]].active
  <2>1. q[l] \in NodesOf(M) /\ q[l] \in NodesOf(N) /\ M.facts[q[l]].active
    BY <1>2, <1>8
  <2>2. CASE l = m
    BY <1>10, <2>1, <2>2
  <2>3. CASE l # m
    BY <1>5, <1>11, <2>1, <2>3
  <2> QED BY <2>2, <2>3
<1>13. Deactivated(M, i, c) \subseteq SplitNodes(M, i, c)
  BY DEF Deactivated
<1>14. ASSUME NEW l \in 1..opt, NEW j, j = l + 1 PROVE <<q[l], q[j]>> \in N.arcs
  <2>1. l \in 1..(opt + 1) /\ j \in 1..(opt + 1) /\ <<q[l], q[j]>> \in M.arcs
    BY <1>2, <1>14
  <2>2. q[l] \in SplitNodes(M, i, c) => q[l] = n /\ l = m
    BY <1>5, <2>1
  <2>3. q[j] \in SplitNodes(M, i, c) => q[j] = n /\ j = m /\ l = h
    BY <1>5, <1>14, <2>1
  <2>4. <<q[l], q[j]>> \notin SplitFreed(M, i, c, skipped)
    <3>1. q[l] \notin Deactivated(M, i, c) /\ q[j] \notin Deactivated(M, i, c)
      BY <1>6, <1>13, <2>2, <2>3
    <3> QED BY <3>1 DEF SplitFreed, LeftIn, LeftOut
  <2>5. <<q[l], q[j]>> \notin SplitCut(M, i, c)
    <3>1. ASSUME q[j] \in SplitNodes(M, i, c) PROVE q[l] \notin MovedPreds(M, q[j], c)
      BY <2>3, <3>1
    <3>2. ASSUME q[l] \in SplitNodes(M, i, c) PROVE q[j] \notin LostSuccs(M, q[l], c)
      <4>1. l = m /\ q[l] = n /\ m \in 1..opt /\ j = m + 1
        BY <1>14, <2>2, <3>2
      <4> QED BY <1>6, <4>1
    <3> QED BY <3>1, <3>2 DEF SplitCut
  <2> QED BY <1>7, <2>1, <2>4, <2>5
<1>15. \A l \in 1..opt : <<q[l], q[l + 1]>> \in N.arcs
  BY <1>14
<1>16. Way(N, q, W)
  BY <1>1, <1>9, <1>12, <1>15, WayStays
<1> QED BY <1>16 DEF N

LEMMA SplitKeeps ==
    ASSUME strings \in Inputs, lower \in Nat, opt \in 0..Sigma, lower < opt, NEW M, IsDiagram(M), Fine(M),
           NEW i \in 2..Len(M.levels), NEW c \in Characters, NotYet(M, i, c), NEW skipped, NEW W, Keeps(M, W)
    PROVE  Keeps(SplitLevel(M, i, c, skipped), W)
<1>1. opt \in Nat
  OBVIOUS
<1>2. Safe(M, W)
  BY DEF Keeps
<1>3. PICK q : Way(M, q, W)
  BY DEF Keeps
<1>4. Safe(SplitLevel(M, i, c, skipped), W)
  BY <1>1, <1>2, SplitSafe
<1>5. /\ q \in [1..(opt + 1) -> NodesOf(M)] /\ q[1] = RootNode(M.side)
      /\ \A l \in 1..opt : <<q[l], q[l + 1]>> \in M.arcs
      /\ \A l \in 1..(opt + 1) : M.facts[q[l]].active
  BY <1>3 DEF Way, IsFree
<1>6. RootNode(M.side) \notin SplitNodes(M, i, c)
  BY CopyNames
<1>7. CASE \E m \in 1..(opt + 1) : q[m] \in SplitNodes(M, i, c)
  <2>1. PICK m \in 1..(opt + 1) : q[m] \in SplitNodes(M, i, c)
    BY <1>7
  <2>2. m # 1
    BY <1>5, <1>6, <2>1
  <2> DEFINE h == m - 1
  <2>3. h \in 1..opt /\ m = h + 1
    BY <1>1, <2>2
  <2> HIDE DEF h
  <2>4. CASE q[h] \in MovedPreds(M, q[m], c)
    <3>1. \E r : Way(SplitLevel(M, i, c, skipped), r, W)
      BY <1>1, <1>3, <2>1, <2>3, <2>4, WayToCopy
    <3> QED BY <1>4, <3>1 DEF Keeps
  <2>5. CASE q[h] \notin MovedPreds(M, q[m], c)
    <3>1. Way(SplitLevel(M, i, c, skipped), q, W)
      BY <1>1, <1>3, <2>1, <2>3, <2>5, WayStaysBehind
    <3> QED BY <1>4, <3>1 DEF Keeps
  <2> QED BY <2>4, <2>5
<1>8. CASE \A m \in 1..(opt + 1) : q[m] \notin SplitNodes(M, i, c)
  <2> DEFINE N == SplitLevel(M, i, c, skipped)
  <2>1. /\ \A n \in NodesOf(M) \ SplitNodes(M, i, c) : n \in NodesOf(N) /\ N.facts[n].active = M.facts[n].active
        /\ \A x, y : <<x, y>> \in M.arcs /\ x \notin SplitNodes(M, i, c) /\ y \notin SplitNodes(M, i, c)
                       => <<x, y>> \in N.arcs
    BY Untouched
  <2>2. N.side = M.side
    BY SplitDiagram
  <2> HIDE DEF N
  <2>3. \A l \in 1..(opt + 1) : q[l] \in NodesOf(N) /\ N.facts[q[l]].active
    BY <1>5, <1>8, <2>1
  <2>4. ASSUME NEW l \in 1..opt PROVE <<q[l], q[l + 1]>> \in N.arcs
    <3>1. l \in 1..(opt + 1) /\ l + 1 \in 1..(opt + 1)
      BY <1>1
    <3> QED BY <1>5, <1>8, <2>1, <3>1
  <2>5. Way(N, q, W)
    BY <1>1, <1>3, <2>2, <2>3, <2>4, WayStays
  <2> QED BY <1>4, <2>5 DEF Keeps, N
<1> QED BY <1>7, <1>8

LEMMA SplitIsSeparated ==
    ASSUME strings \in Inputs, lower \in Nat, SplitSeparates, step = "split", IsDiagram(mdd)
    PROVE  Separated(mdd, at, split)
<1> SUFFICES ASSUME NEW k \in (lower + 1)..Sigma, NEW q, IsFree(mdd, q, k), NEW j \in 1..k,
                    q[j + 1] \in SplitNodes(mdd, at, split), split \in Passed(q, j)
             PROVE  split \in mdd.facts[q[j]].allRoot
  BY DEF Separated
<1>1. k \in 0..Sigma /\ k \in Nat
  OBVIOUS
<1>2. q \in FreePaths(mdd)[k]
  BY <1>1, FreePathsAre
<1> DEFINE i == j + 1
<1>3. i \in 2..(k + 1) /\ i - 1 = j
  BY <1>1
<1> HIDE DEF i
<1>4. q[i] \in SplitNodes(mdd, at, split)
  BY DEF i
<1>5. split \in {Letter(q[l]) : l \in 2..(i - 1)}
  <2>1. Passed(q, j) = {Letter(q[l]) : l \in 2..j}
    BY DEF Passed, Part
  <2> QED BY <1>3, <2>1
<1>6. split \in mdd.facts[q[i - 1]].allRoot
  BY <1>2, <1>3, <1>4, <1>5 DEF SplitSeparates
<1> QED BY <1>3, <1>6

(* The names that a split gives.                                           *)
LEMMA SplitNames ==
    ASSUME strings \in Inputs, NEW M, IsDiagram(M), NEW i \in 2..Len(M.levels), NEW c \in Characters,
           NotYet(M, i, c), NEW skipped, NEW S, \A n \in NodesOf(M) : n[3] \subseteq S
    PROVE  \A n \in NodesOf(SplitLevel(M, i, c, skipped)) : n[3] \subseteq S \cup {c}
<1> DEFINE N == SplitLevel(M, i, c, skipped)
<1>1. NodesOf(N) = NodesOf(M) \cup SplitCopies(M, i, c)
  BY SplitParts
<1>2. Useful(M, i, c) \subseteq NodesOf(M)
  BY CopyNames
<1>3. ASSUME NEW n \in SplitCopies(M, i, c) PROVE n[3] \subseteq S \cup {c}
  <2>1. PICK o \in Useful(M, i, c) : n = NoMaybe(o, c)
    BY DEF SplitCopies
  <2>2. n[3] = o[3] \cup {c}
    BY <2>1 DEF NoMaybe
  <2>3. o[3] \subseteq S
    BY <1>2
  <2> QED BY <2>2, <2>3
<1> HIDE DEF N
<1> QED BY <1>1, <1>3 DEF N

LEMMA SplitNextLevelSafe ==
    ASSUME MddInv, OptInv, SplitNextLevel, lower < opt => SplitSeparates
    PROVE  OptInv'
<1>1. /\ step = "split" /\ UNCHANGED <<fixedVars, upper, task, childVars, parentVars, shared>>
  BY DEF SplitNextLevel
<1>2. PICK skipped \in SkippedArcs(mdd, at, split) :
          IF at = Len(mdd.levels) THEN BeginFilter(SplitLevel(mdd, at, split, skipped), upper)
          ELSE /\ mdd' = SplitLevel(mdd, at, split, skipped) /\ at' = at + 1
               /\ UNCHANGED <<step, changing, changed>>
  BY DEF SplitNextLevel
<1>3. step \in Filtering /\ step \notin Selecting
  BY <1>1 DEF Selecting, Filtering
<1>4. task \in {"trial", "refine"} /\ task \in ChildTasks
  BY <1>1 DEF MddInv, StepsFit, ChildTasks
<1>5. IsDiagram(mdd) /\ at \in 2..Len(mdd.levels) /\ split \in Characters
  BY <1>1, <1>3 DEF MddInv, MddPart, SelectionPart
<1>6. ChildRuns /\ step # "graph" /\ step # "solver" /\ step # "layout"
  BY <1>1 DEF ChildRuns
<1>7. Published
  BY <1>6, ChildFacts
<1>8. strings \in Inputs /\ lower \in Nat /\ opt \in Nat /\ opt \in 0..Sigma
  BY OptFacts
<1>9. \A j \in at..Len(mdd.levels) : \A n \in mdd.levels[j] : split \notin n[3]
  BY <1>1 DEF OptInv, NamePart
<1>10. Len(mdd.levels) \in Nat
  BY <1>5, <1>8, DiagramFacts
<1>11. NotYet(mdd, at, split)
  BY <1>5, <1>9, <1>10 DEF NotYet
<1> DEFINE N == SplitLevel(mdd, at, split, skipped)
<1>12. IsDiagram(N) /\ Len(N.levels) = Len(mdd.levels)
  BY <1>5, <1>8, SplitDiagram
<1>13. ASSUME lower < opt PROVE Fine(N) /\ \E W : Remains(W) /\ Keeps(N, W)
  <2>1. PICK W : Remains(W)
    BY <1>6, <1>13, ChildFacts
  <2>2. Fine(mdd)
    BY <1>6, <1>13, ChildFacts DEF FactPart
  <2>3. mdd # NoMdd
    BY <1>5, DiagramIsThere
  <2>4. Keeps(mdd, W)
    BY <2>1, <2>3 DEF Remains, Kept
  <2>5. Separated(mdd, at, split)
    BY <1>1, <1>5, <1>8, <1>13, SplitIsSeparated
  <2>6. Fine(N)
    BY <1>5, <1>8, <1>11, <2>2, <2>5, SplitFine
  <2>7. Keeps(N, W)
    BY <1>5, <1>8, <1>11, <1>13, <2>2, <2>4, SplitKeeps
  <2> QED BY <2>1, <2>6, <2>7
<1>14. \A j \in 1..Len(mdd.levels) : j # at => N.levels[j] = mdd.levels[j]
  BY <1>5, <1>8, <1>11, SplitParts
<1>15. task = "refine" => \A n \in NodesOf(N) : n[3] \subseteq refined \cup {split}
  <2> SUFFICES ASSUME task = "refine" PROVE \A n \in NodesOf(N) : n[3] \subseteq refined \cup {split}
    OBVIOUS
  <2>1. \A n \in NodesOf(mdd) : n[3] \subseteq refined \cup {split}
    BY <1>3 DEF OptInv, NamePart
  <2> DEFINE S == refined \cup {split}
  <2>2. \A n \in NodesOf(N) : n[3] \subseteq S \cup {split}
    <3>1. \A n \in NodesOf(mdd) : n[3] \subseteq S
      BY <2>1
    <3> HIDE DEF S
    <3> QED BY <1>5, <1>8, <1>11, <3>1, SplitNames
  <2> QED BY <2>2
<1> HIDE DEF N
<1>16. /\ mdd' = N /\ step' \in {"filtered", "root", "down", "split"}
       /\ step' = "split" => at' = at + 1 /\ at \in 2..(Len(N.levels) - 1)
  <2>1. CASE at = Len(mdd.levels)
    <3>1. BeginFilter(N, upper)
      BY <1>2, <2>1 DEF N
    <3> QED BY <1>12, <3>1, FilterBegins
  <2>2. CASE at # Len(mdd.levels)
    <3>1. mdd' = N /\ at' = at + 1 /\ step' = step
      BY <1>2, <2>2 DEF N
    <3> QED BY <1>1, <1>5, <1>10, <1>12, <2>2, <3>1
  <2> QED BY <2>1, <2>2
<1>17. /\ task' = task /\ split' = split /\ refined' = refined /\ work' = work /\ selection' = selection
       /\ parent' = parent /\ shared' = shared /\ upper' = upper /\ parentUpper' = parentUpper
  BY <1>1 DEF childVars, parentVars
<1>18. step' \in Filtering /\ task' \in ChildTasks
  BY <1>4, <1>16, <1>17 DEF Filtering
<1>19. \A M : NodesOf(M)' = NodesOf(M)
  BY DEF NodesOf
<1>20. NamePart'
  <2>1. task' # "copy"
    BY <1>4, <1>17
  <2>2. Plain(selection)'
    BY <1>17 DEF Plain, NodesOf, OptInv, NamePart
  <2>3. \A n \in NodesOf(work)' : n[3] \subseteq refined'
    BY <1>17, <1>19 DEF OptInv, NamePart
  <2>4. task' = "refine" => \A n \in NodesOf(mdd)' : n[3] \subseteq refined' \cup {split'}
    BY <1>15, <1>16, <1>17, <1>19
  <2>5. step' = "split" => \A j \in at'..Len(mdd'.levels) : \A n \in mdd'.levels[j] : split' \notin n[3]
    <3> SUFFICES ASSUME step' = "split", NEW j \in (at + 1)..Len(N.levels), NEW n \in N.levels[j]
                 PROVE  split \notin n[3]
      BY <1>16, <1>17
    <3>1. j \in 1..Len(mdd.levels) /\ j # at /\ j \in at..Len(mdd.levels)
      BY <1>5, <1>10, <1>12
    <3>2. n \in mdd.levels[j]
      BY <1>14, <3>1
    <3> QED BY <1>9, <3>1, <3>2
  <2> QED BY <2>1, <2>2, <2>3, <2>4, <2>5 DEF NamePart
<1>21. UNCHANGED <<fixedVars, parent, selection>> /\ shared'.flat = shared.flat
  BY <1>1, <1>17
<1>22. lower < opt => upper >= opt /\ shared.upper >= opt /\ parentUpper >= opt
  BY <1>6, ChildFacts
<1>23. lower < opt => /\ upper' >= opt /\ shared'.upper >= opt
                      /\ task' \in ChildTasks => parentUpper' >= opt
                      /\ Fine(N)
                      /\ task' \notin ChildTasks => AllActive(N)
                      /\ \E W : Remains(W) /\ Keeps(N, W)
  BY <1>13, <1>17, <1>18, <1>22
<1>24. task' \in ChildTasks \cup {"parent"} /\ mdd' = N /\ work' = work
  BY <1>16, <1>17, <1>18
<1> QED BY <1>6, <1>7, <1>18, <1>20, <1>21, <1>23, <1>24, FilterStarts

(* With what splitting relies on, every step but the last one of a child   *)
(* keeps the invariant: the one that only keeps one solution.              *)
LEMMA OptStep ==
    ASSUME MddInv, OptInv, [MddNext]_<<vars, mddVars>>, ~KeepOnlyOne, SplitSeparates
    PROVE  OptInv'
<1>1. CASE SplitNextLevel
  BY <1>1, SplitNextLevelSafe
<1>2. CASE ~SplitNextLevel
  BY <1>2, OptStepBut
<1> QED BY <1>1, <1>2

(* Only a child that is complete comes to its end by itself.               *)
CompleteAtTheEnd == step \in {"complete", "layout"} => shared.complete

LEMMA CompleteStays ==
    ASSUME MddInv, CompleteAtTheEnd, [MddNext]_<<vars, mddVars>>
    PROVE  CompleteAtTheEnd' /\ (step # "graph" /\ Published /\ shared.complete => shared'.complete)
<1>1. /\ shared = NotShared \/ shared = [upper |-> shared.upper, complete |-> shared.complete,
                                         flat |-> shared.flat, size |-> shared.size, room |-> shared.room]
      /\ ~Published => shared = NotShared
  BY DEF MddInv, SharedPart
<1>2. NotShared.complete = FALSE
  BY DEF NotShared
<1>3. CASE UNCHANGED <<vars, mddVars>>
  BY <1>3 DEF mddVars, CompleteAtTheEnd
<1>4. CASE GraphStep
  BY <1>4 DEF GraphStep, mddVars, CompleteAtTheEnd
<1>5. CASE FilterDown \/ FilterUp \/ StartForward \/ StartBackward
  <2>1. shared' = shared /\ step' \notin {"complete", "layout"}
    BY <1>5 DEF FilterDown, FilterUp, StartForward, StartBackward, BeginFilter
  <2> QED BY <2>1 DEF CompleteAtTheEnd
<1>6. CASE FilterRoot
  <2>1. step' \notin {"complete", "layout"}
    BY <1>6 DEF FilterRoot
  <2>2. shared' = shared \/ (Published /\ shared' = [shared EXCEPT !.upper = upper'])
    BY <1>6 DEF FilterRoot, Published
  <2>3. Published => shared'.complete = shared.complete
    BY <1>1, <2>2 DEF MddInv, SharedPart
  <2> QED BY <2>1, <2>3 DEF CompleteAtTheEnd
<1>7. CASE ChooseSide
  <2>1. step' = "rounds" /\ ~Published
    BY <1>7 DEF ChooseSide, Published, Filtering
  <2> QED BY <2>1 DEF CompleteAtTheEnd
<1>8. CASE Fork \/ ParentResumes \/ Kill \/ TryCharacter \/ TrialIsOver \/ RefineCharacter \/ SplitNextLevel
           \/ NextCharacter
  <2>1. shared' = shared /\ step' \notin {"complete", "layout"}
    BY <1>8 DEF Fork, ParentResumes, Kill, ChildEnds, TryCharacter, TrialIsOver, RefineCharacter, SplitNextLevel,
                NextCharacter, BeginFilter, BeginSplit
  <2> QED BY <2>1 DEF CompleteAtTheEnd
<1>9. CASE ParentLaysOut \/ EndReduction \/ ReportRefined
  <2>1. step' \notin {"complete", "layout"}
    BY <1>9 DEF ParentLaysOut, EndReduction, ReportRefined
  <2>2. ASSUME Published, shared.complete PROVE shared'.complete
    <3>1. shared = [upper |-> shared.upper, complete |-> shared.complete, flat |-> shared.flat,
                    size |-> shared.size, room |-> shared.room]
      BY <2>2 DEF MddInv, SharedPart
    <3> QED BY <1>9, <2>2, <3>1 DEF ParentLaysOut, EndReduction, ReportRefined
  <2> QED BY <2>1, <2>2 DEF CompleteAtTheEnd
<1>10. CASE CopyIsFiltered
  <2>1. step' \notin {"complete", "layout"}
    BY <1>10 DEF CopyIsFiltered, ChildEnds
  <2>2. Published
    BY <1>10 DEF CopyIsFiltered, Published
  <2>3. shared' = shared \/ shared'.complete
    BY <1>10, <2>2 DEF CopyIsFiltered, MddInv, SharedPart
  <2> QED BY <2>1, <2>3 DEF CompleteAtTheEnd
<1>11. CASE MarkComplete \/ KeepOnlyOne \/ LayOut
  <2>1. step \in {"next", "complete", "layout"} /\ task \in ChildTasks
    BY <1>11 DEF MarkComplete, KeepOnlyOne, LayOut, MddInv, StepsFit, Selecting
  <2>2. Published
    BY <2>1 DEF Published, ChildTasks
  <2>3. shared = [upper |-> shared.upper, complete |-> shared.complete, flat |-> shared.flat,
                  size |-> shared.size, room |-> shared.room]
    BY <2>2 DEF MddInv, SharedPart
  <2>4. CASE MarkComplete
    BY <2>3, <2>4 DEF MarkComplete, CompleteAtTheEnd
  <2>5. CASE KeepOnlyOne
    BY <2>3, <2>5 DEF KeepOnlyOne, CompleteAtTheEnd
  <2>6. CASE LayOut
    <3>1. step' = "merge"
      BY <2>6 DEF LayOut, ChildEnds
    <3>2. shared'.complete = shared.complete
      BY <2>3, <2>6 DEF LayOut
    <3> QED BY <3>1, <3>2 DEF CompleteAtTheEnd
  <2> QED BY <1>11, <2>4, <2>5, <2>6
<1> QED BY <1>3, <1>4, <1>5, <1>6, <1>7, <1>8, <1>9, <1>10, <1>11 DEF MddNext, ChildNext

LEMMA CompleteIsShared ==
    ASSUME MddInv, shared.complete
    PROVE  step # "graph" /\ Published
<1>1. Published
  <2>1. shared # NotShared
    BY DEF NotShared
  <2> QED BY <2>1 DEF MddInv, SharedPart
<1>2. step # "graph"
  BY <1>1 DEF Published, MddInv, StepsFit
<1> QED BY <1>1, <1>2

RefineInv == CompleteAtTheEnd /\ (~shared.complete => OptInv)

LEMMA RefineKeeps ==
    ASSUME MddInv, RefineInv, SplitSeparates, [MddNext]_<<vars, mddVars>>
    PROVE  RefineInv'
<1>1. CompleteAtTheEnd' /\ (shared.complete => shared'.complete)
  BY CompleteStays, CompleteIsShared DEF RefineInv
<1>2. ASSUME ~shared.complete PROVE ~KeepOnlyOne
  BY <1>2 DEF KeepOnlyOne, RefineInv, CompleteAtTheEnd
<1>3. ASSUME ~shared'.complete PROVE OptInv'
  BY <1>1, <1>2, <1>3, OptStep DEF RefineInv
<1> QED BY <1>1, <1>3 DEF RefineInv

(* Nor do refinement, the trials, deaths of children and what the parent   *)
(* makes of their layouts lose all longest solutions, as long as splitting *)
(* separates the paths as it should, until a child is complete             *)
(* (mdd_refinement.cpp, character_selection.cpp, mdd_reduction.cpp).       *)
THEOREM RefinementIsSound ==
    MddSpec /\ []SplitSeparates
      => [](~shared.complete => SomeOptimumRemains /\ BoundsAreValid /\ NodeFactsHold)
<1>1. MddInit => RefineInv
  <2> SUFFICES ASSUME MddInit PROVE RefineInv
    OBVIOUS
  <2>1. OptInv
    BY OptInitially
  <2>2. step = "graph"
    BY DEF MddInit
  <2> QED BY <2>1, <2>2 DEF RefineInv, CompleteAtTheEnd
<1>2. MddInv /\ SplitSeparates /\ RefineInv /\ [MddNext]_<<vars, mddVars>> => RefineInv'
  BY RefineKeeps
<1>3. MddInv /\ RefineInv => (~shared.complete => SomeOptimumRemains /\ BoundsAreValid /\ NodeFactsHold)
  BY OptimumIsThere, BoundsAreThere, FactsAreTrue DEF RefineInv
<1> QED BY <1>1, <1>2, <1>3, MddInvariance, PTL DEF MddSpec

-----------------------------------------------------------------------------
(* The last step of a child keeps a longest solution, because the bounds   *)
(* of the nodes lead there once nothing is pending any more.               *)

(* Some successor accounts for the bound of a node.                        *)
Reaching(M, n) ==
    \/ M.facts[n].ub = 0
    \/ \E s \in Succs(M, n) : M.facts[n].ub <= M.facts[s].ub + 1

(* So it is for every node before the depth of the longest solutions, if   *)
(* it has not to update.  The root may come from the cache of cleared      *)
(* nodes, with a bound that is not its own.                                *)
Tight(M) ==
    \A n \in NodesOf(M) : n # RootNode(M.side) /\ DepthOf(n) < opt /\ ~M.facts[n].needSucc => Reaching(M, n)

(* None of them has to.                                                    *)
Settled(M) == \A n \in NodesOf(M) : DepthOf(n) < opt => ~M.facts[n].needSucc

(* A node and its successors are as before.                                *)
Carries(M, N, n) ==
    /\ n \in NodesOf(M) /\ ~M.facts[n].needSucc /\ N.facts[n].ub = M.facts[n].ub
    /\ \A s \in Succs(M, n) : s \in Succs(N, n) /\ N.facts[s].ub = M.facts[s].ub

LEMMA CarriedTight ==
    ASSUME NEW M, NEW N, Tight(M), N.side = M.side,
           \A n \in NodesOf(N) : n # RootNode(N.side) /\ DepthOf(n) < opt /\ ~N.facts[n].needSucc
                                   => Carries(M, N, n) \/ Reaching(N, n)
    PROVE  Tight(N)
<1> SUFFICES ASSUME NEW n \in NodesOf(N), n # RootNode(N.side), DepthOf(n) < opt, ~N.facts[n].needSucc,
                    Carries(M, N, n)
             PROVE  Reaching(N, n)
  BY DEF Tight
<1>1. Reaching(M, n)
  BY DEF Tight, Carries
<1>2. CASE M.facts[n].ub = 0
  BY <1>2 DEF Reaching, Carries
<1>3. CASE M.facts[n].ub # 0
  <2>1. PICK s \in Succs(M, n) : M.facts[n].ub <= M.facts[s].ub + 1
    BY <1>1, <1>3 DEF Reaching
  <2>2. s \in Succs(N, n) /\ N.facts[n].ub <= N.facts[s].ub + 1
    BY <2>1 DEF Carries
  <2> QED BY <2>2 DEF Reaching
<1> QED BY <1>2, <1>3

(* The ends of arcs, by name.                                              *)
LEMMA SuccArcs ==
    ASSUME NEW M, IsDiagram(M), NEW n
    PROVE  /\ \A s : s \in Succs(M, n) <=> <<n, s>> \in M.arcs
           /\ \A s : s \in Preds(M, n) <=> <<s, n>> \in M.arcs
           /\ \A a \in M.arcs : a = <<a[1], a[2]>>
<1>1. \A a \in M.arcs : a = <<a[1], a[2]>>
  BY DEF IsDiagram
<1>2. ASSUME NEW s PROVE s \in Succs(M, n) <=> <<n, s>> \in M.arcs
  <2>1. ASSUME s \in Succs(M, n) PROVE <<n, s>> \in M.arcs
    <3>1. PICK a \in M.arcs : a[1] = n /\ a[2] = s
      BY <2>1 DEF Succs
    <3> QED BY <1>1, <3>1
  <2>2. ASSUME <<n, s>> \in M.arcs PROVE s \in Succs(M, n)
    <3> DEFINE a == <<n, s>>
    <3>1. a \in M.arcs /\ a[1] = n /\ a[2] = s
      BY <2>2
    <3> HIDE DEF a
    <3> QED BY <3>1 DEF Succs
  <2> QED BY <2>1, <2>2
<1>3. ASSUME NEW s PROVE s \in Preds(M, n) <=> <<s, n>> \in M.arcs
  <2>1. ASSUME s \in Preds(M, n) PROVE <<s, n>> \in M.arcs
    <3>1. PICK a \in M.arcs : a[2] = n /\ a[1] = s
      BY <2>1 DEF Preds
    <3> QED BY <1>1, <3>1
  <2>2. ASSUME <<s, n>> \in M.arcs PROVE s \in Preds(M, n)
    <3> DEFINE a == <<s, n>>
    <3>1. a \in M.arcs /\ a[1] = s /\ a[2] = n
      BY <2>2
    <3> HIDE DEF a
    <3> QED BY <3>1 DEF Preds
  <2> QED BY <2>1, <2>2
<1> QED BY <1>1, <1>2, <1>3

(* Who loses an arc has to update.                                         *)
LEMMA DetachedTight ==
    ASSUME NEW M, IsDiagram(M), NEW gone, NEW cut, RootNode(M.side) \notin gone, Tight(M)
    PROVE  Tight(Detached(M, gone, cut))
<1> DEFINE N == Detached(M, gone, cut)
<1>1. /\ IsDiagram(N) /\ N.side = M.side /\ NodesOf(N) = NodesOf(M) \ gone
      /\ N.arcs = {a \in M.arcs : a \notin cut /\ a[1] \notin gone /\ a[2] \notin gone}
  BY DetachedDiagram
<1>2. \A n \in NodesOf(M) \ gone :
         /\ SameKnown(N.facts[n], M.facts[n])
         /\ N.facts[n].needSucc <=> \/ M.facts[n].needSucc
                                    \/ \E a \in M.arcs \cup cut :
                                          /\ a[1] = n
                                          /\ a \in cut \/ a[1] \in gone \/ a[2] \in gone
  BY DetachedParts
<1>3. ASSUME NEW n \in NodesOf(N), ~N.facts[n].needSucc
      PROVE  Carries(M, N, n)
  <2>1. n \in NodesOf(M) \ gone
    BY <1>1
  <2>2. ~M.facts[n].needSucc /\ N.facts[n].ub = M.facts[n].ub
    BY <1>2, <1>3, <2>1 DEF SameKnown
  <2>3. ASSUME NEW s \in Succs(M, n) PROVE s \in Succs(N, n) /\ N.facts[s].ub = M.facts[s].ub
    <3> DEFINE a == <<n, s>>
    <3>1. a \in M.arcs /\ a[1] = n /\ a[2] = s
      BY <2>3, SuccArcs
    <3>2. a \in N.arcs /\ s \notin gone
      BY <1>1, <1>2, <1>3, <2>1, <3>1
    <3>3. s \in NodesOf(M)
      BY <3>1 DEF IsDiagram
    <3>4. N.facts[s].ub = M.facts[s].ub
      BY <1>2, <3>2, <3>3 DEF SameKnown
    <3>5. s \in Succs(N, n)
      BY <1>1, <3>2, SuccArcs
    <3> QED BY <3>4, <3>5
  <2> QED BY <2>1, <2>2, <2>3 DEF Carries
<1> HIDE DEF N
<1> QED BY <1>1, <1>3, CarriedTight DEF N

(* What the flags of a layout leave.                                       *)
LEMMA PrunedTight ==
    ASSUME strings \in Inputs, NEW M, IsDiagram(M), Tight(M),
           NEW flat, Len(flat) > 0, Source(M.side) \in flat[1].matches
    PROVE  Tight(PrunedByFlat(M, flat))
<1> DEFINE matches(k) == IF k < Len(flat) THEN flat[k + 1].matches ELSE {}
           gone == {n \in DOMAIN M.facts : MatchOf(n) \notin matches(DepthOf(n))}
           cut == {a \in M.arcs : a[1] \notin gone
                                  => <<MatchOf(a[1]), MatchOf(a[2])>> \notin flat[DepthOf(a[1]) + 1].arcs}
<1>1. PrunedByFlat(M, flat) = Detached(M, gone, cut)
  BY DEF PrunedByFlat
<1>2. RootNode(M.side) \notin gone
  <2>1. MatchOf(RootNode(M.side)) = Source(M.side) /\ DepthOf(RootNode(M.side)) = 0
    BY DEF MatchOf, DepthOf, RootNode
  <2> QED BY <2>1
<1> HIDE DEF gone, cut
<1> QED BY <1>1, <1>2, DetachedTight

(* A visited level, whose nodes have come to know what new says.           *)
LEMMA VisitedTight ==
    ASSUME strings \in Inputs, NEW M, IsDiagram(M), NEW i \in 1..Len(M.levels),
           NEW new \in [M.levels[i] -> Known], NEW filtered, Tight(M),
           \A n \in M.levels[i] : n # RootNode(M.side) /\ DepthOf(n) < opt /\ ~new[n].needSucc =>
              new[n].ub = 0 \/ \E s \in Succs(M, n) : new[n].ub <= M.facts[s].ub + 1
    PROVE  Tight(Visited(M, i, new, filtered).mdd)
<1> DEFINE N == Visited(M, i, new, filtered).mdd
           gone == VisitGone(M, i, new)
           cut == VisitCut(M, new, filtered)
<1>1. /\ NodesOf(N) = NodesOf(M) \ gone
      /\ N.arcs = {a \in M.arcs : a \notin cut /\ a[1] \notin gone /\ a[2] \notin gone}
      /\ \A n \in NodesOf(M) \ gone :
            /\ SameKnown(N.facts[n], NowKnown(M, i, new, n))
            /\ N.facts[n].needSucc <=>
                  \/ NowKnown(M, i, new, n).needSucc
                  \/ \E m \in VisitBelow(M, i, new) : n \in Preds(M, m)
                  \/ \E a \in M.arcs \cup cut : a[1] = n /\ (a \in cut \/ a[1] \in gone \/ a[2] \in gone)
  BY VisitedParts
<1>2. N.side = M.side /\ IsDiagram(N)
  BY VisitedDiagram DEF Smaller
<1>3. \A n \in NodesOf(M) : Succs(M, n) \subseteq NodesOf(M)
  BY DiagramFacts
<1>4. M.levels[i] \subseteq NodesOf(M)
  BY DEF NodesOf
<1> HIDE DEF N, gone, cut
<1>5. SUFFICES ASSUME NEW n \in NodesOf(N), n # RootNode(N.side), DepthOf(n) < opt, ~N.facts[n].needSucc
               PROVE  Reaching(N, n)
  BY DEF Tight, N
<1>6. n \in NodesOf(M) /\ n \notin gone
  BY <1>1, <1>5
<1>7. N.facts[n].ub = NowKnown(M, i, new, n).ub /\ ~NowKnown(M, i, new, n).needSucc
  BY <1>1, <1>5, <1>6 DEF SameKnown
<1>8. ASSUME NEW s \in Succs(M, n)
      PROVE  s \in Succs(N, n) /\ N.facts[s].ub = M.facts[s].ub
  <2> DEFINE a == <<n, s>>
  <2>1. a \in M.arcs /\ a[1] = n /\ a[2] = s /\ s \in NodesOf(M)
    BY <1>3, <1>6, <1>8, SuccArcs
  <2>2. a \in N.arcs /\ s \notin gone
    <3>1. a \notin cut /\ a[1] \notin gone /\ a[2] \notin gone
      BY <1>1, <1>5, <1>6, <2>1
    <3> QED BY <1>1, <2>1, <3>1
  <2>3. s \in Succs(N, n)
    BY <1>2, <2>2, SuccArcs
  <2>4. s \notin VisitBelow(M, i, new)
    <3>1. n \in Preds(M, s)
      BY <2>1, SuccArcs
    <3> QED BY <1>1, <1>5, <1>6, <3>1
  <2>5. NowKnown(M, i, new, s).ub = M.facts[s].ub
    BY <2>4 DEF VisitBelow, NowKnown
  <2> QED BY <1>1, <2>1, <2>2, <2>3, <2>5 DEF SameKnown
<1>9. NowKnown(M, i, new, n).ub = 0 \/ \E s \in Succs(M, n) : NowKnown(M, i, new, n).ub <= M.facts[s].ub + 1
  <2>1. CASE n \in M.levels[i]
    BY <1>2, <1>5, <1>7, <2>1 DEF NowKnown
  <2>2. CASE n \notin M.levels[i]
    <3>1. NowKnown(M, i, new, n) = M.facts[n]
      BY <2>2 DEF NowKnown
    <3>2. Reaching(M, n)
      BY <1>2, <1>5, <1>6, <1>7, <3>1 DEF Tight
    <3> QED BY <3>1, <3>2 DEF Reaching
  <2> QED BY <2>1, <2>2
<1> QED BY <1>7, <1>8, <1>9 DEF Reaching

LEMMA DownVisitTight ==
    ASSUME strings \in Inputs, NEW M, IsDiagram(M), NEW i \in 2..Len(M.levels), Local(M), Tight(M)
    PROVE  Tight(DownVisit(M, i).mdd)
<1> DEFINE updating == {n \in M.levels[i] : M.facts[n].needPred /\ Preds(M, n) # {}}
           learnt == {n \in updating : [M.facts[n] EXCEPT !.needPred = FALSE] # DownKnown(M, i)[n]}
<1>1. DownVisit(M, i) = Visited(M, i, DownKnown(M, i), learnt)
  <2>1. DownKnown(M, i) = [n \in M.levels[i] |-> IF n \in updating THEN UpdatedFromPreds(M, n) ELSE M.facts[n]]
    BY DEF DownKnown
  <2> QED BY <2>1 DEF DownVisit
<1>2. DownKnown(M, i) \in [M.levels[i] -> Known] /\ i \in 1..Len(M.levels)
  BY DownKnownFacts
<1> HIDE DEF learnt
<1>3. ASSUME NEW n \in M.levels[i], n # RootNode(M.side), DepthOf(n) < opt, ~DownKnown(M, i)[n].needSucc
      PROVE  DownKnown(M, i)[n].ub = 0 \/ \E s \in Succs(M, n) : DownKnown(M, i)[n].ub <= M.facts[s].ub + 1
  <2>1. n \in NodesOf(M)
    BY <1>2 DEF NodesOf
  <2>2. DownKnown(M, i)[n].ub = M.facts[n].ub /\ DownKnown(M, i)[n].needSucc = M.facts[n].needSucc
    <3>1. UpdatedFromPreds(M, n).ub = M.facts[n].ub
      BY <2>1, FromPredsKeeps
    <3>3. UpdatedFromPreds(M, n).needSucc = M.facts[n].needSucc
      BY <2>1, FromPredsKeeps
    <3>2. DownKnown(M, i)[n] = UpdatedFromPreds(M, n) \/ DownKnown(M, i)[n] = M.facts[n]
      BY DEF DownKnown
    <3> QED BY <3>1, <3>2, <3>3
  <2>3. Reaching(M, n)
    BY <1>3, <2>1, <2>2 DEF Tight
  <2> QED BY <2>2, <2>3 DEF Reaching
<1> QED BY <1>1, <1>2, <1>3, VisitedTight

LEMMA UpVisitTight ==
    ASSUME strings \in Inputs, lower \in Nat, NEW M, IsDiagram(M), NEW i \in 1..Len(M.levels), Local(M), Tight(M)
    PROVE  Tight(UpVisit(M, i).mdd)
<1> DEFINE updating == {n \in M.levels[i] : M.facts[n].needSucc}
<1>1. UpVisit(M, i) = Visited(M, i, UpKnown(M, i), updating)
  <2>1. UpKnown(M, i) = [n \in M.levels[i] |-> IF n \in updating THEN UpdatedFromSuccs(M, n) ELSE M.facts[n]]
    BY DEF UpKnown
  <2> QED BY <2>1 DEF UpVisit
<1>2. UpKnown(M, i) \in [M.levels[i] -> Known]
  BY UpKnownFacts
<1> HIDE DEF updating
<1>3. ASSUME NEW n \in M.levels[i], n # RootNode(M.side), DepthOf(n) < opt, ~UpKnown(M, i)[n].needSucc
      PROVE  UpKnown(M, i)[n].ub = 0 \/ \E s \in Succs(M, n) : UpKnown(M, i)[n].ub <= M.facts[s].ub + 1
  <2>1. n \in NodesOf(M)
    BY DEF NodesOf
  <2>2. CASE M.facts[n].needSucc
    <3> DEFINE g == UpKnown(M, i)[n]
    <3>1. g = UpdatedFromSuccs(M, n)
      BY <2>2 DEF UpKnown
    <3>2. /\ g.ub <= Longest(M, n) + 1 /\ g.ub <= Cardinality(g.sink)
          /\ g.sink = M.facts[n].sink \cap SomeSucc(M, n)
      <4>1. LET h == UpdatedFromSuccs(M, n)
            IN  /\ h.ub <= Longest(M, n) + 1 /\ h.ub <= Cardinality(h.sink)
                /\ h.sink = M.facts[n].sink \cap SomeSucc(M, n)
        BY <2>1, FromSuccsParts
      <4> HIDE DEF g
      <4> QED BY <3>1, <4>1
    <3>3. g.ub \in Nat
      <4>1. g \in Known
        BY <1>2, <1>3
      <4> QED BY <4>1 DEF Known
    <3>4. /\ Longest(M, n) \in Nat
          /\ Longest(M, n) = 0 \/ \E s \in Succs(M, n) : M.facts[s].ub = Longest(M, n)
          /\ \A s \in Succs(M, n) : M.facts[s].ub \in Nat
      BY <2>1, BoundsOfSuccs
    <3> HIDE DEF g
    <3>5. CASE Succs(M, n) = {}
      <4>1. g.sink = {}
        BY <3>2, <3>5 DEF SomeSucc
      <4>2. Cardinality(g.sink) = 0
        BY <4>1, FS_EmptySet
      <4>3. g.ub = 0
        BY <3>2, <3>3, <4>2
      <4> QED BY <4>3 DEF g
    <3>6. CASE Succs(M, n) # {}
      <4>1. \E s \in Succs(M, n) : g.ub <= M.facts[s].ub + 1
        BY <3>2, <3>3, <3>4, <3>6
      <4> QED BY <4>1 DEF g
    <3> QED BY <3>5, <3>6
  <2>3. CASE ~M.facts[n].needSucc
    <3>1. UpKnown(M, i)[n] = M.facts[n]
      BY <2>3 DEF UpKnown
    <3>2. Reaching(M, n)
      BY <1>3, <2>1, <2>3 DEF Tight
    <3> QED BY <3>1, <3>2 DEF Reaching
  <2> QED BY <2>2, <2>3
<1> QED BY <1>1, <1>2, <1>3, VisitedTight

(* No node from the i-th level on has to update.                           *)
Quiet(M, i) == \A j \in i..Len(M.levels) : \A n \in M.levels[j] : ~M.facts[n].needSucc

(* A level that is visited without a change is done.                       *)
LEMMA UpVisitQuiet ==
    ASSUME strings \in Inputs, lower \in Nat, NEW M, IsDiagram(M), NEW i \in 1..Len(M.levels), Local(M),
           Quiet(M, i + 1), ~UpVisit(M, i).changed
    PROVE  Quiet(UpVisit(M, i).mdd, i)
<1> DEFINE updating == {n \in M.levels[i] : M.facts[n].needSucc}
           new == UpKnown(M, i)
           gone == VisitGone(M, i, new)
           cut == VisitCut(M, new, updating)
           N == Visited(M, i, new, updating).mdd
<1>1. UpVisit(M, i) = Visited(M, i, new, updating)
  <2>1. new = [n \in M.levels[i] |-> IF n \in updating THEN UpdatedFromSuccs(M, n) ELSE M.facts[n]]
    BY DEF UpKnown
  <2> QED BY <2>1 DEF UpVisit
<1>2. new \in [M.levels[i] -> Known]
  BY UpKnownFacts
<1>3. ASSUME NEW n \in M.levels[i] PROVE ~new[n].needSucc
  <2>1. n \in NodesOf(M)
    BY DEF NodesOf
  <2>2. CASE M.facts[n].needSucc
    <3>1. new[n] = UpdatedFromSuccs(M, n)
      BY <2>2 DEF UpKnown
    <3> QED BY <2>1, <3>1, FromSuccsParts
  <2>3. CASE ~M.facts[n].needSucc
    BY <2>3 DEF UpKnown
  <2> QED BY <2>2, <2>3
<1> HIDE DEF new, updating
<1>4. Visited(M, i, new, updating).changed <=>
         \/ VisitBelow(M, i, new) \cup VisitAbove(M, i, new) \cup VisitPruned(M, i, new) # {}
         \/ VisitCut(M, new, updating) # {}
  BY DEF Visited, VisitBelow, VisitAbove, VisitPruned, VisitCut
<1>5. /\ VisitBelow(M, i, new) = {} /\ VisitPruned(M, i, new) = {} /\ cut = {}
  <2>1. ~Visited(M, i, new, updating).changed
    BY <1>1
  <2> QED BY <1>4, <2>1
<1>6. gone = {}
  BY <1>5 DEF VisitGone
<1>7. /\ \A j \in 1..Len(M.levels) : N.levels[j] = M.levels[j] \ gone
      /\ NodesOf(N) = NodesOf(M) \ gone
      /\ \A n \in NodesOf(M) \ gone :
            N.facts[n].needSucc <=>
                  \/ NowKnown(M, i, new, n).needSucc
                  \/ \E m \in VisitBelow(M, i, new) : n \in Preds(M, m)
                  \/ \E a \in M.arcs \cup cut : a[1] = n /\ (a \in cut \/ a[1] \in gone \/ a[2] \in gone)
  BY <1>2, VisitedParts
<1>8. Len(N.levels) = Len(M.levels) /\ Len(M.levels) \in Nat
  BY <1>2, VisitedDiagram, DiagramFacts
<1> HIDE DEF N, gone, cut
<1>9. ASSUME NEW j \in i..Len(N.levels), NEW n \in N.levels[j] PROVE ~N.facts[n].needSucc
  <2>1. j \in 1..Len(M.levels) /\ n \in M.levels[j]
    BY <1>7, <1>8, <1>9, <1>6
  <2>2. n \in NodesOf(M) \ gone
    BY <1>6, <2>1 DEF NodesOf
  <2>3. N.facts[n].needSucc <=> NowKnown(M, i, new, n).needSucc
    BY <1>5, <1>6, <1>7, <2>2
  <2>4. CASE n \in M.levels[i]
    BY <1>3, <2>3, <2>4 DEF NowKnown
  <2>5. CASE n \notin M.levels[i]
    <3>1. j \in (i + 1)..Len(M.levels)
      BY <1>8, <2>1, <2>5
    <3>2. ~M.facts[n].needSucc
      BY <2>1, <3>1 DEF Quiet
    <3> QED BY <2>3, <2>5, <3>2 DEF NowKnown
  <2> QED BY <2>4, <2>5
<1> QED BY <1>1, <1>9 DEF Quiet, N

LEMMA CutOffTight ==
    ASSUME strings \in Inputs, NEW M, IsDiagram(M), NEW u \in Nat, u + 1 <= Len(NonEmpty(M.levels)), Tight(M)
    PROVE  Tight(CutOff(M, u))
<1> DEFINE N == CutOff(M, u)
           D == Detached(M, CutNodes(M, u), {})
<1>1. N = CutOff(M, u) /\ D = Detached(M, CutNodes(M, u), {})
  OBVIOUS
<1> HIDE DEF N, D
<1>2. /\ RootNode(M.side) \notin CutNodes(M, u)
      /\ IsDiagram(D) /\ IsDiagram(N) /\ N.side = M.side /\ NodesOf(N) = NodesOf(D)
      /\ N.arcs = D.arcs /\ N.facts = D.facts
  BY <1>1, CutOffIs
<1>3. Tight(D) /\ D.side = M.side
  BY <1>1, <1>2, DetachedTight, DetachedDiagram
<1>4. \A n : Succs(N, n) = Succs(D, n)
  BY <1>2 DEF Succs
<1>5. Tight(N)
  BY <1>2, <1>3, <1>4 DEF Tight, Reaching
<1> QED BY <1>1, <1>5

(* The end of the filter: only nodes beyond the longest solutions have     *)
(* lost arcs to the levels that are cut off.                               *)
LEMMA CutOffSettled ==
    ASSUME strings \in Inputs, opt \in Nat, NEW M, IsDiagram(M), Aligned(M), NEW V, Keeps(M, V),
           NEW u \in Nat, opt <= u, u + 1 <= Len(NonEmpty(M.levels)), Quiet(M, 1)
    PROVE  Settled(CutOff(M, u))
<1> DEFINE N == CutOff(M, u)
           D == Detached(M, CutNodes(M, u), {})
<1>1. N = CutOff(M, u) /\ D = Detached(M, CutNodes(M, u), {})
  OBVIOUS
<1> HIDE DEF N, D
<1>2. /\ RootNode(M.side) \notin CutNodes(M, u)
      /\ NodesOf(D) = NodesOf(M) \ CutNodes(M, u) /\ NodesOf(N) = NodesOf(D)
      /\ N.facts = D.facts
  BY <1>1, CutOffIs
<1>3. \A k \in 1..Len(NonEmpty(M.levels)) :
         \A n \in NonEmpty(M.levels)[k] : DepthOf(n) <= opt => k = DepthOf(n) + 1
  BY FirstLevelsStay
<1>4. Len(NonEmpty(M.levels)) \in Nat
  BY LevelPlaces, DiagramFacts
<1> SUFFICES ASSUME NEW n \in NodesOf(N), DepthOf(n) < opt PROVE ~N.facts[n].needSucc
  BY <1>1 DEF Settled
<1>5. n \in NodesOf(M) \ CutNodes(M, u)
  BY <1>2
<1>6. DepthOf(n) \in Nat
  BY <1>5, DiagramFacts
<1>7. ~M.facts[n].needSucc
  BY <1>5 DEF Quiet, NodesOf
<1>8. ASSUME NEW a \in M.arcs, a[1] = n, a[2] \in CutNodes(M, u) PROVE FALSE
  <2>1. DepthOf(a[2]) = DepthOf(n) + 1
    BY <1>8 DEF IsDiagram
  <2>2. PICK k \in (u + 2)..Len(NonEmpty(M.levels)) : a[2] \in NonEmpty(M.levels)[k]
    BY <1>8 DEF CutNodes
  <2>3. k = DepthOf(a[2]) + 1
    BY <1>3, <1>4, <1>6, <2>1, <2>2
  <2> QED BY <1>6, <2>1, <2>2, <2>3
<1>9. D.facts[n].needSucc <=> \/ M.facts[n].needSucc
                              \/ \E a \in M.arcs \cup {} :
                                    /\ a[1] = n
                                    /\ a \in {} \/ a[1] \in CutNodes(M, u) \/ a[2] \in CutNodes(M, u)
  BY <1>1, <1>2, <1>5, DetachedParts
<1> QED BY <1>2, <1>5, <1>7, <1>8, <1>9

(* A copy has nothing pending, as the MDD had nothing.                     *)
LEMMA CopyTight ==
    ASSUME strings \in Inputs, NEW M, IsDiagram(M), Tight(M), Settled(M)
    PROVE  Tight(CopyOf(M)) /\ Settled(CopyOf(M))
<1> DEFINE N == CopyOf(M)
<1>1. /\ IsDiagram(N) /\ N.side = M.side /\ NodesOf(N) = NodesOf(M) /\ N.arcs = M.arcs
  BY CopyDiagram
<1>2. \A n \in NodesOf(M) : SameKnown(N.facts[n], M.facts[n]) /\ ~N.facts[n].needSucc
  BY CopyParts
<1> HIDE DEF N
<1>3. \A n : Succs(N, n) = Succs(M, n)
  BY <1>1 DEF Succs
<1>4. ASSUME NEW n \in NodesOf(N), DepthOf(n) < opt PROVE Carries(M, N, n)
  <2>1. n \in NodesOf(M) /\ Succs(M, n) \subseteq NodesOf(M) /\ ~M.facts[n].needSucc
    BY <1>1, <1>4, DiagramFacts DEF Settled
  <2> QED BY <1>2, <1>3, <2>1 DEF Carries, SameKnown
<1>5. Tight(N)
  BY <1>1, <1>4, CarriedTight
<1>6. Settled(N)
  BY <1>1, <1>2 DEF Settled
<1> QED BY <1>5, <1>6 DEF N

(* All nodes of the first MDD but its root are to update.                  *)
LEMMA InitialTight ==
    ASSUME GraphIsReduced, NEW d \in Directions, NEW fresh \in BOOLEAN
    PROVE  Tight(InitialMdd(d, fresh))
<1> DEFINE M == InitialMdd(d, fresh)
<1>1. /\ M.side = d
      /\ \A n \in NodesOf(M) : n # RootNode(d) => M.facts[n] = NewFacts(d, MatchOf(n))
  BY InitialParts
<1>2. \A m : NewFacts(d, m).needSucc = TRUE
  BY DEF NewFacts
<1> HIDE DEF M
<1> QED BY <1>1, <1>2 DEF Tight, M

(* A split flags whom it changes, and their predecessors.                  *)
LEMMA SplitTight ==
    ASSUME strings \in Inputs, NEW M, IsDiagram(M), Tight(M), NEW i \in 2..Len(M.levels), NEW c \in Characters,
           NotYet(M, i, c), NEW skipped
    PROVE  Tight(SplitLevel(M, i, c, skipped))
<1> DEFINE N == SplitLevel(M, i, c, skipped)
           apart == SplitNodes(M, i, c)
<1>1. /\ NodesOf(N) = NodesOf(M) \cup SplitCopies(M, i, c)
      /\ \A n \in Useful(M, i, c) : CopyKnows(N.facts[NoMaybe(n, c)], M.facts[n], c)
      /\ \A n \in apart : StillKnows(N.facts[n], M.facts[n], c)
      /\ \A n \in NodesOf(M) \ apart : /\ SameKnown(N.facts[n], M.facts[n])
                                       /\ N.facts[n].needSucc <=>
                                              M.facts[n].needSucc \/ \E m \in apart : n \in Preds(M, m)
  BY SplitParts
<1>2. IsDiagram(N) /\ N.side = M.side
  BY SplitDiagram
<1>3. \A x, y : <<x, y>> \in M.arcs /\ x \notin apart /\ y \notin apart => <<x, y>> \in N.arcs
  BY Untouched
<1>4. apart \subseteq NodesOf(M)
  BY CopyNames
<1> HIDE DEF N, apart
<1>5. ASSUME NEW n \in NodesOf(N), ~N.facts[n].needSucc PROVE Carries(M, N, n)
  <2>1. n \notin SplitCopies(M, i, c)
    BY <1>1, <1>5 DEF SplitCopies, CopyKnows
  <2>2. n \in NodesOf(M) \ apart
    BY <1>1, <1>5, <2>1 DEF StillKnows
  <2>3. ~M.facts[n].needSucc /\ N.facts[n].ub = M.facts[n].ub
    BY <1>1, <1>5, <2>2 DEF SameKnown
  <2>4. ASSUME NEW s \in Succs(M, n) PROVE s \in Succs(N, n) /\ N.facts[s].ub = M.facts[s].ub
    <3>1. <<n, s>> \in M.arcs /\ n \in Preds(M, s)
      BY <2>4, SuccArcs
    <3>2. s \in NodesOf(M) \ apart
      BY <1>1, <1>5, <2>2, <3>1, <2>4, DiagramFacts
    <3>3. <<n, s>> \in N.arcs
      BY <1>3, <2>2, <3>1, <3>2
    <3> QED BY <1>1, <1>2, <3>2, <3>3, SuccArcs DEF SameKnown
  <2> QED BY <2>2, <2>3, <2>4 DEF Carries
<1> QED BY <1>2, <1>5, CarriedTight DEF N

(* The layout flat has what an MDD has on the way of a longest solution.   *)
InFlat(M, flat) ==
    /\ \A n \in NodesOf(M) : DepthOf(n) <= opt => MatchOf(n) \in flat[DepthOf(n) + 1].matches
    /\ \A a \in M.arcs : DepthOf(a[2]) <= opt =>
          <<MatchOf(a[1]), MatchOf(a[2])>> \in flat[DepthOf(a[1]) + 1].arcs

LEMMA SmallerInFlat ==
    ASSUME NEW M, NEW N, Smaller(N, M), NEW flat, InFlat(M, flat)
    PROVE  InFlat(N, flat)
<1>1. NodesOf(N) \subseteq NodesOf(M) /\ N.arcs \subseteq M.arcs
  BY DEF Smaller
<1> QED BY <1>1 DEF InFlat

LEMMA PrunedInFlat ==
    ASSUME strings \in Inputs, NEW M, IsDiagram(M), NEW flat, Len(flat) > 0, Source(M.side) \in flat[1].matches
    PROVE  InFlat(PrunedByFlat(M, flat), flat)
<1> DEFINE N == PrunedByFlat(M, flat)
<1>1. /\ IsDiagram(N)
      /\ NodesOf(N) = NodesOf(M) \ FlatGone(M, flat)
      /\ \A n, s : <<n, s>> \in N.arcs => <<MatchOf(n), MatchOf(s)>> \in flat[DepthOf(n) + 1].arcs
  BY PrunedParts
<1> HIDE DEF N
<1>2. ASSUME NEW n \in NodesOf(N) PROVE MatchOf(n) \in flat[DepthOf(n) + 1].matches
  BY <1>1, <1>2 DEF FlatGone
<1>3. ASSUME NEW a \in N.arcs PROVE <<MatchOf(a[1]), MatchOf(a[2])>> \in flat[DepthOf(a[1]) + 1].arcs
  <2>1. <<a[1], a[2]>> \in N.arcs
    BY <1>1, <1>3 DEF IsDiagram
  <2> QED BY <1>1, <2>1
<1> QED BY <1>2, <1>3 DEF InFlat, N

LEMMA SplitInFlat ==
    ASSUME strings \in Inputs, NEW M, IsDiagram(M), NEW i \in 2..Len(M.levels), NEW c \in Characters,
           NotYet(M, i, c), NEW skipped, NEW flat, InFlat(M, flat)
    PROVE  InFlat(SplitLevel(M, i, c, skipped), flat)
<1> DEFINE N == SplitLevel(M, i, c, skipped)
           O(x) == Origin(M, i, c, x)
<1>1. \A x \in NodesOf(N) : O(x) \in NodesOf(M) /\ DepthOf(O(x)) = DepthOf(x) /\ MatchOf(O(x)) = MatchOf(x)
  BY OriginFacts
<1>2. IsDiagram(N)
  BY SplitDiagram
<1>3. \A x, y : <<x, y>> \in N.arcs => <<O(x), O(y)>> \in M.arcs
  BY SplitArcs
<1> HIDE DEF N, O
<1>4. ASSUME NEW n \in NodesOf(N), DepthOf(n) <= opt PROVE MatchOf(n) \in flat[DepthOf(n) + 1].matches
  BY <1>1, <1>4 DEF InFlat
<1>5. ASSUME NEW a \in N.arcs, DepthOf(a[2]) <= opt
      PROVE  <<MatchOf(a[1]), MatchOf(a[2])>> \in flat[DepthOf(a[1]) + 1].arcs
  <2>1. <<a[1], a[2]>> \in N.arcs /\ a[1] \in NodesOf(N) /\ a[2] \in NodesOf(N)
    BY <1>2, <1>5 DEF IsDiagram
  <2> DEFINE b == <<O(a[1]), O(a[2])>>
  <2>2. b \in M.arcs /\ b[1] = O(a[1]) /\ b[2] = O(a[2])
    BY <1>3, <2>1
  <2> HIDE DEF b
  <2>3. DepthOf(b[2]) <= opt
    BY <1>1, <1>5, <2>1, <2>2
  <2>4. <<MatchOf(b[1]), MatchOf(b[2])>> \in flat[DepthOf(b[1]) + 1].arcs
    BY <2>2, <2>3 DEF InFlat
  <2> QED BY <1>1, <2>1, <2>2, <2>4
<1> QED BY <1>4, <1>5 DEF InFlat, N

(* The flags that are still set are those of the MDD.                      *)
LEMMA StillFlat ==
    ASSUME strings \in Inputs, opt \in Nat, NEW M, IsDiagram(M), Aligned(M), NEW flat, InFlat(M, flat)
    PROVE  InFlat(M, StillInFlat(flat, M))
<1> DEFINE g == StillInFlat(flat, M)
<1>1. \A i \in 1..Len(M.levels) :
         /\ \A m : m \in g[i].matches <=> m \in flat[i].matches /\ m \in Laid(M)[i].matches
         /\ \A a : a \in g[i].arcs <=> a \in flat[i].arcs /\ a \in Laid(M)[i].arcs
  BY StillParts
<1>2. \A i \in 1..Len(M.levels) :
         /\ \A m : m \in Laid(M)[i].matches <=> \E n \in M.levels[i] : MatchOf(n) = m
         /\ \A m, s : <<m, s>> \in Laid(M)[i].arcs <=>
               \E a \in M.arcs : a[1] \in M.levels[i] /\ MatchOf(a[1]) = m /\ MatchOf(a[2]) = s
  BY LaidParts
<1> HIDE DEF g
<1>3. ASSUME NEW n \in NodesOf(M), DepthOf(n) <= opt
      PROVE  DepthOf(n) + 1 \in 1..Len(M.levels) /\ n \in M.levels[DepthOf(n) + 1]
  <2>1. PICK i \in 1..Len(M.levels) : n \in M.levels[i]
    BY DEF NodesOf
  <2>2. i = DepthOf(n) + 1
    BY <1>3, <2>1 DEF Aligned
  <2> QED BY <2>1, <2>2
<1>4. ASSUME NEW n \in NodesOf(M), DepthOf(n) <= opt PROVE MatchOf(n) \in g[DepthOf(n) + 1].matches
  <2> DEFINE i == DepthOf(n) + 1
  <2>1. i \in 1..Len(M.levels) /\ n \in M.levels[i] /\ MatchOf(n) \in flat[i].matches
    BY <1>3, <1>4 DEF InFlat
  <2> HIDE DEF i
  <2>2. MatchOf(n) \in g[i].matches
    BY <1>1, <1>2, <2>1
  <2> QED BY <2>2 DEF i
<1>5. ASSUME NEW a \in M.arcs, DepthOf(a[2]) <= opt
      PROVE  <<MatchOf(a[1]), MatchOf(a[2])>> \in g[DepthOf(a[1]) + 1].arcs
  <2>1. a[1] \in NodesOf(M) /\ DepthOf(a[2]) = DepthOf(a[1]) + 1
    BY <1>5 DEF IsDiagram
  <2>2. DepthOf(a[1]) \in Nat
    BY <2>1, DiagramFacts
  <2>3. DepthOf(a[1]) <= opt
    BY <1>5, <2>1, <2>2
  <2> DEFINE i == DepthOf(a[1]) + 1
  <2>4. i \in 1..Len(M.levels) /\ a[1] \in M.levels[i]
    BY <1>3, <2>1, <2>3
  <2>5. <<MatchOf(a[1]), MatchOf(a[2])>> \in flat[i].arcs
    BY <1>5 DEF InFlat
  <2> HIDE DEF i
  <2>6. <<MatchOf(a[1]), MatchOf(a[2])>> \in g[i].arcs
    BY <1>1, <1>2, <1>5, <2>4, <2>5
  <2> QED BY <2>6 DEF i
<1> QED BY <1>4, <1>5 DEF InFlat, g

-----------------------------------------------------------------------------
(* The way to a child's last step.                                         *)

Done(M) == Tight(M) /\ Settled(M)

(* What the parent and the child hold between two filters is done, what    *)
(* the filter works on will be, and the layout has all of the child's MDD  *)
(* that a longest solution can pass.  A trial's MDD may be left with       *)
(* bounds that nothing accounts for; nobody looks at it again.             *)
EndPart ==
    /\ Done(parent)
    /\ step # "layout" => Done(work) /\ InFlat(work, shared.flat)
    /\ task # "trial" => Tight(mdd)
    /\ task \in {"copy", "refine"} => InFlat(mdd, shared.flat)
    /\ step = "up" /\ ~changing => Quiet(mdd, at + 1)
    /\ step = "root" /\ ~changing => Quiet(mdd, 2)
    /\ step = "filtered" => Settled(mdd)
    /\ step = "complete" => refined = Characters

EndInv == step # "graph" /\ lower < opt => EndPart

LEMMA EndsUnchanged ==
    ASSUME strings' = strings, lower' = lower, opt' = opt
    PROVE  /\ \A M : Done(M)' <=> Done(M)
           /\ \A M : Tight(M)' <=> Tight(M)
           /\ \A M : Settled(M)' <=> Settled(M)
           /\ \A M, i : Quiet(M, i)' <=> Quiet(M, i)
           /\ \A M, flat : InFlat(M, flat)' <=> InFlat(M, flat)
<1>1. \A d : RootNode(d)' = RootNode(d)
  <2>1. \A d : Source(d)' = Source(d)
    BY DEF Source, Root, Leaf
  <2> QED BY <2>1 DEF RootNode
<1>2. \A M : NodesOf(M)' = NodesOf(M)
  BY DEF NodesOf
<1>3. \A M, n : Succs(M, n)' = Succs(M, n)
  BY DEF Succs
<1>4. \A M, n : Reaching(M, n)' <=> Reaching(M, n)
  BY <1>3 DEF Reaching
<1>5. \A M : Tight(M)' <=> Tight(M)
  BY <1>1, <1>2, <1>4 DEF Tight
<1>6. \A M : Settled(M)' <=> Settled(M)
  BY <1>2 DEF Settled
<1>7. \A M, i : Quiet(M, i)' <=> Quiet(M, i)
  BY DEF Quiet
<1>8. \A M, flat : InFlat(M, flat)' <=> InFlat(M, flat)
  BY <1>2 DEF InFlat
<1>9. \A M : Done(M)' <=> Done(M)
  BY <1>5, <1>6 DEF Done
<1> QED BY <1>5, <1>6, <1>7, <1>8, <1>9

LEMMA NoMddDone == Done(NoMdd) /\ \A flat : InFlat(NoMdd, flat)
<1>1. NodesOf(NoMdd) = {} /\ NoMdd.arcs = {}
  BY DEF NodesOf, NoMdd
<1> QED BY <1>1 DEF Done, Tight, Settled, InFlat

(* A step without a filter behind it.                                      *)
LEMMA IdleEnds ==
    ASSUME UNCHANGED fixedVars, step' \notin Filtering, mdd' = NoMdd,
           NEW P, parent' = P, NEW X, work' = X, NEW flat, shared'.flat = flat,
           lower < opt => /\ Done(P)
                          /\ step' # "layout" => Done(X) /\ InFlat(X, flat)
                          /\ step' = "complete" => refined' = Characters
    PROVE  EndInv'
<1>1. strings' = strings /\ lower' = lower /\ opt' = opt
  BY DEF fixedVars
<1> SUFFICES ASSUME lower < opt PROVE EndPart'
  BY <1>1 DEF EndInv
<1>2. Done(parent)'
  BY <1>1, EndsUnchanged
<1>3. (step # "layout" => Done(work) /\ InFlat(work, shared.flat))'
  BY <1>1, EndsUnchanged
<1>4. (Tight(mdd) /\ InFlat(mdd, shared.flat))'
  <2>1. Tight(NoMdd) /\ InFlat(NoMdd, flat)
    BY NoMddDone DEF Done
  <2> QED BY <1>1, <2>1, EndsUnchanged
<1>5. step' \notin {"up", "root", "filtered"}
  BY DEF Filtering
<1>6. (step = "complete" => refined = Characters)'
  OBVIOUS
<1> QED BY <1>2, <1>3, <1>4, <1>5, <1>6 DEF EndPart

(* A step of a filter, or one that begins it.                              *)
LEMMA FilterEnds ==
    ASSUME UNCHANGED fixedVars, step' \in Filtering,
           NEW P, parent' = P, NEW X, work' = X, NEW flat, shared'.flat = flat, NEW N, mdd' = N,
           lower < opt => /\ Done(P)
                          /\ Done(X) /\ InFlat(X, flat)
                          /\ task' # "trial" => Tight(N)
                          /\ task' \in {"copy", "refine"} => InFlat(N, flat)
                          /\ step' = "up" /\ ~changing' => Quiet(N, at' + 1)
                          /\ step' = "root" /\ ~changing' => Quiet(N, 2)
                          /\ step' = "filtered" => Settled(N)
    PROVE  EndInv'
<1>1. strings' = strings /\ lower' = lower /\ opt' = opt
  BY DEF fixedVars
<1> SUFFICES ASSUME lower < opt PROVE EndPart'
  BY <1>1 DEF EndInv
<1>2. Done(parent)'
  BY <1>1, EndsUnchanged
<1>3. (step # "layout" => Done(work) /\ InFlat(work, shared.flat))'
  BY <1>1, EndsUnchanged
<1>4. (task # "trial" => Tight(mdd))'
  BY <1>1, EndsUnchanged
<1>5. (task \in {"copy", "refine"} => InFlat(mdd, shared.flat))'
  BY <1>1, EndsUnchanged
<1>6. (step = "up" /\ ~changing => Quiet(mdd, at + 1))'
  BY <1>1, EndsUnchanged
<1>7. (step = "root" /\ ~changing => Quiet(mdd, 2))'
  BY <1>1, EndsUnchanged
<1>8. (step = "filtered" => Settled(mdd))'
  BY <1>1, EndsUnchanged
<1>9. (step = "complete" => refined = Characters)'
  BY DEF Filtering
<1> QED BY <1>2, <1>3, <1>4, <1>5, <1>6, <1>7, <1>8, <1>9 DEF EndPart

(* While the gap is open a filter does not end at once, and only that of   *)
(* an MDD of one level begins at the root.                                 *)
LEMMA FilterOpens ==
    ASSUME NEW M, IsDiagram(M), NEW u, lower < u, lower \in Nat, u \in Nat, BeginFilter(M, u)
    PROVE  /\ mdd' = M /\ step' \in {"root", "down"}
           /\ step' = "root" => Quiet(M, 2)
<1>1. ~(lower >= u)
  OBVIOUS
<1>2. mdd' = M /\ step' \in {"root", "down"} /\ (step' = "root" => Len(M.levels) = 1)
  BY <1>1 DEF BeginFilter
<1>3. Len(M.levels) = 1 => Quiet(M, 2)
  <2>1. \A j \in 2..1 : FALSE
    OBVIOUS
  <2> QED BY <2>1 DEF Quiet
<1> QED BY <1>2, <1>3

LEMMA SplitOpens ==
    ASSUME NEW M, IsDiagram(M), NEW c, lower < upper, lower \in Nat, upper \in Nat, BeginSplit(M, c)
    PROVE  /\ mdd' = M /\ step' \in {"root", "down", "split"}
           /\ step' = "root" => Quiet(M, 2)
<1>1. CASE Len(M.levels) = 1
  <2>1. BeginFilter(M, upper)
    BY <1>1 DEF BeginSplit
  <2>2. mdd' = M /\ step' \in {"root", "down"} /\ (step' = "root" => Quiet(M, 2))
    BY <2>1, FilterOpens
  <2> QED BY <2>2
<1>2. CASE Len(M.levels) # 1
  BY <1>2 DEF BeginSplit
<1> QED BY <1>1, <1>2

(* What the invariants say together while a filter runs.                   *)
LEMMA FilterEndFacts ==
    ASSUME MddInv, OptInv, EndInv, lower < opt, step \in Filtering
    PROVE  /\ EndPart /\ Fine(mdd) /\ IsDiagram(mdd) /\ step # "layout" /\ step # "graph"
           /\ Done(parent) /\ Done(work) /\ InFlat(work, shared.flat)
           /\ upper >= opt /\ lower < upper
<1>1. step # "layout" /\ step # "graph"
  BY DEF Filtering
<1>2. EndPart
  BY <1>1 DEF EndInv
<1>3. FactPart /\ BoundPart
  BY <1>1 DEF OptInv
<1>4. IsDiagram(mdd)
  BY DEF MddInv, MddPart
<1>5. Done(parent) /\ Done(work) /\ InFlat(work, shared.flat)
  BY <1>1, <1>2 DEF EndPart
<1>6. upper >= opt /\ lower < upper
  BY <1>3, OptFacts DEF BoundPart
<1>7. Fine(mdd)
  BY <1>3 DEF FactPart
<1> QED BY <1>1, <1>2, <1>4, <1>5, <1>6, <1>7

LEMMA FilterDownEnds ==
    ASSUME MddInv, OptInv, EndInv, FilterDown
    PROVE  EndInv'
<1> DEFINE N == DownVisit(mdd, at).mdd
<1>1. /\ step = "down" /\ mdd' = N /\ step' \in {"down", "up"} /\ shared'.flat = shared.flat
      /\ step' = "up" => at' = at /\ ~(at < Len(mdd.levels))
      /\ task' = task /\ parent' = parent /\ work' = work /\ UNCHANGED fixedVars
  BY DEF FilterDown, childVars, parentVars
<1>2. IsDiagram(mdd) /\ at \in 2..Len(mdd.levels) /\ step \in Filtering
  BY <1>1 DEF MddInv, MddPart, Filtering
<1>3. IsDiagram(N) /\ Smaller(N, mdd)
  BY <1>2, OptFacts, DownVisitDiagram
<1>4. ASSUME lower < opt
      PROVE  /\ task' # "trial" => Tight(N)
             /\ task' \in {"copy", "refine"} => InFlat(N, shared.flat)
             /\ step' = "up" => Quiet(N, at' + 1)
  <2>1. EndPart /\ Local(mdd)
    BY <1>2, <1>4, FilterEndFacts DEF Fine
  <2>2. Tight(mdd) => Tight(N)
    BY <1>2, <2>1, OptFacts, DownVisitTight
  <2>3. InFlat(mdd, shared.flat) => InFlat(N, shared.flat)
    BY <1>3, SmallerInFlat
  <2>4. ASSUME step' = "up" PROVE Quiet(N, at' + 1)
    <3>1. Len(N.levels) = Len(mdd.levels)
      BY <1>2, OptFacts, DownVisitDiagram
    <3>2. at' = Len(mdd.levels) /\ Len(mdd.levels) \in Nat
      BY <1>1, <1>2, <2>4, DiagramFacts
    <3>3. \A j \in (at' + 1)..Len(N.levels) : FALSE
      BY <3>1, <3>2
    <3> QED BY <3>3 DEF Quiet
  <2>5. task' # "trial" => Tight(N)
    BY <1>1, <2>1, <2>2 DEF EndPart
  <2>6. task' \in {"copy", "refine"} => InFlat(N, shared.flat)
    BY <1>1, <2>1, <2>3 DEF EndPart
  <2> QED BY <2>4, <2>5, <2>6
<1> HIDE DEF N
<1>5. step' \in Filtering /\ step' # "root" /\ step' # "filtered"
  BY <1>1 DEF Filtering
<1>6. lower < opt => Done(parent) /\ Done(work) /\ InFlat(work, shared.flat)
  BY <1>2, FilterEndFacts
<1> QED BY <1>1, <1>4, <1>5, <1>6, FilterEnds

LEMMA FilterUpEnds ==
    ASSUME MddInv, OptInv, EndInv, FilterUp
    PROVE  EndInv'
<1> DEFINE N == UpVisit(mdd, at).mdd
<1>1. /\ step = "up" /\ mdd' = N /\ step' \in {"up", "root"} /\ shared'.flat = shared.flat
      /\ changing' = (changing \/ UpVisit(mdd, at).changed)
      /\ step' = "up" => at' = at - 1
      /\ step' = "root" => ~(at > 2)
      /\ task' = task /\ parent' = parent /\ work' = work /\ UNCHANGED fixedVars
  BY DEF FilterUp, childVars, parentVars
<1>2. IsDiagram(mdd) /\ at \in 2..Len(mdd.levels) /\ step \in Filtering
  BY <1>1 DEF MddInv, MddPart, Filtering
<1>3. at \in 1..Len(mdd.levels)
  BY <1>2
<1>4. IsDiagram(N) /\ Smaller(N, mdd)
  BY <1>2, <1>3, OptFacts, UpVisitDiagram
<1>5. ASSUME lower < opt
      PROVE  /\ task' # "trial" => Tight(N)
             /\ task' \in {"copy", "refine"} => InFlat(N, shared.flat)
             /\ step' = "up" /\ ~changing' => Quiet(N, at' + 1)
             /\ step' = "root" /\ ~changing' => Quiet(N, 2)
  <2>1. EndPart /\ Local(mdd)
    BY <1>2, <1>5, FilterEndFacts DEF Fine
  <2>2. Tight(mdd) => Tight(N)
    BY <1>2, <1>3, <2>1, OptFacts, UpVisitTight
  <2>3. InFlat(mdd, shared.flat) => InFlat(N, shared.flat)
    BY <1>4, SmallerInFlat
  <2>4. ASSUME ~changing' PROVE Quiet(N, at)
    <3>1. ~changing /\ ~UpVisit(mdd, at).changed
      BY <1>1, <2>4
    <3>2. Quiet(mdd, at + 1)
      BY <1>1, <2>1, <3>1 DEF EndPart
    <3> QED BY <1>2, <1>3, <2>1, <3>1, <3>2, OptFacts, UpVisitQuiet
  <2>5. task' # "trial" => Tight(N)
    BY <1>1, <2>1, <2>2 DEF EndPart
  <2>6. task' \in {"copy", "refine"} => InFlat(N, shared.flat)
    BY <1>1, <2>1, <2>3 DEF EndPart
  <2>7. step' = "up" => at' + 1 = at
    BY <1>1, <1>2
  <2>8. step' = "root" => at = 2
    BY <1>1, <1>2
  <2> QED BY <2>4, <2>5, <2>6, <2>7, <2>8
<1> HIDE DEF N
<1>6. step' \in Filtering /\ step' # "filtered"
  BY <1>1 DEF Filtering
<1>7. lower < opt => Done(parent) /\ Done(work) /\ InFlat(work, shared.flat)
  BY <1>2, FilterEndFacts
<1> QED BY <1>1, <1>5, <1>6, <1>7, FilterEnds

(* When nothing has changed in a round, nothing is pending at its end.     *)
LEMMA FilterRootEnds ==
    ASSUME MddInv, OptInv, EndInv, FilterRoot
    PROVE  EndInv'
<1> DEFINE V == UpVisit(mdd, 1).mdd
           N == CutOff(V, upper')
           again == changing \/ UpVisit(mdd, 1).changed
<1>1. /\ step = "root" /\ mdd' = N /\ upper' = BoundBy(V) /\ step' \in {"root", "down", "filtered"}
      /\ task' = task /\ parent' = parent /\ work' = work /\ UNCHANGED fixedVars
  BY DEF FilterRoot, childVars, parentVars
<1>2. shared' = IF task \in {"forward", "backward"} THEN shared ELSE [shared EXCEPT !.upper = upper']
  BY DEF FilterRoot
<1>3. step' = "root" => Len(N.levels) = 1
  BY DEF FilterRoot
<1>4. step' = "filtered" => ~(lower < upper' /\ again)
  BY DEF FilterRoot
<1>5. IsDiagram(mdd) /\ SharedPart /\ step \in Filtering
  BY <1>1 DEF MddInv, MddPart, Filtering
<1>6. 1 \in 1..Len(mdd.levels)
  BY <1>5, OptFacts, DiagramFacts
<1>7. IsDiagram(V) /\ Smaller(V, mdd)
  BY <1>5, <1>6, OptFacts, UpVisitDiagram
<1>8. shared'.flat = shared.flat
  <2>1. task \notin {"forward", "backward"} => Published
    BY DEF Published
  <2> QED BY <1>2, <1>5, <2>1 DEF SharedPart
<1>9. ASSUME lower < opt
      PROVE  /\ task' # "trial" => Tight(N)
             /\ task' \in {"copy", "refine"} => InFlat(N, shared.flat)
             /\ step' = "root" => Quiet(N, 2)
             /\ step' = "filtered" => Settled(N)
  <2>1. EndPart /\ Fine(mdd) /\ Local(mdd)
    BY <1>5, <1>9, FilterEndFacts DEF Fine
  <2>2. upper' >= opt
    BY <1>1, <1>9, RootRound
  <2>3. upper' \in Nat /\ upper' + 1 <= Len(NonEmpty(V.levels))
    BY <1>1, <1>7, OptFacts, BoundByFacts
  <2>4. Tight(mdd) => Tight(V)
    BY <1>5, <1>6, <2>1, OptFacts, UpVisitTight
  <2>5. ASSUME ~again PROVE Quiet(V, 1)
    <3>1. Quiet(mdd, 1 + 1)
      BY <1>1, <2>1, <2>5 DEF EndPart
    <3>2. ~UpVisit(mdd, 1).changed
      BY <2>5
    <3> QED BY <1>5, <1>6, <2>1, <3>1, <3>2, OptFacts, UpVisitQuiet
  <2>6. PICK W : Keeps(V, W)
    <3>1. \E W : Keeps(mdd, W)
      BY <1>5, <1>9, FilteredKeeps
    <3> QED BY <1>5, <1>6, <1>9, <2>1, <3>1, OptFacts, UpVisitFine
  <2>7. Fine(V)
    BY <1>5, <1>6, <1>9, <2>1, OptFacts, UpVisitFine
  <2> HIDE DEF V
  <2>8. Tight(V) => Tight(N)
    BY <1>7, <2>3, OptFacts, CutOffTight
  <2>9. Quiet(V, 1) => Settled(N)
    <3>1. opt <= upper' /\ Aligned(V)
      BY <2>2, <2>3, <2>7, OptFacts DEF Fine
    <3> QED BY <1>7, <2>3, <2>6, <3>1, OptFacts, CutOffSettled
  <2>10. Smaller(N, V)
    BY <1>7, <2>3, OptFacts, CutOffDiagram
  <2>11. InFlat(mdd, shared.flat) => InFlat(N, shared.flat)
    <3>1. InFlat(mdd, shared.flat) => InFlat(V, shared.flat)
      BY <1>7, SmallerInFlat
    <3>2. InFlat(V, shared.flat) => InFlat(N, shared.flat)
      BY <2>10, SmallerInFlat
    <3> QED BY <3>1, <3>2
  <2>12. lower < upper'
    BY <1>9, <2>2, <2>3, OptFacts
  <2> HIDE DEF N, again
  <2>13. task' # "trial" => Tight(N)
    BY <1>1, <2>1, <2>4, <2>8 DEF EndPart
  <2>14. task' \in {"copy", "refine"} => InFlat(N, shared.flat)
    BY <1>1, <2>1, <2>11 DEF EndPart
  <2>15. step' = "root" => Quiet(N, 2)
    <3>1. \A j \in 2..1 : FALSE
      OBVIOUS
    <3> QED BY <1>3, <3>1 DEF Quiet
  <2>16. step' = "filtered" => Settled(N)
    BY <1>4, <2>5, <2>9, <2>12
  <2> QED BY <2>13, <2>14, <2>15, <2>16
<1> HIDE DEF N
<1>10. step' \in Filtering /\ step' # "up"
  BY <1>1 DEF Filtering
<1>11. lower < opt => Done(parent) /\ Done(work) /\ InFlat(work, shared.flat)
  BY <1>5, FilterEndFacts
<1> QED BY <1>1, <1>8, <1>9, <1>10, <1>11, FilterEnds

(* The gap is open while the lower bound is not optimal.                   *)
LEMMA GapIsOpen ==
    ASSUME MddInv, OptInv, lower < opt, step # "graph"
    PROVE  upper >= opt /\ lower < upper /\ lower \in Nat /\ upper \in Nat
<1>1. BoundPart
  BY DEF OptInv
<1>2. upper >= opt
  BY <1>1 DEF BoundPart
<1> QED BY <1>2, OptFacts

LEMMA StartForwardEnds ==
    ASSUME MddInv, OptInv, EndInv, StartForward
    PROVE  EndInv'
<1> DEFINE N == InitialMdd("forward", TRUE)
<1>1. /\ step = "graph" /\ pc = "done" /\ lower < upper /\ task' = "forward"
      /\ BeginFilter(N, upper)
      /\ UNCHANGED <<fixedVars, upper, childVars, parentVars, shared>>
  BY DEF StartForward
<1>2. /\ task = "forward" /\ strings \in Inputs /\ IInv /\ BoundedWhenDone
      /\ work = NoMdd /\ parent = NoMdd /\ lower \in Nat /\ upper \in Nat /\ upper \in 0..Sigma
  BY <1>1, OptFacts DEF MddInv, StepsFit, GraphPart, ParentPart, WorkPart, Filtering, Selecting
<1>3. GraphIsReduced
  BY <1>1, <1>2 DEF IInv, GraphOK, BoundedWhenDone, Bounded, GraphIsReduced
<1>4. "forward" \in Directions /\ TRUE \in BOOLEAN
  BY DEF Directions
<1>5. IsDiagram(N)
  BY <1>3, <1>4, InitialDiagram
<1>6. Tight(N)
  BY <1>3, <1>4, InitialTight
<1> HIDE DEF N
<1>7. mdd' = N /\ step' \in {"root", "down"} /\ (step' = "root" => Quiet(N, 2))
  BY <1>1, <1>2, <1>5, FilterOpens
<1>8. /\ parent' = NoMdd /\ work' = NoMdd /\ shared'.flat = shared.flat /\ UNCHANGED fixedVars
  BY <1>1, <1>2 DEF childVars, parentVars
<1>9. step' \in Filtering /\ step' # "up" /\ step' # "filtered" /\ task' \notin {"copy", "refine"}
  BY <1>1, <1>7 DEF Filtering
<1> QED BY <1>6, <1>7, <1>8, <1>9, NoMddDone, FilterEnds

LEMMA StartBackwardEnds ==
    ASSUME MddInv, OptInv, EndInv, StartBackward
    PROVE  EndInv'
<1> DEFINE N == InitialMdd("reverse", ~cached)
<1>1. /\ step = "filtered" /\ task = "forward" /\ task' = "backward" /\ parent' = mdd
      /\ BeginFilter(N, upper)
      /\ UNCHANGED <<fixedVars, upper, childVars, parentUpper, shared>>
  BY DEF StartBackward
<1>2. GraphIsFixed /\ work = NoMdd
  BY <1>1 DEF MddInv, GraphPart, WorkPart, Filtering, Selecting
<1>3. GraphIsReduced
  BY <1>2, OptFacts DEF GraphIsFixed, GraphIsReduced, Bounded
<1>4. "reverse" \in Directions /\ (~cached) \in BOOLEAN
  BY DEF Directions
<1>5. IsDiagram(N) /\ Tight(N)
  BY <1>3, <1>4, InitialDiagram, InitialTight
<1> HIDE DEF N
<1>6. mdd' = N /\ step' \in {"filtered", "root", "down"}
  BY <1>1, <1>5, FilterBegins
<1>7. /\ work' = NoMdd /\ shared'.flat = shared.flat /\ UNCHANGED fixedVars
  BY <1>1, <1>2 DEF childVars
<1>8. step' \in Filtering /\ step' # "up" /\ task' \notin {"copy", "refine"} /\ step \in Filtering
  BY <1>1, <1>6 DEF Filtering
<1>9. ASSUME lower < opt
      PROVE  Done(mdd) /\ step' # "filtered" /\ (step' = "root" => Quiet(N, 2))
  <2>1. Tight(mdd) /\ Settled(mdd)
    BY <1>1, <1>8, <1>9, FilterEndFacts DEF EndPart
  <2>2. step' \in {"root", "down"} /\ (step' = "root" => Quiet(N, 2))
    BY <1>1, <1>5, <1>9, GapIsOpen, FilterOpens
  <2> QED BY <2>1, <2>2 DEF Done
<1> QED BY <1>1, <1>5, <1>6, <1>7, <1>8, <1>9, NoMddDone, FilterEnds

LEMMA ChooseSideEnds ==
    ASSUME MddInv, OptInv, EndInv, ChooseSide
    PROVE  EndInv'
<1>1. /\ step = "filtered" /\ task = "backward" /\ step' = "rounds" /\ mdd' = NoMdd
      /\ parent' = IF Cardinality(MatchesIn(parent)) < Cardinality(MatchesIn(mdd)) THEN parent ELSE mdd
      /\ UNCHANGED <<fixedVars, task, childVars>>
  BY DEF ChooseSide
<1>2. work' = NoMdd /\ step \in Filtering
  BY <1>1 DEF MddInv, WorkPart, Filtering, Selecting, childVars
<1> DEFINE P == parent'
           flat == shared'.flat
<1>3. parent' = P /\ shared'.flat = flat /\ (P = parent \/ P = mdd)
  BY <1>1
<1>4. lower < opt => Done(parent) /\ Done(mdd)
  BY <1>1, <1>2, FilterEndFacts DEF EndPart, Done
<1>5. lower < opt => Done(P)
  BY <1>3, <1>4
<1>6. step' \notin Filtering /\ step' # "complete" /\ UNCHANGED fixedVars
  BY <1>1 DEF Filtering
<1> HIDE DEF P, flat
<1> QED BY <1>1, <1>2, <1>3, <1>5, <1>6, NoMddDone, IdleEnds

LEMMA ForkEnds ==
    ASSUME MddInv, OptInv, EndInv, Fork
    PROVE  EndInv'
<1> DEFINE N == PrunedByFlat(CopyOf(parent), shared.flat)
<1>1. /\ step = "rounds" /\ task' = "copy" /\ BeginFilter(N, upper)
      /\ UNCHANGED <<fixedVars, upper, childVars, parent, shared>>
  BY DEF Fork
<1>2. step \notin Filtering /\ step \notin Selecting /\ step # "graph"
  BY <1>1 DEF Filtering, Selecting
<1>3. Published
  BY <1>1, <1>2 DEF Published, MddInv, StepsFit
<1>4. IsDiagram(parent) /\ Plain(parent) /\ work = NoMdd /\ IsFlat(shared.flat, parent.side)
  BY <1>2, <1>3 DEF MddInv, ParentPart, WorkPart, SharedPart, Published
<1>5. Len(shared.flat) > 0 /\ Source(parent.side) \in shared.flat[1].matches
  BY <1>2, <1>3, PublishedFacts
<1>6. IsDiagram(CopyOf(parent)) /\ Within(CopyOf(parent), parent) /\ CopyOf(parent).side = parent.side
  <2>1. Within(parent, parent)
    BY <1>4, OptFacts, PlainWithin
  <2>2. IsDiagram(CopyOf(parent)) /\ Within(CopyOf(parent), parent)
    BY <1>4, <2>1, OptFacts, CopyWithin
  <2>3. CopyOf(parent).side = parent.side
    BY <1>4 DEF CopyOf, IsDiagram
  <2> QED BY <2>2, <2>3
<1>7. IsDiagram(N)
  BY <1>4, <1>6, OptFacts, PrunedWithin
<1>8. InFlat(N, shared.flat)
  BY <1>5, <1>6, OptFacts, PrunedInFlat
<1>9. ASSUME lower < opt PROVE Done(parent) /\ Tight(N)
  <2>1. Done(parent)
    BY <1>1, <1>9 DEF EndInv, EndPart
  <2>2. Tight(CopyOf(parent))
    BY <1>4, <2>1, OptFacts, CopyTight DEF Done
  <2>3. Tight(N)
    BY <1>5, <1>6, <2>2, OptFacts, PrunedTight
  <2> QED BY <2>1, <2>3
<1> HIDE DEF N
<1>10. mdd' = N /\ step' \in {"filtered", "root", "down"}
  BY <1>1, <1>7, FilterBegins
<1>11. lower < opt => step' # "filtered" /\ (step' = "root" => Quiet(N, 2))
  BY <1>1, <1>2, <1>7, GapIsOpen, FilterOpens
<1>12. /\ parent' = parent /\ work' = NoMdd /\ shared'.flat = shared.flat /\ UNCHANGED fixedVars
       /\ step' \in Filtering /\ step' # "up"
  BY <1>1, <1>4, <1>10 DEF childVars, Filtering
<1> QED BY <1>8, <1>9, <1>10, <1>11, <1>12, NoMddDone, FilterEnds

LEMMA ParentResumesEnds ==
    ASSUME MddInv, OptInv, EndInv, ParentResumes
    PROVE  EndInv'
<1> DEFINE N == PrunedByFlat(parent, shared.flat)
<1>1. /\ step = "merge" /\ upper' = Max({lower, Min({parentUpper, shared.upper})})
      /\ UNCHANGED <<fixedVars, childVars, parentVars, shared>>
  BY DEF ParentResumes
<1>2. \/ step' = "rounds" /\ UNCHANGED <<task, filterVars>> /\ lower >= upper'
      \/ task' = "parent" /\ BeginFilter(N, upper')
  BY DEF ParentResumes
<1>3. step \notin Filtering /\ step \notin Selecting /\ step # "graph"
  BY <1>1 DEF Filtering, Selecting
<1>4. Published
  BY <1>1, <1>3 DEF Published, MddInv, StepsFit
<1>5. /\ IsDiagram(parent) /\ Plain(parent) /\ mdd = NoMdd /\ work = NoMdd
      /\ IsFlat(shared.flat, parent.side)
      /\ lower \in 0..Sigma /\ parentUpper \in 0..Sigma /\ shared.upper \in 0..Sigma
  BY <1>3, <1>4 DEF MddInv, GraphPart, MddPart, ParentPart, WorkPart, SharedPart, Published
<1>6. Len(shared.flat) > 0 /\ Source(parent.side) \in shared.flat[1].matches
  BY <1>3, <1>4, PublishedFacts
<1>7. /\ parent' = parent /\ work' = NoMdd /\ shared'.flat = shared.flat /\ UNCHANGED fixedVars
  BY <1>1, <1>5 DEF childVars, parentVars
<1>8. lower < opt => Done(parent)
  BY <1>1 DEF EndInv, EndPart
<1>9. CASE step' = "rounds" /\ UNCHANGED <<task, filterVars>> /\ lower >= upper'
  <2>1. mdd' = NoMdd /\ step' \notin Filtering /\ step' # "complete"
    BY <1>5, <1>9 DEF filterVars, Filtering
  <2> QED BY <1>7, <1>8, <2>1, NoMddDone, IdleEnds
<1>10. CASE task' = "parent" /\ BeginFilter(N, upper')
  <2>1. IsDiagram(N)
    <3>1. Within(parent, parent)
      BY <1>5, OptFacts, PlainWithin
    <3> QED BY <1>5, <3>1, OptFacts, PrunedWithin
  <2>2. lower < opt => Tight(N)
    BY <1>5, <1>6, <1>8, OptFacts, PrunedTight DEF Done
  <2> HIDE DEF N
  <2>3. mdd' = N /\ step' \in {"filtered", "root", "down"}
    BY <1>10, <2>1, FilterBegins
  <2>4. ASSUME lower < opt PROVE step' # "filtered" /\ (step' = "root" => Quiet(N, 2))
    <3>1. upper' \in 0..Sigma
      BY <1>1, <1>5, MaxInRange
    <3>2. BoundPart
      BY <1>1, <2>4 DEF OptInv
    <3>3. parentUpper >= opt /\ shared.upper >= opt
      BY <1>1, <1>4, <3>2 DEF BoundPart
    <3>4. upper' >= opt
      BY <1>1, <1>5, <3>3, OptFacts, BoundsChosen
    <3>5. lower < upper' /\ lower \in Nat /\ upper' \in Nat
      BY <2>4, <3>1, <3>4, OptFacts
    <3> DEFINE u == upper'
    <3>6. u = upper'
      OBVIOUS
    <3> HIDE DEF u
    <3> QED BY <1>10, <2>1, <3>5, <3>6, FilterOpens
  <2>5. step' \in Filtering /\ step' # "up" /\ task' \notin {"copy", "refine"}
    BY <1>10, <2>3 DEF Filtering
  <2> QED BY <1>7, <1>8, <2>2, <2>3, <2>4, <2>5, NoMddDone, FilterEnds
<1> QED BY <1>2, <1>9, <1>10

LEMMA ParentLaysOutEnds ==
    ASSUME MddInv, OptInv, EndInv, ParentLaysOut
    PROVE  EndInv'
<1>1. /\ step = "filtered" /\ task = "parent" /\ parent' = mdd /\ step' = "rounds" /\ mdd' = NoMdd
      /\ UNCHANGED <<fixedVars, childVars>>
  BY DEF ParentLaysOut
<1>2. work' = NoMdd /\ step \in Filtering
  BY <1>1 DEF MddInv, WorkPart, Filtering, Selecting, childVars
<1>3. lower < opt => Done(mdd)
  BY <1>1, <1>2, FilterEndFacts DEF EndPart, Done
<1> DEFINE flat == shared'.flat
<1>4. shared'.flat = flat
  OBVIOUS
<1>5. step' \notin Filtering /\ step' # "complete" /\ UNCHANGED fixedVars
  BY <1>1 DEF Filtering
<1> HIDE DEF flat
<1> QED BY <1>1, <1>2, <1>3, <1>4, <1>5, NoMddDone, IdleEnds

LEMMA EndReductionEnds ==
    ASSUME MddInv, OptInv, EndInv, EndReduction
    PROVE  EndInv'
<1>1. /\ step = "rounds" /\ step' = "solver"
      /\ shared' = [shared EXCEPT !.complete = @ \/ lower >= upper]
      /\ UNCHANGED <<strings, lower, opt, task, filterVars, childVars, parentVars>>
  BY DEF EndReduction
<1>2. step \notin Filtering /\ step \notin Selecting /\ step # "layout" /\ step # "graph"
  BY <1>1 DEF Filtering, Selecting
<1>3. Published
  BY <1>1, <1>2 DEF Published, MddInv, StepsFit
<1>4. /\ strings' = strings /\ lower' = lower /\ opt' = opt /\ task' = task
      /\ mdd' = mdd /\ work' = work /\ parent' = parent /\ shared'.flat = shared.flat
  BY <1>1, <1>2, <1>3, PublishedFacts DEF filterVars, childVars, parentVars
<1>5. mdd = NoMdd
  BY <1>2 DEF MddInv, MddPart
<1> SUFFICES ASSUME lower < opt PROVE EndPart'
  BY <1>4 DEF EndInv
<1>6. EndPart
  BY <1>2 DEF EndInv
<1>7. (Done(parent) /\ Done(work) /\ InFlat(work, shared.flat))'
  BY <1>2, <1>4, <1>6, EndsUnchanged DEF EndPart
<1>8. (Tight(mdd) /\ InFlat(mdd, shared.flat))'
  BY <1>4, <1>5, NoMddDone, EndsUnchanged DEF Done
<1> QED BY <1>1, <1>7, <1>8 DEF EndPart

LEMMA ChildEndsEnds ==
    ASSUME EndInv, step # "graph", ChildEnds, UNCHANGED <<fixedVars, parentVars>>
    PROVE  EndInv'
<1>1. step' = "merge" /\ mdd' = NoMdd /\ work' = NoMdd
  BY DEF ChildEnds
<1> DEFINE flat == shared'.flat
<1>2. shared'.flat = flat
  OBVIOUS
<1>3. step' \notin Filtering /\ step' # "complete" /\ parent' = parent /\ UNCHANGED fixedVars
  BY <1>1 DEF Filtering, parentVars
<1>4. lower < opt => Done(parent)
  BY DEF EndInv, EndPart
<1> HIDE DEF flat
<1> QED BY <1>1, <1>2, <1>3, <1>4, NoMddDone, IdleEnds

LEMMA KillEnds ==
    ASSUME MddInv, OptInv, EndInv, Kill
    PROVE  EndInv'
<1>1. ChildRuns /\ ChildEnds /\ UNCHANGED <<fixedVars, parentVars>>
  BY DEF Kill
<1> QED BY <1>1, ChildFacts, ChildEndsEnds

(* The child goes on with what it had.                                     *)
LEMMA WorkStaysDone ==
    ASSUME EndInv, lower < opt, step # "graph", step # "layout"
    PROVE  Done(parent) /\ Done(work) /\ InFlat(work, shared.flat)
  BY DEF EndInv, EndPart

LEMMA CopyIsFilteredEnds ==
    ASSUME MddInv, OptInv, EndInv, CopyIsFiltered
    PROVE  EndInv'
<1>1. /\ step = "filtered" /\ task = "copy" /\ UNCHANGED <<fixedVars, parentVars>>
      /\ \/ ChildEnds
         \/ work' = mdd /\ step' = "select" /\ mdd' = NoMdd /\ shared' = shared
  BY DEF CopyIsFiltered
<1>2. step \in Filtering /\ step # "graph"
  BY <1>1 DEF Filtering
<1>3. CASE ChildEnds
  BY <1>1, <1>2, <1>3, ChildEndsEnds
<1>4. CASE work' = mdd /\ step' = "select" /\ mdd' = NoMdd /\ shared' = shared
  <2>1. step' \notin Filtering /\ step' # "complete" /\ parent' = parent /\ shared'.flat = shared.flat
        /\ UNCHANGED fixedVars
    BY <1>1, <1>4 DEF Filtering, parentVars
  <2>2. lower < opt => Done(parent) /\ Done(mdd) /\ InFlat(mdd, shared.flat)
    BY <1>1, <1>2, FilterEndFacts DEF EndPart, Done
  <2> QED BY <1>4, <2>1, <2>2, IdleEnds
<1> QED BY <1>1, <1>3, <1>4

LEMMA TryCharacterEnds ==
    ASSUME MddInv, OptInv, EndInv, TryCharacter
    PROVE  EndInv'
<1> DEFINE B == IF refined = {} THEN work ELSE selection
           N == CopyOf(B)
<1>1. /\ step = "select" /\ task' = "trial"
      /\ UNCHANGED <<fixedVars, upper, work, selection, refined, parentVars, shared>>
  BY DEF TryCharacter
<1>2. PICK c \in trying : BeginSplit(N, c)
  BY DEF TryCharacter
<1>3. step \in Selecting /\ step # "graph" /\ step # "layout"
  BY <1>1 DEF Selecting
<1>4. IsDiagram(B)
  BY <1>3 DEF MddInv, WorkPart, SelectionPart
<1> HIDE DEF B
<1>5. IsDiagram(N)
  BY <1>4, OptFacts, CopyDiagram
<1> HIDE DEF N
<1>6. mdd' = N /\ step' \in {"filtered", "root", "down", "split"}
  BY <1>2, <1>5, SplitBegins
<1>7. lower < opt => step' # "filtered" /\ (step' = "root" => Quiet(N, 2))
  BY <1>2, <1>3, <1>5, GapIsOpen, SplitOpens
<1>8. /\ parent' = parent /\ work' = work /\ shared'.flat = shared.flat /\ UNCHANGED fixedVars
      /\ step' \in Filtering /\ step' # "up"
  BY <1>1, <1>6 DEF parentVars, Filtering
<1>9. lower < opt => Done(parent) /\ Done(work) /\ InFlat(work, shared.flat)
  BY <1>3, WorkStaysDone
<1> QED BY <1>1, <1>6, <1>7, <1>8, <1>9, FilterEnds

LEMMA TrialIsOverEnds ==
    ASSUME MddInv, OptInv, EndInv, TrialIsOver
    PROVE  EndInv'
<1>1. /\ step = "filtered" /\ step' = "select" /\ mdd' = NoMdd
      /\ UNCHANGED <<fixedVars, childVars, parentVars, shared>>
  BY DEF TrialIsOver
<1>2. /\ parent' = parent /\ work' = work /\ shared'.flat = shared.flat /\ UNCHANGED fixedVars
      /\ step' \notin Filtering /\ step' # "complete" /\ step # "graph" /\ step # "layout"
  BY <1>1 DEF childVars, parentVars, Filtering
<1>3. lower < opt => Done(parent) /\ Done(work) /\ InFlat(work, shared.flat)
  BY <1>2, WorkStaysDone
<1> QED BY <1>1, <1>2, <1>3, IdleEnds

LEMMA RefineCharacterEnds ==
    ASSUME MddInv, OptInv, EndInv, RefineCharacter
    PROVE  EndInv'
<1>1. /\ step = "select" /\ task' = "refine" /\ work' = NoMdd
      /\ UNCHANGED <<fixedVars, upper, parentVars, shared>>
  BY DEF RefineCharacter
<1>2. PICK c \in Characters \ refined : BeginSplit(work, c)
  BY DEF RefineCharacter
<1>3. step \in Selecting /\ step # "graph" /\ step # "layout"
  BY <1>1 DEF Selecting
<1> DEFINE N == work
<1>4. IsDiagram(N)
  BY <1>3 DEF MddInv, WorkPart
<1>5. lower < opt => Done(parent) /\ Tight(N) /\ InFlat(N, shared.flat)
  BY <1>3, WorkStaysDone DEF Done
<1>6. BeginSplit(N, c)
  BY <1>2
<1> HIDE DEF N
<1>7. mdd' = N /\ step' \in {"filtered", "root", "down", "split"}
  BY <1>4, <1>6, SplitBegins
<1>8. lower < opt => step' # "filtered" /\ (step' = "root" => Quiet(N, 2))
  BY <1>3, <1>4, <1>6, GapIsOpen, SplitOpens
<1>9. /\ parent' = parent /\ shared'.flat = shared.flat /\ UNCHANGED fixedVars
      /\ step' \in Filtering /\ step' # "up"
  BY <1>1, <1>7 DEF parentVars, Filtering
<1> QED BY <1>1, <1>5, <1>7, <1>8, <1>9, NoMddDone, FilterEnds

LEMMA SplitNextLevelEnds ==
    ASSUME MddInv, OptInv, EndInv, SplitNextLevel
    PROVE  EndInv'
<1>1. step = "split" /\ UNCHANGED <<fixedVars, upper, task, childVars, parentVars, shared>>
  BY DEF SplitNextLevel
<1>2. PICK skipped \in SkippedArcs(mdd, at, split) :
          IF at = Len(mdd.levels) THEN BeginFilter(SplitLevel(mdd, at, split, skipped), upper)
          ELSE mdd' = SplitLevel(mdd, at, split, skipped) /\ at' = at + 1 /\ step' = step
  BY DEF SplitNextLevel
<1>3. step \in Filtering /\ step # "graph"
  BY <1>1 DEF Filtering
<1>4. IsDiagram(mdd) /\ at \in 2..Len(mdd.levels) /\ split \in Characters
  BY <1>1, <1>3 DEF MddInv, MddPart, SelectionPart
<1>5. Len(mdd.levels) \in Nat
  BY <1>4, OptFacts, DiagramFacts
<1>6. NotYet(mdd, at, split)
  <2>1. \A j \in at..Len(mdd.levels) : \A n \in mdd.levels[j] : split \notin n[3]
    BY <1>1 DEF OptInv, NamePart
  <2> QED BY <1>4, <1>5, <2>1 DEF NotYet
<1> DEFINE N == SplitLevel(mdd, at, split, skipped)
<1>7. IsDiagram(N)
  BY <1>4, OptFacts, SplitDiagram
<1>8. Tight(mdd) => Tight(N)
  BY <1>4, <1>6, OptFacts, SplitTight
<1>9. InFlat(mdd, shared.flat) => InFlat(N, shared.flat)
  BY <1>4, <1>6, OptFacts, SplitInFlat
<1>10. IF at = Len(mdd.levels) THEN BeginFilter(N, upper) ELSE mdd' = N /\ step' = step
  BY <1>2
<1> HIDE DEF N
<1>11. mdd' = N /\ step' \in {"filtered", "root", "down", "split"}
  <2>1. BeginFilter(N, upper) => mdd' = N /\ step' \in {"filtered", "root", "down"}
    BY <1>7, FilterBegins
  <2> QED BY <1>1, <1>10, <2>1
<1>12. ASSUME lower < opt PROVE step' # "filtered" /\ (step' = "root" => Quiet(N, 2))
  <2>1. BeginFilter(N, upper) => step' \in {"root", "down"} /\ (step' = "root" => Quiet(N, 2))
    BY <1>3, <1>7, <1>12, GapIsOpen, FilterOpens
  <2> QED BY <1>1, <1>10, <2>1
<1>13. /\ task' = task /\ parent' = parent /\ work' = work /\ shared'.flat = shared.flat /\ UNCHANGED fixedVars
       /\ step' \in Filtering /\ step' # "up"
  BY <1>1, <1>11 DEF childVars, parentVars, Filtering
<1>14. lower < opt => /\ Done(parent) /\ Done(work) /\ InFlat(work, shared.flat)
                      /\ task' # "trial" => Tight(N)
                      /\ task' \in {"copy", "refine"} => InFlat(N, shared.flat)
  BY <1>3, <1>8, <1>9, <1>13, FilterEndFacts DEF EndPart
<1> QED BY <1>11, <1>12, <1>13, <1>14, FilterEnds

LEMMA ReportRefinedEnds ==
    ASSUME MddInv, OptInv, EndInv, ReportRefined
    PROVE  EndInv'
<1>1. /\ step = "filtered" /\ task = "refine" /\ step' = "next" /\ work' = mdd /\ mdd' = NoMdd
      /\ UNCHANGED <<fixedVars, parentVars>>
  BY DEF ReportRefined
<1>2. PICK n \in mdd.levels[Len(mdd.levels)] :
          shared' = [shared EXCEPT !.upper = BottomBound(@, mdd, n), !.flat = StillInFlat(@, mdd)]
  BY DEF ReportRefined
<1>3. ChildRuns /\ step \in Filtering
  BY <1>1 DEF ChildRuns, Filtering
<1>4. IsDiagram(mdd)
  BY <1>3 DEF MddInv, MddPart
<1> DEFINE flat == StillInFlat(shared.flat, mdd)
<1>5. shared'.flat = flat
  BY <1>2, <1>3, ChildFacts, PublishedFacts
<1>6. ASSUME lower < opt PROVE Done(parent) /\ Done(mdd) /\ InFlat(mdd, flat)
  <2>1. EndPart /\ Aligned(mdd)
    BY <1>3, <1>6, FilterEndFacts DEF Fine
  <2>2. Done(parent) /\ Done(mdd) /\ InFlat(mdd, shared.flat)
    BY <1>1, <2>1 DEF EndPart, Done
  <2> QED BY <1>4, <2>1, <2>2, OptFacts, StillFlat
<1> HIDE DEF flat
<1>7. step' \notin Filtering /\ step' # "complete" /\ parent' = parent /\ UNCHANGED fixedVars
  BY <1>1 DEF parentVars, Filtering
<1> QED BY <1>1, <1>5, <1>6, <1>7, IdleEnds

LEMMA NextCharacterEnds ==
    ASSUME MddInv, OptInv, EndInv, NextCharacter
    PROVE  EndInv'
<1>1. /\ step = "next" /\ step' = "select"
      /\ UNCHANGED <<fixedVars, filterVars, work, parentVars, shared>>
  BY DEF NextCharacter
<1>2. step \notin Filtering /\ step' \notin Filtering /\ step' # "complete" /\ step # "graph" /\ step # "layout"
  BY <1>1 DEF Filtering
<1>3. mdd' = NoMdd
  BY <1>1, <1>2 DEF MddInv, MddPart, filterVars
<1>4. parent' = parent /\ work' = work /\ shared'.flat = shared.flat /\ UNCHANGED fixedVars
  BY <1>1 DEF parentVars
<1>5. lower < opt => Done(parent) /\ Done(work) /\ InFlat(work, shared.flat)
  BY <1>2, WorkStaysDone
<1> QED BY <1>2, <1>3, <1>4, <1>5, IdleEnds

(* A child is complete while the gap is open only when all characters are  *)
(* refined.                                                                *)
LEMMA MarkCompleteEnds ==
    ASSUME MddInv, OptInv, EndInv, MarkComplete
    PROVE  EndInv'
<1>1. /\ step = "next" /\ step' = "complete" /\ (lower >= shared.upper \/ refined = Characters)
      /\ shared' = [shared EXCEPT !.complete = TRUE]
      /\ UNCHANGED <<fixedVars, filterVars, childVars, parentVars>>
  BY DEF MarkComplete
<1>2. ChildRuns /\ step \notin Filtering /\ step' \notin Filtering /\ step # "graph" /\ step # "layout"
  BY <1>1 DEF ChildRuns, Filtering
<1>3. mdd' = NoMdd
  BY <1>1, <1>2 DEF MddInv, MddPart, filterVars
<1>4. shared'.flat = shared.flat
  BY <1>1, <1>2, ChildFacts, PublishedFacts
<1>5. parent' = parent /\ work' = work /\ refined' = refined /\ UNCHANGED fixedVars
  BY <1>1 DEF childVars, parentVars
<1>6. ASSUME lower < opt PROVE refined' = Characters
  <2>1. shared.upper >= opt
    BY <1>2, <1>6, ChildFacts
  <2>2. shared.upper \in Int
    BY <1>2, ChildFacts DEF MddInv, SharedPart
  <2>3. ~(lower >= shared.upper)
    BY <1>6, <2>1, <2>2, OptFacts
  <2> QED BY <1>1, <1>5, <2>3
<1>7. lower < opt => Done(parent) /\ Done(work) /\ InFlat(work, shared.flat)
  BY <1>2, WorkStaysDone
<1> QED BY <1>2, <1>3, <1>4, <1>5, <1>6, <1>7, IdleEnds

LEMMA KeepOnlyOneEnds ==
    ASSUME MddInv, OptInv, EndInv, KeepOnlyOne
    PROVE  EndInv'
<1>1. /\ step = "complete" /\ step' = "layout" /\ UNCHANGED <<fixedVars, filterVars, parentVars>>
  BY DEF KeepOnlyOne
<1>2. step \notin Filtering /\ step' \notin Filtering /\ step # "graph" /\ step # "layout"
  BY <1>1 DEF Filtering
<1>3. mdd' = NoMdd
  BY <1>1, <1>2 DEF MddInv, MddPart, filterVars
<1> DEFINE flat == shared'.flat
           X == work'
<1>4. parent' = parent /\ work' = X /\ shared'.flat = flat /\ UNCHANGED fixedVars
  BY <1>1 DEF parentVars
<1>5. lower < opt => Done(parent)
  BY <1>2, WorkStaysDone
<1> HIDE DEF flat, X
<1> QED BY <1>1, <1>2, <1>3, <1>4, <1>5, IdleEnds

LEMMA LayOutEnds ==
    ASSUME MddInv, OptInv, EndInv, LayOut
    PROVE  EndInv'
<1>1. step = "layout" /\ ChildEnds /\ UNCHANGED <<fixedVars, parentVars>>
  BY DEF LayOut
<1> QED BY <1>1, ChildEndsEnds

LEMMA GraphStepEnds ==
    ASSUME GraphStep
    PROVE  EndInv'
<1>1. step' = "graph"
  BY DEF GraphStep, mddVars
<1> QED BY <1>1 DEF EndInv

LEMMA StutterEnds ==
    ASSUME EndInv, UNCHANGED <<vars, mddVars>>
    PROVE  EndInv'
<1>1. /\ strings' = strings /\ lower' = lower /\ opt' = opt /\ step' = step /\ task' = task /\ parent' = parent
      /\ mdd' = mdd /\ work' = work /\ shared' = shared /\ at' = at /\ changing' = changing /\ refined' = refined
  BY DEF vars, mddVars, filterVars, childVars, parentVars
<1> SUFFICES ASSUME step # "graph", lower < opt PROVE EndPart'
  BY <1>1 DEF EndInv
<1>2. EndPart
  BY DEF EndInv
<1>3. (Done(parent) /\ (step # "layout" => Done(work) /\ InFlat(work, shared.flat)))'
  BY <1>1, <1>2, EndsUnchanged DEF EndPart
<1>4. ((task # "trial" => Tight(mdd)) /\ (task \in {"copy", "refine"} => InFlat(mdd, shared.flat)))'
  BY <1>1, <1>2, EndsUnchanged DEF EndPart
<1>5. (step = "up" /\ ~changing => Quiet(mdd, at + 1))' /\ (step = "root" /\ ~changing => Quiet(mdd, 2))'
  BY <1>1, <1>2, EndsUnchanged DEF EndPart
<1>6. (step = "filtered" => Settled(mdd))' /\ (step = "complete" => refined = Characters)'
  BY <1>1, <1>2, EndsUnchanged DEF EndPart
<1> QED BY <1>3, <1>4, <1>5, <1>6 DEF EndPart

(* Every step keeps the child on its way to its last step.                 *)
LEMMA EndStep ==
    ASSUME MddInv, OptInv, EndInv, [MddNext]_<<vars, mddVars>>
    PROVE  EndInv'
<1>1. CASE GraphStep
  BY <1>1, GraphStepEnds
<1>2. CASE FilterDown \/ FilterUp \/ FilterRoot
  BY <1>2, FilterDownEnds, FilterUpEnds, FilterRootEnds
<1>3. CASE StartForward \/ StartBackward \/ ChooseSide
  BY <1>3, StartForwardEnds, StartBackwardEnds, ChooseSideEnds
<1>4. CASE Fork \/ ParentResumes \/ ParentLaysOut \/ EndReduction
  BY <1>4, ForkEnds, ParentResumesEnds, ParentLaysOutEnds, EndReductionEnds
<1>5. CASE CopyIsFiltered \/ TryCharacter \/ TrialIsOver \/ RefineCharacter
  BY <1>5, CopyIsFilteredEnds, TryCharacterEnds, TrialIsOverEnds, RefineCharacterEnds
<1>6. CASE SplitNextLevel \/ ReportRefined \/ NextCharacter \/ MarkComplete
  BY <1>6, SplitNextLevelEnds, ReportRefinedEnds, NextCharacterEnds, MarkCompleteEnds
<1>7. CASE KeepOnlyOne \/ LayOut \/ Kill
  BY <1>7, KeepOnlyOneEnds, LayOutEnds, KillEnds
<1>8. CASE UNCHANGED <<vars, mddVars>>
  BY <1>8, StutterEnds
<1> QED BY <1>1, <1>2, <1>3, <1>4, <1>5, <1>6, <1>7, <1>8 DEF MddNext, ChildNext

-----------------------------------------------------------------------------
(* The one solution that a complete child keeps.                           *)

(* A walk from best successor to best successor, which has k steps or ends *)
(* where there is no successor.                                            *)
Greedy(M, q, k) ==
    /\ q \in Walks(M)
    /\ \A i \in 1..(Len(q) - 1) : q[i + 1] \in BestSuccs(M, q[i])
    /\ Len(q) = k + 1 \/ (Len(q) <= k + 1 /\ Succs(M, q[Len(q)]) = {})

LEMMA GreedyGoesOn ==
    ASSUME strings \in Inputs, NEW M, IsDiagram(M), NEW k \in Nat \ {0}, NEW q, Greedy(M, q, k - 1),
           NEW x \in GoneOn(M, q)
    PROVE  Greedy(M, x, k)
<1>1. /\ q \in Walks(M) /\ q \in Seq(NodesOf(M)) /\ Len(q) \in Nat /\ Len(q) >= 1
      /\ \A i \in 1..(Len(q) - 1) : q[i + 1] \in BestSuccs(M, q[i])
      /\ Len(q) = k \/ (Len(q) <= k /\ Succs(M, q[Len(q)]) = {})
  BY DEF Greedy, Walks
<1>2. CASE Succs(M, q[Len(q)]) = {}
  <2>1. x = q
    BY <1>2 DEF GoneOn
  <2> QED BY <1>1, <1>2, <2>1 DEF Greedy
<1>3. CASE Succs(M, q[Len(q)]) # {}
  <2>1. PICK s \in BestSuccs(M, q[Len(q)]) : x = Append(q, s)
    BY <1>3 DEF GoneOn
  <2>2. s \in Succs(M, q[Len(q)])
    BY <2>1 DEF BestSuccs
  <2>3. x \in Walks(M)
    BY <1>1, <2>1, <2>2, WalkGoesOn
  <2>4. Len(q) = k
    BY <1>1, <1>3
  <2>5. Len(x) = k + 1 /\ x[k + 1] = s /\ \A i \in 1..k : x[i] = q[i]
    BY <1>1, <2>1, <2>4
  <2>6. \A i \in 1..(Len(x) - 1) : x[i + 1] \in BestSuccs(M, x[i])
    <3> SUFFICES ASSUME NEW i \in 1..k PROVE x[i + 1] \in BestSuccs(M, x[i])
      BY <2>5
    <3>1. CASE i = k
      BY <2>1, <2>4, <2>5, <3>1
    <3>2. CASE i # k
      <4>1. i \in 1..(Len(q) - 1) /\ i + 1 \in 1..k
        BY <2>4, <3>2
      <4> QED BY <1>1, <2>5, <4>1
    <3> QED BY <3>1, <3>2
  <2> QED BY <2>3, <2>5, <2>6 DEF Greedy
<1> QED BY <1>2, <1>3

LEMMA GreedyPathsAre ==
    ASSUME strings \in Inputs, NEW M, IsDiagram(M), NEW q \in GreedyPaths(M)
    PROVE  Greedy(M, q, Sigma)
<1> DEFINE P == [k \in 0..Sigma |-> {x \in Walks(M) : Greedy(M, x, k)}]
<1>1. Sigma \in Nat
  BY CharactersFinite
<1>2. <<RootNode(M.side)>> \in P[0]
  <2> DEFINE r == <<RootNode(M.side)>>
  <2>1. RootNode(M.side) \in NodesOf(M) /\ DepthOf(RootNode(M.side)) = 0
    BY DiagramFacts DEF RootNode, DepthOf
  <2>2. r \in Walks(M)
    BY <2>1, OneStepWalk
  <2>3. Len(r) = 0 + 1 /\ \A i \in 1..(Len(r) - 1) : FALSE
    OBVIOUS
  <2> HIDE DEF r
  <2>4. Greedy(M, r, 0)
    BY <2>2, <2>3 DEF Greedy
  <2> QED BY <1>1, <2>2, <2>4 DEF r
<1>3. ASSUME NEW k \in 1..Sigma, NEW x \in P[k - 1] PROVE GoneOn(M, x) \subseteq P[k]
  <2>1. k - 1 \in 0..Sigma /\ k \in 0..Sigma /\ k \in Nat \ {0}
    BY <1>1
  <2>2. Greedy(M, x, k - 1)
    BY <2>1
  <2>3. \A y \in GoneOn(M, x) : Greedy(M, y, k)
    BY <2>1, <2>2, GreedyGoesOn
  <2>4. \A y : Greedy(M, y, k) => y \in Walks(M)
    BY DEF Greedy
  <2> QED BY <2>1, <2>3, <2>4
<1>4. P[Sigma] = {x \in Walks(M) : Greedy(M, x, Sigma)}
  BY <1>1
<1> HIDE DEF P
<1>5. GreedyPaths(M) \subseteq P[Sigma]
  BY <1>2, <1>3, GreedyInduction
<1> QED BY <1>4, <1>5

(* No path can be lengthened by a character that it has.                   *)
NeverRepeats(M) ==
    \A k \in 0..(Sigma - 1) : \A q : IsFree(M, q, k) =>
       \A s \in Succs(M, q[k + 1]) : Letter(s) \notin Passed(q, k + 1)

(* The first nodes of a walk.                                              *)
First(q, k) == [i \in 1..(k + 1) |-> q[i]]

LEMMA WalkIsFree ==
    ASSUME strings \in Inputs, NEW M, IsDiagram(M), NEW k \in Nat, NEW q \in Walks(M), Len(q) >= k + 2,
           IsFree(M, First(q, k), k), q[k + 2] \in Succs(M, q[k + 1]),
           Letter(q[k + 2]) \notin Passed(First(q, k), k + 1)
    PROVE  IsFree(M, First(q, k + 1), k + 1)
<1> DEFINE p == First(q, k)
           r == First(q, k + 1)
<1>1. q \in Seq(NodesOf(M)) /\ Len(q) \in Nat
  BY DEF Walks
<1>2. \A i \in 1..(k + 2) : q[i] \in NodesOf(M)
  BY <1>1
<1>3. r \in [1..((k + 1) + 1) -> NodesOf(M)] /\ \A i \in 1..(k + 2) : r[i] = q[i]
  BY <1>2 DEF First
<1>4. \A i \in 1..(k + 1) : p[i] = q[i]
  BY DEF First
<1>5. /\ p[1] = RootNode(M.side) /\ \A i \in 1..k : <<p[i], p[i + 1]>> \in M.arcs
      /\ \A i, j \in 2..(k + 1) : Letter(p[i]) = Letter(p[j]) => i = j
  BY DEF IsFree
<1>6. \A j \in 2..(k + 1) : Letter(p[j]) # Letter(q[k + 2])
  BY DEF Passed, Part
<1>7. <<q[k + 1], q[k + 2]>> \in M.arcs
  BY SuccArcs
<1> HIDE DEF p, r
<1>8. \A i \in 1..(k + 1) : <<r[i], r[i + 1]>> \in M.arcs
  <2> TAKE i \in 1..(k + 1)
  <2>1. CASE i = k + 1
    <3>1. r[i] = q[k + 1] /\ r[i + 1] = q[k + 2]
      BY <1>3, <2>1
    <3> QED BY <1>7, <3>1
  <2>2. CASE i # k + 1
    <3>1. i \in 1..k /\ i + 1 \in 1..(k + 1) /\ i \in 1..(k + 1) /\ i \in 1..(k + 2) /\ i + 1 \in 1..(k + 2)
      BY <2>2
    <3>2. r[i] = p[i] /\ r[i + 1] = p[i + 1]
      BY <1>3, <1>4, <3>1
    <3> QED BY <1>5, <3>1, <3>2
  <2> QED BY <2>1, <2>2
<1>9. \A i, j \in 2..((k + 1) + 1) : Letter(r[i]) = Letter(r[j]) => i = j
  <2> SUFFICES ASSUME NEW i \in 2..((k + 1) + 1), NEW j \in 2..((k + 1) + 1), Letter(r[i]) = Letter(r[j]), i # j
               PROVE  FALSE
    OBVIOUS
  <2>0. \A l \in 2..(k + 1) : r[l] = p[l]
    BY <1>3, <1>4
  <2>1. r[k + 2] = q[k + 2]
    BY <1>3
  <2>2. CASE i = k + 2
    <3>1. j \in 2..(k + 1)
      BY <2>2
    <3> QED BY <1>6, <2>0, <2>1, <2>2, <3>1
  <2>3. CASE j = k + 2
    <3>1. i \in 2..(k + 1)
      BY <2>3
    <3> QED BY <1>6, <2>0, <2>1, <2>3, <3>1
  <2>4. CASE i # k + 2 /\ j # k + 2
    <3>1. i \in 2..(k + 1) /\ j \in 2..(k + 1)
      BY <2>4
    <3> QED BY <1>5, <2>0, <3>1
  <2> QED BY <2>2, <2>3, <2>4
<1>10. r[1] = RootNode(M.side)
  <2>1. 1 \in 1..(k + 1) /\ 1 \in 1..(k + 2)
    OBVIOUS
  <2> QED BY <1>3, <1>4, <1>5, <2>1
<1> QED BY <1>3, <1>8, <1>9, <1>10 DEF IsFree, r

(* The greedy path follows a bound that no node on it falls short of, and  *)
(* gets as far as the longest solutions.                                   *)
LEMMA GreedyReaches ==
    ASSUME strings \in Inputs, lower \in Nat, opt \in 0..Sigma, lower < opt, NEW M, IsDiagram(M),
           Fine(M), Done(M), NeverRepeats(M), NEW V, Keeps(M, V), NEW q \in GreedyPaths(M)
    PROVE  Len(q) >= opt + 1 /\ IsFree(M, First(q, opt), opt)
<1>1. Sigma \in Nat /\ opt \in Nat /\ opt <= Sigma /\ opt >= 1
  BY CharactersFinite
<1>2. /\ q \in Walks(M) /\ q \in Seq(NodesOf(M)) /\ Len(q) \in Nat /\ Len(q) >= 1 /\ q[1] = RootNode(M.side)
      /\ \A i \in 1..Len(q) : DepthOf(q[i]) = i - 1
      /\ \A i \in 1..(Len(q) - 1) : q[i + 1] \in BestSuccs(M, q[i])
      /\ Len(q) = Sigma + 1 \/ (Len(q) <= Sigma + 1 /\ Succs(M, q[Len(q)]) = {})
  <2>1. Greedy(M, q, Sigma)
    BY GreedyPathsAre
  <2>2. /\ q \in Walks(M)
        /\ \A i \in 1..(Len(q) - 1) : q[i + 1] \in BestSuccs(M, q[i])
        /\ Len(q) = Sigma + 1 \/ (Len(q) <= Sigma + 1 /\ Succs(M, q[Len(q)]) = {})
    BY <2>1 DEF Greedy
  <2>3. /\ q \in Seq(NodesOf(M)) /\ Len(q) \in Nat /\ Len(q) >= 1 /\ q[1] = RootNode(M.side)
        /\ \A i \in 1..Len(q) : DepthOf(q[i]) = i - 1
    BY <2>2 DEF Walks
  <2> QED BY <2>2, <2>3
<1>3. \A n \in NodesOf(M) : M.facts[n].ub \in Nat
  BY DEF IsDiagram, Known
<1> DEFINE Good(k) == /\ Len(q) >= k + 1 /\ IsFree(M, First(q, k), k)
                      /\ k >= 1 => M.facts[q[k + 1]].ub >= opt - k
<1>4. Good(0)
  <2>1. First(q, 0) \in [1..(0 + 1) -> NodesOf(M)] /\ First(q, 0)[1] = RootNode(M.side)
    BY <1>2 DEF First
  <2>2. \A i, j \in 2..(0 + 1) : FALSE
    OBVIOUS
  <2>3. IsFree(M, First(q, 0), 0)
    BY <2>1, <2>2 DEF IsFree
  <2> QED BY <1>2, <2>3
<1>5. ASSUME NEW k \in 0..(opt - 1), Good(k) PROVE Good(k + 1)
  <2>1. k \in Nat /\ k < opt /\ Len(q) >= k + 1 /\ k + 1 \in 1..Len(q) /\ k \in 0..(Sigma - 1)
    BY <1>1, <1>2, <1>5
  <2> DEFINE n == q[k + 1]
  <2>2. n \in NodesOf(M) /\ DepthOf(n) = k
    <3>1. DepthOf(q[k + 1]) = (k + 1) - 1
      BY <1>2, <2>1
    <3> QED BY <1>2, <2>1, <3>1
  <2>3. \E s \in Succs(M, n) : M.facts[s].ub >= opt - (k + 1)
    <3>1. CASE k = 0
      <4>1. PICK r : Way(M, r, V)
        BY DEF Keeps
      <4>2. IsFree(M, r, opt)
        BY <4>1 DEF Way
      <4>3. 1 \in 1..opt /\ 2 \in 1..(opt + 1) /\ opt \in (lower + 1)..Sigma
        BY <1>1
      <4>4. r[1] = RootNode(M.side) /\ r[1 + 1] \in Succs(M, r[1])
        BY <1>1, <4>2, <4>3, PathFacts
      <4>5. Knows(M.facts[r[2]], r, 2, opt)
        BY <4>2, <4>3 DEF Fine, Sound
      <4>6. M.facts[r[2]].ub >= opt + 1 - 2
        BY <4>5 DEF Knows, Holds
      <4>7. r[2] \in Succs(M, n)
        BY <1>2, <3>1, <4>4
      <4>8. M.facts[r[2]].ub >= opt - (k + 1)
        BY <1>1, <3>1, <4>6
      <4> QED BY <4>7, <4>8
    <3>2. CASE k # 0
      <4>1. n # RootNode(M.side)
        BY <2>1, <2>2, <3>2 DEF RootNode, DepthOf
      <4>2. ~M.facts[n].needSucc
        BY <2>1, <2>2 DEF Done, Settled
      <4>3. Reaching(M, n)
        BY <2>1, <2>2, <4>1, <4>2 DEF Done, Tight
      <4>4. M.facts[n].ub >= opt - k /\ M.facts[n].ub \in Nat
        BY <1>3, <1>5, <2>1, <2>2, <3>2
      <4>5. M.facts[n].ub # 0
        BY <1>1, <2>1, <4>4
      <4>6. PICK s \in Succs(M, n) : M.facts[n].ub <= M.facts[s].ub + 1
        BY <4>3, <4>5 DEF Reaching
      <4>7. M.facts[s].ub \in Nat
        BY <1>3, <2>2, <4>6, DiagramFacts
      <4>8. \A a, b \in Nat : a >= opt - k /\ a <= b + 1 => b >= opt - (k + 1)
        BY <1>1, <2>1
      <4>9. M.facts[s].ub >= opt - (k + 1)
        <5> HIDE DEF n
        <5> QED BY <4>4, <4>6, <4>7, <4>8
      <4> QED BY <4>6, <4>9
    <3> QED BY <3>1, <3>2
  <2>4. Len(q) >= k + 2
    <3>1. Len(q) # k + 1
      <4> SUFFICES ASSUME Len(q) = k + 1 PROVE FALSE
        OBVIOUS
      <4>1. Succs(M, q[Len(q)]) # {}
        BY <2>3
      <4> QED BY <1>1, <1>2, <2>1, <4>1
    <3> QED BY <1>2, <2>1, <3>1
  <2>5. q[k + 2] \in BestSuccs(M, n)
    <3>1. k + 1 \in 1..(Len(q) - 1) /\ (k + 1) + 1 = k + 2
      BY <1>2, <2>1, <2>4
    <3>2. q[(k + 1) + 1] \in BestSuccs(M, q[k + 1])
      BY <1>2, <3>1
    <3> QED BY <3>1, <3>2
  <2>6. q[k + 2] \in Succs(M, n) /\ \A t \in Succs(M, n) : M.facts[t].ub <= M.facts[q[k + 2]].ub
    BY <2>5 DEF BestSuccs
  <2>7. M.facts[q[k + 2]].ub >= opt - (k + 1)
    <3>1. \A t \in Succs(M, n) : M.facts[t].ub \in Nat
      BY <1>3, <2>2, DiagramFacts
    <3> HIDE DEF n
    <3>2. PICK s \in Succs(M, n) : M.facts[s].ub >= opt - (k + 1)
      BY <2>3
    <3>3. M.facts[s].ub <= M.facts[q[k + 2]].ub /\ M.facts[s].ub \in Nat /\ M.facts[q[k + 2]].ub \in Nat
      BY <2>6, <3>1
    <3>4. opt - (k + 1) \in Int
      BY <1>1, <2>1
    <3> QED BY <3>2, <3>3, <3>4
  <2>8. Letter(q[k + 2]) \notin Passed(First(q, k), k + 1)
    <3>1. First(q, k)[k + 1] = n
      BY <2>1 DEF First
    <3>2. IsFree(M, First(q, k), k)
      BY <1>5
    <3> QED BY <2>1, <2>6, <3>1, <3>2 DEF NeverRepeats
  <2>9. IsFree(M, First(q, k + 1), k + 1)
    BY <1>2, <1>5, <2>1, <2>4, <2>6, <2>8, WalkIsFree
  <2>10. (k + 1) + 1 = k + 2
    BY <2>1
  <2> HIDE DEF n
  <2> QED BY <2>1, <2>4, <2>7, <2>9, <2>10
<1> DEFINE T == {k \in 0..opt : ~Good(k)}
<1>6. T = {}
  <2> HIDE DEF Good
  <2> SUFFICES ASSUME T # {} PROVE FALSE
    OBVIOUS
  <2>1. T \subseteq Nat
    BY <1>1
  <2>2. PICK k \in T : \A j \in T : k <= j
    <3> HIDE DEF T
    <3> QED BY <2>1, LeastNumber
  <2>3. k # 0 /\ k \in Nat /\ k <= opt
    BY <1>1, <1>4, <2>2
  <2>4. k - 1 \in 0..(opt - 1) /\ k - 1 \in 0..opt /\ k - 1 \notin T /\ (k - 1) + 1 = k
    BY <1>1, <2>1, <2>2, <2>3
  <2>5. Good(k - 1)
    BY <2>4
  <2>6. Good(k)
    BY <1>5, <2>4, <2>5
  <2> QED BY <2>2, <2>6
<1>7. opt \in 0..opt
  BY <1>1
<1>8. Good(opt)
  <2> HIDE DEF Good
  <2> QED BY <1>6, <1>7
<1> QED BY <1>8

(* What an MDD is without some of its nodes.                                *)
LEMMA WithoutNodes ==
    ASSUME NEW M, IsDiagram(M), NEW gone, RootNode(M.side) \notin gone, NEW N, N = Detached(M, gone, {})
    PROVE  /\ N.side = M.side /\ Len(N.levels) = Len(M.levels)
           /\ \A i \in 1..Len(M.levels) : N.levels[i] = M.levels[i] \ gone
           /\ NodesOf(N) = NodesOf(M) \ gone
           /\ \A a \in M.arcs : a[1] \notin gone /\ a[2] \notin gone => a \in N.arcs
           /\ \A n \in NodesOf(N) : SameKnown(N.facts[n], M.facts[n])
<1>1. LET D == Detached(M, gone, {})
      IN  /\ D.side = M.side /\ Len(D.levels) = Len(M.levels)
          /\ \A i \in 1..Len(M.levels) : D.levels[i] = M.levels[i] \ gone
          /\ NodesOf(D) = NodesOf(M) \ gone
          /\ D.arcs = {a \in M.arcs : a \notin {} /\ a[1] \notin gone /\ a[2] \notin gone}
  BY DetachedDiagram
<1>2. LET D == Detached(M, gone, {})
      IN  \A n \in NodesOf(M) \ gone : SameKnown(D.facts[n], M.facts[n])
  BY DetachedParts
<1> QED BY <1>1, <1>2

(* What is kept of the MDD has the way of a longest solution, and one node *)
(* for each depth.                                                         *)
LEMMA GreedyWay ==
    ASSUME strings \in Inputs, lower \in Nat, opt \in Nat, NEW M, IsDiagram(M), Fine(M),
           NEW q \in GreedyPaths(M), Len(q) >= opt + 1, IsFree(M, First(q, opt), opt),
           NEW N, N = Detached(M, DOMAIN M.facts \ {q[i] : i \in DOMAIN q}, {}),
           NEW W, W = [i \in 1..(opt + 1) |-> MatchOf(q[i])]
    PROVE  IsDiagram(N) /\ Smaller(N, M) /\ Fine(N) /\ Fine(CopyOf(N)) /\ Keeps(CopyOf(N), W)
<1> DEFINE gone == DOMAIN M.facts \ {q[i] : i \in DOMAIN q}
           r == First(q, opt)
           C == CopyOf(N)
<1>1. IsDiagram(N) /\ Smaller(N, M) /\ Thin(N)
  BY ThinDiagram
<1>2. /\ q \in Seq(NodesOf(M)) /\ Len(q) \in Nat /\ q[1] = RootNode(M.side)
      /\ \A i \in 1..Len(q) : DepthOf(q[i]) = i - 1
  BY GreedyFacts DEF Walks
<1>3. DOMAIN q = 1..Len(q) /\ \A i \in 1..(opt + 1) : i \in DOMAIN q /\ q[i] \in NodesOf(M)
  BY <1>2
<1>4. \A i \in 1..(opt + 1) : r[i] = q[i] /\ q[i] \notin gone
  BY <1>3 DEF First
<1>5. RootNode(M.side) \notin gone
  <2>1. 1 \in 1..(opt + 1)
    OBVIOUS
  <2> QED BY <1>2, <1>4, <2>1
<1>6. N = Detached(M, gone, {})
  OBVIOUS
<1> HIDE DEF gone
<1>7. /\ N.side = M.side /\ Len(N.levels) = Len(M.levels)
      /\ \A i \in 1..Len(M.levels) : N.levels[i] = M.levels[i] \ gone
      /\ NodesOf(N) = NodesOf(M) \ gone
      /\ \A a \in M.arcs : a[1] \notin gone /\ a[2] \notin gone => a \in N.arcs
      /\ \A n \in NodesOf(N) : SameKnown(N.facts[n], M.facts[n])
  BY <1>5, <1>6, WithoutNodes
<1>9. Fine(N)
  <2>1. \A i \in 1..Len(N.levels) : N.levels[i] \subseteq M.levels[i]
    BY <1>7
  <2> QED BY <1>1, <1>7, <2>1, SmallerFine
<1>10. Fine(C)
  BY <1>1, <1>9, CopyFine
<1>11. IsDiagram(C) /\ C.side = N.side /\ NodesOf(C) = NodesOf(N) /\ C.arcs = N.arcs
  BY <1>1, CopyDiagram
<1>12. \A n \in NodesOf(N) : C.facts[n].active
  BY <1>1, CopyParts
<1> HIDE DEF C
<1>13. /\ r \in [1..(opt + 1) -> NodesOf(M)] /\ r[1] = RootNode(M.side)
       /\ \A i \in 1..opt : <<r[i], r[i + 1]>> \in M.arcs
       /\ \A i, j \in 2..(opt + 1) : Letter(r[i]) = Letter(r[j]) => i = j
  BY DEF IsFree
<1>14. \A i \in 1..(opt + 1) : r[i] \in NodesOf(N) /\ MatchOf(r[i]) = W[i]
  BY <1>3, <1>4, <1>7
<1> HIDE DEF r
<1>15. Way(C, r, W)
  <2>1. \A i \in 1..opt : <<r[i], r[i + 1]>> \in C.arcs
    <3> TAKE i \in 1..opt
    <3>1. i \in 1..(opt + 1) /\ i + 1 \in 1..(opt + 1)
      OBVIOUS
    <3>2. r[i] \notin gone /\ r[i + 1] \notin gone
      BY <1>4, <3>1
    <3> QED BY <1>7, <1>11, <1>13, <3>2
  <2>2. r \in [1..(opt + 1) -> NodesOf(C)]
    BY <1>11, <1>13, <1>14
  <2>3. IsFree(C, r, opt)
    BY <1>7, <1>11, <1>13, <2>1, <2>2 DEF IsFree
  <2> QED BY <1>12, <1>14, <2>3 DEF Way
<1>16. Safe(C, W)
  <2> SUFFICES ASSUME NEW i \in 1..opt, NEW n \in NodesOf(C), DepthOf(n) = i - 1,
                      NEW t \in Succs(C, n), Nearer(C.side, MatchOf(t), W[i + 1])
               PROVE  FALSE
    BY DEF Safe
  <2>1. t \in NodesOf(C) /\ <<n, t>> \in C.arcs
    BY <1>11, DiagramFacts, SuccArcs
  <2>2. DepthOf(t) = i
    <3>1. DepthOf(t) = DepthOf(n) + 1
      BY <1>11, <2>1, DiagramFacts
    <3> QED BY <3>1
  <2>3. i + 1 \in 1..(opt + 1) /\ i + 1 \in 2..(opt + 1)
    OBVIOUS
  <2>4. r[i + 1] \in NodesOf(N) /\ DepthOf(r[i + 1]) = i /\ MatchOf(r[i + 1]) = W[i + 1]
    <3>1. IsFree(C, r, opt)
      BY <1>15 DEF Way
    <3>2. DepthOf(r[i + 1]) = (i + 1) - 1
      BY <1>11, <2>3, <3>1, PathFacts
    <3> QED BY <1>14, <2>3, <3>2
  <2>5. t = r[i + 1]
    BY <1>1, <1>11, <2>1, <2>2, <2>4 DEF Thin
  <2>6. MatchOf(t) \in Inner /\ C.side \in Directions
    <3>1. IsFree(C, r, opt)
      BY <1>15 DEF Way
    <3>2. MatchOf(r[i + 1]) \in Inner
      BY <1>11, <2>3, <3>1, PathFacts
    <3> QED BY <1>11, <2>5, <3>2 DEF IsDiagram
  <2>7. Nearer(C.side, MatchOf(t), MatchOf(t))
    BY <2>4, <2>5
  <2> QED BY <2>6, <2>7, PositionFacts
<1>17. Keeps(C, W)
  BY <1>15, <1>16 DEF Keeps
<1> QED BY <1>1, <1>9, <1>10, <1>17 DEF C

(* The layout still has that way.                                          *)
LEMMA GreedyLayout ==
    ASSUME strings \in Inputs, lower \in Nat, opt \in Nat, NEW N, IsDiagram(N), Fine(CopyOf(N)),
           NEW W, Keeps(CopyOf(N), W), NEW flat, InFlat(N, flat), Len(flat) >= opt + 1
    PROVE  /\ FlatHas(StillInFlat(flat, N), W) /\ FlatSafe(StillInFlat(flat, N), N.side, W)
           /\ Len(StillInFlat(flat, N)) \in Nat
<1> DEFINE C == CopyOf(N)
<1>1. IsDiagram(C) /\ C.side = N.side /\ C.levels = N.levels /\ NodesOf(C) = NodesOf(N) /\ C.arcs = N.arcs
  BY CopyDiagram
<1> HIDE DEF C
<1>2. Aligned(C)
  BY DEF Fine, C
<1>3. PICK r : Way(C, r, W)
  BY DEF Keeps, C
<1>4. Laid(C) = Laid(N)
  BY <1>1 DEF Laid
<1>5. FlatHas(Laid(N), W)
  BY <1>1, <1>2, <1>3, <1>4, LaidHas
<1>6. FlatSafe(Laid(N), N.side, W)
  <2>1. Keeps(C, W)
    BY DEF C
  <2> QED BY <1>1, <1>2, <1>4, <2>1, LaidSafe
<1>7. IsFree(C, r, opt) /\ \A i \in 1..(opt + 1) : MatchOf(r[i]) = W[i]
  BY <1>3 DEF Way
<1>8. \A i \in 1..(opt + 1) : r[i] \in NodesOf(N) /\ DepthOf(r[i]) = i - 1
  BY <1>1, <1>7, PathFacts
<1>9. \A i \in 1..(opt + 1) : W[i] \in flat[i].matches
  <2> TAKE i \in 1..(opt + 1)
  <2>1. DepthOf(r[i]) <= opt /\ DepthOf(r[i]) + 1 = i
    BY <1>8
  <2> QED BY <1>7, <1>8, <2>1 DEF InFlat
<1>10. \A i \in 1..opt : <<W[i], W[i + 1]>> \in flat[i].arcs
  <2> TAKE i \in 1..opt
  <2>1. i \in 1..(opt + 1) /\ i + 1 \in 1..(opt + 1)
    OBVIOUS
  <2> DEFINE a == <<r[i], r[i + 1]>>
  <2>2. a \in N.arcs
    BY <1>1, <1>7, PathFacts
  <2>3. DepthOf(a[2]) <= opt /\ DepthOf(a[1]) + 1 = i
    BY <1>8, <2>1
  <2>4. <<MatchOf(a[1]), MatchOf(a[2])>> \in flat[DepthOf(a[1]) + 1].arcs
    BY <2>2, <2>3 DEF InFlat
  <2> QED BY <1>7, <2>1, <2>3, <2>4
<1>11. FlatHas(flat, W)
  BY <1>9, <1>10 DEF FlatHas
<1> QED BY <1>5, <1>6, <1>11, StillHas, StillParts

(* What the run checks of the MDD that is complete.                        *)
LEMMA CompleteNeverRepeats ==
    ASSUME strings \in Inputs, RefinedIsRepetitionFree, step = "complete", refined = Characters, lower < upper,
           IsDiagram(work)
    PROVE  NeverRepeats(work)
<1> SUFFICES ASSUME NEW k \in 0..(Sigma - 1), NEW q, IsFree(work, q, k), NEW s \in Succs(work, q[k + 1])
             PROVE  Letter(s) \notin Passed(q, k + 1)
  BY DEF NeverRepeats
<1>1. k \in 0..Sigma /\ 1 + 1 = 2
  BY CharactersFinite
<1>2. q \in FreePaths(work)[k]
  BY <1>1, FreePathsAre
<1>3. Letter(s) \notin {Letter(q[j]) : j \in 2..(k + 1)}
  BY <1>2 DEF RefinedIsRepetitionFree
<1> QED BY <1>1, <1>3 DEF Passed, Part

LEMMA KeepOnlyOneSafe ==
    ASSUME MddInv, OptInv, EndInv, RefinedIsRepetitionFree, KeepOnlyOne
    PROVE  OptInv'
<1>1. /\ step = "complete" /\ step' = "layout"
      /\ shared' = [shared EXCEPT !.flat = StillInFlat(@, work')]
      /\ UNCHANGED <<fixedVars, upper, task, filterVars, selection, refined, parentVars>>
  BY DEF KeepOnlyOne
<1>2. PICK q \in GreedyPaths(work) :
         work' = Detached(work, DOMAIN work.facts \ {q[i] : i \in DOMAIN q}, {})
  BY DEF KeepOnlyOne
<1>3. ChildRuns /\ step \notin Filtering /\ step \in Selecting
  BY <1>1 DEF ChildRuns, Filtering, Selecting
<1>4. /\ IsDiagram(work) /\ Within(work, parent) /\ IsDiagram(selection) /\ IsDiagram(parent) /\ mdd = NoMdd
  <2>1. IsDiagram(work) /\ Within(work, parent) /\ IsDiagram(selection) /\ mdd = NoMdd
    BY <1>3 DEF MddInv, WorkPart, SelectionPart, MddPart
  <2>2. IsDiagram(parent)
    BY <1>3, ChildFacts, PublishedFacts
  <2> QED BY <2>1, <2>2
<1> DEFINE N == work'
           flat == shared'.flat
<1>5. /\ strings' = strings /\ lower' = lower /\ opt' = opt /\ task' = task /\ mdd' = NoMdd /\ upper' = upper
      /\ selection' = selection /\ parent' = parent /\ parentUpper' = parentUpper /\ refined' = refined
      /\ UNCHANGED fixedVars
  BY <1>1, <1>4 DEF filterVars, parentVars, fixedVars
<1>6. flat = StillInFlat(shared.flat, N) /\ shared'.upper = shared.upper
  BY <1>1, <1>3, ChildFacts, PublishedFacts
<1>7. N = Detached(work, DOMAIN work.facts \ {q[i] : i \in DOMAIN q}, {})
  BY <1>2
<1> HIDE DEF N, flat
<1>8. IsDiagram(N) /\ Smaller(N, work)
  BY <1>4, <1>7, OptFacts, ThinDiagram
<1>9. \A M : NodesOf(M)' = NodesOf(M)
  BY DEF NodesOf
<1>10. step' \notin Filtering /\ step' # "split" /\ step' # "graph" /\ step' # "merge" /\ step # "graph"
       /\ step # "solver" /\ task' \in ChildTasks
  BY <1>1, <1>3, <1>5, ChildFacts DEF Filtering
<1>11. NamePart'
  <2>1. \A n \in NodesOf(N) : n[3] \subseteq refined
    BY <1>8 DEF OptInv, NamePart, Smaller
  <2>2. Plain(selection) /\ Plain(NoMdd)
    BY OptFacts, NoMddParts DEF OptInv, NamePart
  <2>3. \A M : Plain(M)' <=> Plain(M)
    BY <1>9 DEF Plain
  <2>4. work' = N
    BY DEF N
  <2> QED BY <1>5, <1>9, <1>10, <2>1, <2>2, <2>3, <2>4 DEF NamePart
<1>12. ASSUME lower < opt PROVE BoundPart' /\ FactPart' /\ WayPart'
  <2>1. upper >= opt /\ parentUpper >= opt /\ shared.upper >= opt /\ FactPart
    BY <1>3, <1>12, ChildFacts
  <2>2. PICK V : Remains(V)
    BY <1>3, <1>12, ChildFacts
  <2>3. work # NoMdd /\ selection # NoMdd
    BY <1>4, DiagramIsThere
  <2>4. Keeps(work, V) /\ Keeps(selection, V)
    BY <1>1, <2>2, <2>3 DEF Remains, Kept
  <2>5. Len(shared.flat) \in Nat /\ Len(shared.flat) >= opt + 1
    BY <2>2 DEF Remains, FlatHas
  <2>6. Done(work) /\ InFlat(work, shared.flat) /\ refined = Characters
    BY <1>1, <1>10, <1>12 DEF EndInv, EndPart
  <2>7. lower < upper
    BY <1>10, <1>12, GapIsOpen
  <2>8. NeverRepeats(work)
    BY <1>1, <1>4, <2>6, <2>7, OptFacts, CompleteNeverRepeats
  <2>9. Fine(work) /\ Fine(selection) /\ Fine(parent) /\ AllActive(parent)
    BY <2>1 DEF FactPart
  <2>10. Len(q) >= opt + 1 /\ IsFree(work, First(q, opt), opt)
    BY <1>4, <1>12, <2>4, <2>6, <2>8, <2>9, OptFacts, GreedyReaches
  <2>11. PICK W : W = [i \in 1..(opt + 1) |-> MatchOf(q[i])]
    OBVIOUS
  <2>12. Fine(N) /\ Fine(CopyOf(N)) /\ Keeps(CopyOf(N), W)
    BY <1>4, <1>7, <2>9, <2>10, <2>11, OptFacts, GreedyWay
  <2>13. InFlat(N, shared.flat)
    BY <1>8, <2>6, SmallerInFlat
  <2>14. FlatHas(flat, W) /\ FlatSafe(flat, N.side, W) /\ Len(flat) \in Nat
    BY <1>6, <1>8, <2>5, <2>12, <2>13, OptFacts, GreedyLayout
  <2>15. Within(N, parent)
    BY <1>4, <1>8, SmallerWithin
  <2>16. N.side = parent.side
    BY <2>15 DEF Within
  <2>17. \E r : Way(parent, r, W)
    <3>1. IsDiagram(CopyOf(N)) /\ Within(CopyOf(N), parent)
      BY <1>4, <1>8, <2>15, OptFacts, CopyWithin
    <3>2. PICK r : Way(CopyOf(N), r, W)
      BY <2>12 DEF Keeps
    <3> QED BY <1>4, <2>9, <3>1, <3>2, OptFacts, ParentWay
  <2>18. /\ \A M : Fine(M)' <=> Fine(M)
         /\ \A M : AllActive(M)' <=> AllActive(M)
         /\ \A M, r, X : Way(M, r, X)' <=> Way(M, r, X)
         /\ \A M, X : Keeps(M, X)' <=> Keeps(M, X)
         /\ \A f, X : FlatHas(f, X)' <=> FlatHas(f, X)
         /\ \A f, d, X : FlatSafe(f, d, X)' <=> FlatSafe(f, d, X)
    BY <1>5, SoundnessUnchanged
  <2>19. work' = N /\ shared'.flat = flat
    BY DEF N, flat
  <2>20. Fine(NoMdd) /\ Kept(NoMdd, W)
    BY OptFacts, NoMddParts
  <2>21. BoundPart'
    BY <1>5, <1>6, <2>1 DEF BoundPart
  <2>22. FactPart'
    BY <1>5, <1>10, <2>9, <2>12, <2>18, <2>19, <2>20 DEF FactPart
  <2>23. (Len(shared.flat) \in Nat)' /\ FlatHas(shared.flat, W)' /\ FlatSafe(shared.flat, parent.side, W)'
    BY <1>5, <2>14, <2>16, <2>18, <2>19
  <2>24. (\E r : Way(parent, r, W))'
    BY <1>5, <2>17, <2>18
  <2>25. Kept(mdd, W)'
    BY <1>5, <2>18, <2>20 DEF Kept
  <2>26. Keeps(CopyOf(work), W)' /\ (\E X : Keeps(selection, X))'
    <3>1. \A M : CopyOf(M)' = CopyOf(M)
      BY DEF CopyOf
    <3>2. Keeps(CopyOf(work), W)' <=> Keeps(CopyOf(N), W)
      BY <2>18, <2>19, <3>1
    <3> QED BY <1>5, <2>4, <2>12, <2>18, <3>2
  <2>27. Remains(W)'
    BY <1>1, <2>23, <2>24, <2>25, <2>26 DEF Remains
  <2>28. Published'
    BY <1>10 DEF Published, ChildTasks
  <2>29. WayPart'
    BY <2>27, <2>28 DEF WayPart
  <2> QED BY <2>21, <2>22, <2>29
<1> QED BY <1>5, <1>10, <1>11, <1>12, OptFromParts

(* The inductive invariant of the reduction.                               *)
SoundInv == OptInv /\ EndInv

LEMMA SoundKeeps ==
    ASSUME MddInv, SoundInv, SplitSeparates, RefinedIsRepetitionFree, [MddNext]_<<vars, mddVars>>
    PROVE  SoundInv'
<1>1. EndInv'
  BY EndStep DEF SoundInv
<1>2. CASE KeepOnlyOne
  BY <1>1, <1>2, KeepOnlyOneSafe DEF SoundInv
<1>3. CASE ~KeepOnlyOne
  BY <1>1, <1>3, OptStep DEF SoundInv
<1> QED BY <1>2, <1>3

(* A longest solution is left, what is shared is a bound of its length and *)
(* what nodes know is true of it, to the end of the reduction: also in     *)
(* what a complete child leaves, which is one path that follows the bounds *)
(* of the nodes (mdd_reduction.cpp:152-183).  It takes that splits         *)
(* separate paths as they should, and that the complete MDD is repetition- *)
(* free, both of which the runs check.                                     *)
THEOREM ReductionIsSound ==
    MddSpec /\ [](SplitSeparates /\ RefinedIsRepetitionFree)
      => [](SomeOptimumRemains /\ BoundsAreValid /\ NodeFactsHold)
<1>1. MddInit => SoundInv
  <2> SUFFICES ASSUME MddInit PROVE SoundInv
    OBVIOUS
  <2>1. OptInv
    BY OptInitially
  <2>2. step = "graph"
    BY DEF MddInit
  <2> QED BY <2>1, <2>2 DEF SoundInv, EndInv
<1>2. MddInv /\ SplitSeparates /\ RefinedIsRepetitionFree /\ SoundInv /\ [MddNext]_<<vars, mddVars>> => SoundInv'
  BY SoundKeeps
<1>3. MddInv /\ SoundInv => SomeOptimumRemains /\ BoundsAreValid /\ NodeFactsHold
  BY OptimumIsThere, BoundsAreThere, FactsAreTrue DEF SoundInv
<1> QED BY <1>1, <1>2, <1>3, MddInvariance, PTL DEF MddSpec
================================================================================
