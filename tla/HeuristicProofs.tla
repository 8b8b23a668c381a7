--------------------------- MODULE HeuristicProofs ---------------------------
(***************************************************************************)
(* Proofs about Heuristic, for all strings over any alphabet.              *)
(***************************************************************************)
EXTENDS Heuristic, GraphReductionProofs

-----------------------------------------------------------------------------
(* There is always a successor to choose from.                             *)

(* Only between the deactivation of matches and the reduction of the arcs  *)
(* can an active match be without an active dominating successor.          *)
CandidatesStay ==
    /\ DOMAIN dom = Directions /\ \A d \in Directions : DOMAIN dom[d] = Nodes \ {Sink(d)}
    /\ pc # "reduce" => \A d \in Directions : \A m \in Nodes \ {Sink(d)} :
                           IsActive(m) => ActiveDom(d, m) # {}

(* Initially every match is active, and only the end follows on no match.  *)
LEMMA CandidatesInitially == Init => CandidatesStay
<1> SUFFICES ASSUME Init PROVE CandidatesStay
  OBVIOUS
<1>1. /\ strings \in Inputs /\ active = Inner
      /\ dom = [d \in Directions |-> [m \in Nodes \ {Sink(d)} |->
                                       OrSink(d, Dominating(d, SuccessorMatches(d, m)))]]
  BY DEF Init
<1>2. ASSUME NEW d \in Directions, NEW m \in Nodes \ {Sink(d)}
      PROVE  ActiveDom(d, m) # {}
  <2>1. dom[d][m] = OrSink(d, Dominating(d, SuccessorMatches(d, m)))
    BY <1>1
  <2>2. PICK t \in dom[d][m] : t = Sink(d) \/ t \in SuccessorMatches(d, m)
    BY <2>1 DEF OrSink, Dominating
  <2>3. IsActive(t)
    BY <1>1, <2>2, SuccessorFacts, DirectionFacts DEF IsActive
  <2> QED BY <2>2, <2>3 DEF ActiveDom
<1>3. DOMAIN dom = Directions /\ \A d \in Directions : DOMAIN dom[d] = Nodes \ {Sink(d)}
  BY <1>1
<1> QED BY <1>2, <1>3 DEF CandidatesStay

(* Erasing arcs leaves an active match the active ones of its dominating   *)
(* successors that are not bad, or the end.                                *)
LEMMA CandidatesAfterReduction ==
    ASSUME CandidatesStay, ReduceGraph
    PROVE  CandidatesStay'
<1>1. /\ strings' = strings /\ active' = active
      /\ dom' = [d \in Directions |-> [m \in DOMAIN dom[d] |->
                     IF IsActive(m) THEN KeptDominating(d, m) ELSE dom[d][m]]]
  BY DEF ReduceGraph
<1>2. Nodes' = Nodes /\ Root' = Root /\ Leaf' = Leaf
      /\ \A d \in Directions : Sink(d)' = Sink(d)
  BY <1>1 DEF Nodes, Inner, Root, Leaf, Sink, Source
<1>3. \A d \in Directions : DOMAIN dom[d] = Nodes \ {Sink(d)}
  BY DEF CandidatesStay
<1>4. ASSUME NEW d \in Directions, NEW m \in Nodes \ {Sink(d)}, IsActive(m)
      PROVE  \E t \in dom'[d][m] : IsActive(t)
  <2>1. dom'[d][m] = KeptDominating(d, m)
    BY <1>1, <1>3, <1>4
  <2>2. PICK t \in KeptDominating(d, m) : t = Sink(d) \/ ~BadEdge(d, m, t)
    BY DEF KeptDominating, OrSink
  <2>3. IsActive(t)
    BY <2>2, DirectionFacts DEF BadEdge, IsActive
  <2> QED BY <2>1, <2>2, <2>3
<1>5. DOMAIN dom' = Directions /\ \A d \in Directions : DOMAIN dom'[d] = Nodes \ {Sink(d)}
  BY <1>1, <1>3
<1> QED BY <1>1, <1>2, <1>4, <1>5 DEF CandidatesStay, ActiveDom, IsActive

(* The other steps leave the matches and the arcs alone, except the        *)
(* deactivation, which the reduction of the arcs follows.                  *)
LEMMA CandidatesUnchanged ==
    ASSUME CandidatesStay, UNCHANGED <<strings, active, dom>>, pc = "reduce" => pc' = "reduce"
    PROVE  CandidatesStay'
<1>1. Nodes' = Nodes /\ Root' = Root /\ Leaf' = Leaf
      /\ \A d \in Directions : Sink(d)' = Sink(d)
  BY DEF Nodes, Inner, Root, Leaf, Sink, Source
<1> QED BY <1>1 DEF CandidatesStay, ActiveDom, IsActive

(* The deactivation of matches is followed by the reduction of the arcs.   *)
LEMMA CandidatesAfterDeactivation ==
    ASSUME CandidatesStay, DeactivateMatches
    PROVE  CandidatesStay'
<1>1. strings' = strings /\ dom' = dom /\ pc' = "reduce"
  BY DEF DeactivateMatches
<1>2. Nodes' = Nodes /\ \A d \in Directions : Sink(d)' = Sink(d)
  BY <1>1 DEF Nodes, Inner, Root, Leaf, Sink, Source
<1> QED BY <1>1, <1>2 DEF CandidatesStay

(* An active match never loses all of its active dominating successors, so *)
(* the heuristic always finds one to follow (heuristic.cpp:112).           *)
THEOREM CandidatesExist == HeuristicSpec => []AlwaysACandidate
<1>1. HeuristicInit => CandidatesStay
  BY CandidatesInitially DEF HeuristicInit
<1>2. CandidatesStay /\ [HeuristicNext]_<<vars, heurVars>> => CandidatesStay'
  <2> SUFFICES ASSUME CandidatesStay, [HeuristicNext]_<<vars, heurVars>> PROVE CandidatesStay'
    OBVIOUS
  <2>1. CASE CombineMatch
    BY <2>1, CandidatesUnchanged DEF CombineMatch, reductionVars, graphVars
  <2>2. CASE EndPass
    BY <2>2, CandidatesUnchanged DEF EndPass, reductionVars, graphVars
  <2>3. CASE EndGoodRound
    BY <2>3, CandidatesUnchanged DEF EndGoodRound, graphVars
  <2>4. CASE EndBadRound
    BY <2>4, CandidatesUnchanged DEF EndBadRound, reductionVars, graphVars
  <2>5. CASE EndHeuristic
    BY <2>5, CandidatesUnchanged DEF EndHeuristic, HeuristicStops, graphVars
  <2>6. CASE Reduce
    <3>1. CASE StartRelaxation
      BY <3>1, CandidatesUnchanged DEF StartRelaxation, graphVars
    <3>2. CASE RelaxCharacter
      BY <3>2, CandidatesUnchanged DEF RelaxCharacter
    <3>3. CASE SkipCharacter
      BY <3>3, CandidatesUnchanged DEF SkipCharacter, graphVars
    <3>4. CASE EndRelaxationRound
      BY <3>4, CandidatesUnchanged DEF EndRelaxationRound, graphVars
    <3>5. CASE RelaxSelected
      BY <3>5, CandidatesUnchanged DEF RelaxSelected
    <3>6. CASE EndRelaxation
      BY <3>6, CandidatesUnchanged DEF EndRelaxation, graphVars
    <3>7. CASE CalculateSimpleUpperBounds
      BY <3>7, CandidatesUnchanged DEF CalculateSimpleUpperBounds
    <3>8. CASE DeactivateMatches
      BY <3>8, CandidatesAfterDeactivation
    <3>9. CASE ReduceGraph
      BY <3>9, CandidatesAfterReduction
    <3> QED BY <2>6, <3>1, <3>2, <3>3, <3>4, <3>5, <3>6, <3>7, <3>8, <3>9 DEF Reduce
  <2>7. CASE UNCHANGED <<vars, heurVars>>
    BY <2>7, CandidatesUnchanged DEF vars, graphVars
  <2> QED BY <2>1, <2>2, <2>3, <2>4, <2>5, <2>6, <2>7 DEF HeuristicNext
<1>3. CandidatesStay => AlwaysACandidate
  BY DEF CandidatesStay, AlwaysACandidate
<1> QED BY <1>1, <1>2, <1>3, PTL DEF HeuristicSpec

-----------------------------------------------------------------------------
(* The chains of heuristic_previous_match.                                 *)

(* Following previous in direction d leads ahead.                          *)
Leads(d, prev) ==
    /\ prev \in [Nodes -> Nodes \cup {None}]
    /\ \A m \in Inner : prev[m] # None => prev[m] \in Nodes /\ Before(d, m, prev[m])

(* Chain satisfies the equation that defines it.                           *)
LEMMA ChainUnfold ==
    ASSUME strings \in Inputs, NEW d \in Directions, NEW prev, Leads(d, prev)
    PROVE  \A m \in Nodes \cup {None} :
              /\ Chain(prev, m) \in Seq(Characters)
              /\ Chain(prev, m) = IF m \notin Inner THEN <<>>
                                  ELSE <<CharacterOf(m)>> \o Chain(prev, prev[m])
<1> DEFINE P == Nodes \cup {None}
           V == Seq(Characters)
           n == Size1 + 1
           Longer(g, m) == <<CharacterOf(m)>> \o g[prev[m]]
           Body(g) == [m \in Nodes \cup {None} |-> IF m \notin Inner THEN <<>>
                                                   ELSE <<CharacterOf(m)>> \o g[prev[m]]]
           F == [g \in [P -> V] |-> Body(g)]
           rank == [m \in P |-> IF m \in Nodes THEN Distance(d)[m] ELSE 0]
           f == CHOOSE g : g = Body(g)
<1>1. \A m : Chain(prev, m) = f[m]
  BY DEF Chain
<1>2. /\ Distance(d) \in [Nodes -> 0..n] /\ n \in Nat
      /\ \A m \in Inner : m \in Nodes /\ CharacterOf(m) \in Characters
  BY DistanceType, InnerFacts
<1>3. \A m \in Inner : prev[m] \in P /\ rank[prev[m]] < rank[m]
  <2> SUFFICES ASSUME NEW m \in Inner PROVE prev[m] \in P /\ rank[prev[m]] < rank[m]
    OBVIOUS
  <2>1. prev[m] \in P /\ m \in Nodes /\ m \in P
    BY <1>2 DEF Leads
  <2>2. rank[m] = Distance(d)[m]
    BY <2>1
  <2>3. CASE prev[m] \in Nodes
    <3>1. prev[m] # None
      BY <2>3, NodeFacts, InputFacts DEF None
    <3>2. Before(d, m, prev[m])
      BY <3>1 DEF Leads
    <3> QED BY <2>1, <2>2, <2>3, <3>2, BeforeFacts
  <2>4. CASE prev[m] \notin Nodes
    <3>1. Sink(d) \in Nodes /\ Before(d, m, Sink(d))
      BY DirectionFacts, EndsFacts
    <3>2. Distance(d)[Sink(d)] < Distance(d)[m] /\ Distance(d)[Sink(d)] \in Nat
      BY <2>1, <3>1, <1>2, BeforeFacts
    <3> QED BY <2>1, <2>2, <2>4, <3>2, <1>2
  <2> QED BY <2>1, <2>3, <2>4
<1> HIDE DEF n
<1>4. \A g \in [P -> V] : Body(g) \in [P -> V]
  <2> SUFFICES ASSUME NEW g \in [P -> V], NEW m \in P
               PROVE  (IF m \notin Inner THEN <<>> ELSE <<CharacterOf(m)>> \o g[prev[m]]) \in V
    OBVIOUS
  <2>1. <<>> \in V
    OBVIOUS
  <2>2. ASSUME m \in Inner PROVE <<CharacterOf(m)>> \o g[prev[m]] \in V
    <3>1. g[prev[m]] \in V /\ CharacterOf(m) \in Characters
      BY <1>2, <1>3, <2>2
    <3> QED BY <3>1
  <2> HIDE DEF V
  <2> QED BY <2>1, <2>2
<1>5. \A g \in [P -> V] : g = Body(g) => g \in [P -> V]
  OBVIOUS
<1> DEFINE G(g, m) == IF m \notin Inner THEN <<>> ELSE Longer(g, m)
<1>6. Descends(F, P, V, rank, n) /\ V # {}
  <2>1. rank \in [P -> 0..n]
    <3>1. 0 \in 0..n
      BY <1>2
    <3> QED BY <1>2, <3>1
  <2>2. F \in [[P -> V] -> [P -> V]]
    <3> HIDE DEF Body, P, V
    <3> QED BY <1>4
  <2>3. \A g, h \in [P -> V] : \A m \in P :
           (\A t \in P : rank[t] < rank[m] => g[t] = h[t]) => F[g][m] = F[h][m]
    <3> SUFFICES ASSUME NEW g \in [P -> V], NEW h \in [P -> V], NEW m \in P,
                        \A t \in P : rank[t] < rank[m] => g[t] = h[t]
                 PROVE  F[g][m] = F[h][m]
      <4> HIDE DEF F, P, V, rank
      <4> QED OBVIOUS
    <3>1. CASE m \notin Inner
      BY <3>1
    <3>2. CASE m \in Inner
      <4>1. g[prev[m]] = h[prev[m]]
        <5> HIDE DEF rank
        <5> QED BY <3>2, <1>3
      <4> QED BY <4>1, <3>2
    <3> QED BY <3>1, <3>2
  <2>4. <<>> \in V
    OBVIOUS
  <2> HIDE DEF P, V, F, rank
  <2> QED BY <1>2, <2>1, <2>2, <2>3, <2>4 DEF Descends
<1>7. PICK g \in [P -> V] : F[g] = g
  <2> HIDE DEF P, V, F, rank
  <2> QED BY <1>6, RecursionHasSolution
<1>8. f = Body(f)
  <2>1. g = Body(g)
    BY <1>7
  <2> HIDE DEF Body
  <2> QED BY <2>1
<1> HIDE DEF f
<1>9. \A m \in P : f[m] = IF m \notin Inner THEN <<>> ELSE <<CharacterOf(m)>> \o f[prev[m]]
  BY <1>8
<1> HIDE DEF Body
<1> DEFINE T == {m \in P : f[m] \notin V}
<1>10. T = {}
  <2> SUFFICES ASSUME T # {} PROVE FALSE
    OBVIOUS
  <2>1. rank \in [P -> Nat] /\ T \subseteq P
    BY <1>2
  <2>2. PICK m \in T : \A x \in T : rank[m] <= rank[x]
    <3> HIDE DEF rank, P, T
    <3> QED BY <2>1, LeastRank
  <2>3. m \in P /\ f[m] \notin V
    OBVIOUS
  <2>4. m \in Inner
    <3>1. <<>> \in V
      OBVIOUS
    <3> HIDE DEF V
    <3> QED BY <1>9, <2>3, <3>1
  <2>5. f[prev[m]] \in V
    <3>1. CASE prev[m] \in Inner
      <4>1. rank[prev[m]] < rank[m] /\ prev[m] \in P
        BY <2>4, <3>1, <1>3
      <4>2. prev[m] \notin T
        <5> HIDE DEF rank, T
        <5> QED BY <2>1, <2>2, <4>1
      <4> HIDE DEF V
      <4> QED BY <4>1, <4>2
    <3>2. CASE prev[m] \notin Inner
      <4>1. f[prev[m]] = <<>>
        BY <1>3, <1>9, <2>4, <3>2
      <4> QED BY <4>1
    <3> QED BY <3>1, <3>2
  <2>6. f[m] = <<CharacterOf(m)>> \o f[prev[m]]
    BY <1>9, <2>4, <2>3
  <2> QED BY <2>3, <2>4, <2>5, <2>6, <1>2
<1>11. \A m \in P : f[m] \in V
  <2> HIDE DEF V
  <2> QED BY <1>10
<1> QED BY <1>1, <1>9, <1>11

(* The characters of a chain are its first one and those of the rest.      *)
LEMMA ChainCharacters ==
    ASSUME strings \in Inputs, NEW d \in Directions, NEW prev, Leads(d, prev)
    PROVE  /\ \A m \in Inner : InWord(Chain(prev, m)) =
                                  {CharacterOf(m)} \cup InWord(Chain(prev, prev[m]))
           /\ \A m \in (Nodes \cup {None}) \ Inner : /\ Chain(prev, m) = <<>>
                                                    /\ InWord(Chain(prev, m)) = {}
<1>1. ASSUME NEW m \in Inner
      PROVE  InWord(Chain(prev, m)) = {CharacterOf(m)} \cup InWord(Chain(prev, prev[m]))
  <2> DEFINE c == Chain(prev, m)
             r == Chain(prev, prev[m])
  <2>1. c = <<CharacterOf(m)>> \o r /\ r \in Seq(Characters) /\ CharacterOf(m) \in Characters
    <3>1. m \in Nodes \cup {None} /\ prev[m] \in Nodes \cup {None} /\ CharacterOf(m) \in Characters
      BY InnerFacts DEF Leads
    <3> QED BY <3>1, ChainUnfold
  <2> HIDE DEF c, r
  <2>2. /\ Len(r) \in Nat /\ Len(c) = Len(r) + 1
        /\ c[1] = CharacterOf(m)
        /\ \A i \in 1..Len(r) : c[i + 1] = r[i]
    BY <2>1
  <2>3. \A i \in 1..(Len(r) + 1) : i # 1 => i - 1 \in 1..Len(r) /\ (i - 1) + 1 = i
    BY <2>2
  <2>4. InWord(c) \subseteq {CharacterOf(m)} \cup InWord(r)
    <3> SUFFICES ASSUME NEW i \in 1..Len(c) PROVE c[i] \in {CharacterOf(m)} \cup InWord(r)
      BY DEF InWord
    <3>1. CASE i = 1
      BY <3>1, <2>2
    <3>2. CASE i # 1
      <4>1. i - 1 \in 1..Len(r) /\ (i - 1) + 1 = i
        BY <3>2, <2>2, <2>3
      <4>2. c[i] = r[i - 1]
        BY <4>1, <2>2
      <4> QED BY <4>1, <4>2 DEF InWord
    <3> QED BY <3>1, <3>2
  <2>5. {CharacterOf(m)} \cup InWord(r) \subseteq InWord(c)
    <3>1. 1 \in 1..Len(c) /\ \A i \in 1..Len(r) : i + 1 \in 1..Len(c)
      BY <2>2
    <3> QED BY <2>2, <3>1 DEF InWord
  <2> QED BY <2>4, <2>5 DEF c, r
<1>2. ASSUME NEW m \in (Nodes \cup {None}) \ Inner
      PROVE  Chain(prev, m) = <<>> /\ InWord(Chain(prev, m)) = {}
  <2>1. Chain(prev, m) = <<>>
    BY ChainUnfold
  <2> QED BY <2>1 DEF InWord
<1> QED BY <1>1, <1>2

(* A chain is the characters of matches one behind the other, from its     *)
(* start on.                                                               *)
LEMMA ChainTrace ==
    ASSUME strings \in Inputs, NEW d \in Directions, NEW prev, Leads(d, prev), NEW m \in Inner
    PROVE  /\ Len(Chain(prev, m)) \in Nat \ {0}
           /\ \E e \in [1..Len(Chain(prev, m)) -> Inner] :
                 /\ e[1] = m
                 /\ \A i \in 1..Len(Chain(prev, m)) : CharacterOf(e[i]) = Chain(prev, m)[i]
                 /\ \A i, j \in 1..Len(Chain(prev, m)) : i < j => Before(d, e[i], e[j])
<1> DEFINE c(x) == Chain(prev, x)
           Traced(x, e) == /\ e \in [1..Len(c(x)) -> Inner]
                           /\ e[1] = x
                           /\ \A i \in 1..Len(c(x)) : CharacterOf(e[i]) = c(x)[i]
                           /\ \A i, j \in 1..Len(c(x)) : i < j => Before(d, e[i], e[j])
           T == {x \in Inner : ~(Len(c(x)) \in Nat \ {0} /\ \E e : Traced(x, e))}
<1>1. Inner \subseteq Nodes /\ \A x \in Inner : CharacterOf(x) \in Characters
  BY InnerFacts
<1>2. T = {}
  <2> SUFFICES ASSUME T # {} PROVE FALSE
    OBVIOUS
  <2>1. T \subseteq Nodes /\ Distance(d) \in [Nodes -> Nat]
    BY <1>1, DistanceType
  <2> HIDE DEF T
  <2>2. PICK x \in T : \A y \in T : Distance(d)[x] <= Distance(d)[y]
    BY <2>1, LeastRank
  <2>3. x \in Inner /\ ~(Len(c(x)) \in Nat \ {0} /\ \E e : Traced(x, e))
    <3> HIDE DEF Traced
    <3> QED BY <2>2 DEF T
  <2> DEFINE t == prev[x]
             r == c(t)
  <2>4. /\ c(x) = <<CharacterOf(x)>> \o r /\ r \in Seq(Characters)
        /\ CharacterOf(x) \in Characters /\ x \in Nodes /\ t \in Nodes \cup {None}
    <3>1. x \in Nodes \cup {None} /\ t \in Nodes \cup {None} /\ x \in Nodes
      BY <2>3, <1>1 DEF Leads
    <3> QED BY <3>1, <2>3, <1>1, ChainUnfold
  <2> HIDE DEF c
  <2>5. /\ Len(r) \in Nat /\ Len(c(x)) = Len(r) + 1
        /\ c(x)[1] = CharacterOf(x)
        /\ \A i \in 1..Len(r) : c(x)[i + 1] = r[i]
    BY <2>4
  <2> DEFINE L == Len(r)
  <2>6. \A i \in 1..(L + 1) : i # 1 => i - 1 \in 1..L /\ (i - 1) + 1 = i
    BY <2>5
  <2>7. CASE t \notin Inner
    <3>1. r = <<>>
      BY <2>4, <2>7, ChainCharacters DEF c
    <3>2. Len(c(x)) = 1
      BY <2>5, <3>1
    <3> DEFINE e == [i \in 1..1 |-> x]
    <3>3. Traced(x, e)
      <4> HIDE DEF r
      <4>1. \A i \in 1..1 : i = 1
        OBVIOUS
      <4> QED BY <4>1, <3>2, <2>3, <2>5
    <3> HIDE DEF Traced, e
    <3> QED BY <3>2, <3>3, <2>3
  <2>8. CASE t \in Inner
    <3>1. Before(d, x, t) /\ t \in Nodes
      <4>1. t # None /\ t \in Nodes
        BY <2>8, <1>1, NodeFacts, InputFacts DEF None
      <4> QED BY <4>1, <2>3 DEF Leads
    <3>2. t \notin T
      <4>1. Distance(d)[t] < Distance(d)[x]
        BY <3>1, <2>4, BeforeFacts
      <4> QED BY <4>1, <3>1, <2>1, <2>2, <2>4
    <3>3. PICK e : Traced(t, e)
      <4> HIDE DEF Traced
      <4> QED BY <3>2, <2>8 DEF T
    <3> HIDE DEF t
    <3>4. L \in Nat \ {0}
      BY <3>2, <2>8 DEF T
    <3> HIDE DEF L
    <3>5. /\ e \in [1..L -> Inner] /\ e[1] = t
          /\ \A i \in 1..L : CharacterOf(e[i]) = r[i]
          /\ \A i, j \in 1..L : i < j => Before(d, e[i], e[j])
      BY <3>3 DEF L
    <3> DEFINE more == [i \in 1..(L + 1) |-> IF i = 1 THEN x ELSE e[i - 1]]
    <3>6. /\ more \in [1..(L + 1) -> Inner] /\ more[1] = x
          /\ \A i \in 1..L : more[i + 1] = e[i]
      BY <3>4, <3>5, <2>3, <2>6
    <3> HIDE DEF more
    <3>7. \A i \in 1..(L + 1) : CharacterOf(more[i]) = c(x)[i]
      <4> SUFFICES ASSUME NEW i \in 1..(L + 1) PROVE CharacterOf(more[i]) = c(x)[i]
        OBVIOUS
      <4>1. CASE i = 1
        BY <4>1, <3>6, <2>5
      <4>2. CASE i # 1
        <5>1. i - 1 \in 1..L /\ (i - 1) + 1 = i
          BY <4>2, <2>6
        <5>2. more[i] = e[i - 1] /\ c(x)[i] = r[i - 1]
          BY <5>1, <3>6, <2>5 DEF L
        <5> QED BY <5>1, <5>2, <3>5
      <4> QED BY <4>1, <4>2
    <3>8. \A i \in 1..L : Before(d, x, e[i])
      <4> SUFFICES ASSUME NEW i \in 1..L PROVE Before(d, x, e[i])
        OBVIOUS
      <4>1. CASE i = 1
        BY <4>1, <3>1, <3>5
      <4>2. CASE i # 1
        <5>1. 1 \in 1..L /\ 1 < i /\ e[i] \in Nodes
          BY <4>2, <3>4, <3>5, <1>1
        <5>2. Before(d, t, e[i])
          BY <5>1, <3>5
        <5> QED BY <5>1, <5>2, <3>1, <2>4, BeforeTransitive
      <4> QED BY <4>1, <4>2
    <3>9. \A i, j \in 1..(L + 1) : i < j => Before(d, more[i], more[j])
      <4> SUFFICES ASSUME NEW i \in 1..(L + 1), NEW j \in 1..(L + 1), i < j
                   PROVE  Before(d, more[i], more[j])
        OBVIOUS
      <4>1. j - 1 \in 1..L /\ more[j] = e[j - 1]
        <5>1. j # 1
          BY <3>4
        <5>2. j - 1 \in 1..L /\ (j - 1) + 1 = j
          BY <5>1, <2>6
        <5> QED BY <5>2, <3>6
      <4>2. CASE i = 1
        BY <4>1, <4>2, <3>6, <3>8
      <4>3. CASE i # 1
        <5>1. i - 1 \in 1..L /\ (i - 1) + 1 = i
          BY <4>3, <2>6
        <5>2. more[i] = e[i - 1] /\ i - 1 < j - 1
          BY <5>1, <3>6, <3>4
        <5> QED BY <5>1, <5>2, <4>1, <3>5
      <4> QED BY <4>2, <4>3
    <3>10. Len(c(x)) = L + 1 /\ L + 1 \in Nat \ {0}
      BY <2>5, <3>4 DEF L
    <3>11. Traced(x, more)
      BY <3>6, <3>7, <3>9, <3>10
    <3> HIDE DEF Traced
    <3> QED BY <3>10, <3>11, <2>3
  <2> QED BY <2>7, <2>8
<1>3. Len(c(m)) \in Nat \ {0} /\ \E e : Traced(m, e)
  <2> HIDE DEF Traced
  <2> QED BY <1>2
<1> QED BY <1>3

(* As long as nothing on its way changes, a chain stays what it is.        *)
LEMMA ChainStays ==
    ASSUME strings \in Inputs, NEW d \in Directions,
           NEW prev, Leads(d, prev), NEW new, Leads(d, new),
           NEW X, \A x \in X \cap Inner : new[x] = prev[x] /\ (prev[x] \in Inner => prev[x] \in X)
    PROVE  \A x \in X \cap Inner : Chain(new, x) = Chain(prev, x)
<1> DEFINE T == {x \in X \cap Inner : Chain(new, x) # Chain(prev, x)}
<1> SUFFICES ASSUME T # {} PROVE FALSE
  OBVIOUS
<1>1. T \subseteq Nodes /\ Distance(d) \in [Nodes -> Nat]
  BY InnerFacts, DistanceType
<1> HIDE DEF T
<1>2. PICK x \in T : \A y \in T : Distance(d)[x] <= Distance(d)[y]
  BY <1>1, LeastRank
<1>3. x \in X /\ x \in Inner /\ x \in Nodes /\ Chain(new, x) # Chain(prev, x) /\ new[x] = prev[x]
  BY <1>1, <1>2 DEF T
<1>4. prev[x] \in Nodes \cup {None}
  BY <1>3 DEF Leads
<1>5. Chain(new, prev[x]) = Chain(prev, prev[x])
  <2>1. CASE prev[x] \notin Inner
    BY <1>4, <2>1, ChainCharacters
  <2>2. CASE prev[x] \in Inner
    <3>1. Before(d, x, prev[x]) /\ prev[x] \in Nodes
      <4>1. prev[x] # None /\ prev[x] \in Nodes
        BY <2>2, InnerFacts, NodeFacts, InputFacts DEF None
      <4> QED BY <4>1, <1>3 DEF Leads
    <3>2. Distance(d)[prev[x]] < Distance(d)[x]
      BY <3>1, <1>3, BeforeFacts
    <3>3. prev[x] \notin T
      BY <3>1, <3>2, <1>1, <1>2, <1>3
    <3> QED BY <3>3, <2>2, <1>3 DEF T
  <2> QED BY <2>1, <2>2
<1>6. /\ Chain(new, x) = <<CharacterOf(x)>> \o Chain(new, new[x])
      /\ Chain(prev, x) = <<CharacterOf(x)>> \o Chain(prev, prev[x])
  BY <1>3, ChainUnfold
<1> QED BY <1>3, <1>5, <1>6

-----------------------------------------------------------------------------
(* What set_heuristic_solution puts together.                              *)

(* What kept, in FirstOccurrences, is said to be.                          *)
IsKept(kept, s) ==
    /\ \A i \in 0..Len(s) : kept[i] \in Seq(Characters)
    /\ kept[0] = <<>>
    /\ \A i \in 1..Len(s) :
          kept[i] = IF Contains(kept[i - 1], s[i]) THEN kept[i - 1] ELSE Append(kept[i - 1], s[i])

(* The recursive definition of FirstOccurrences has a solution.            *)
LEMMA KeptUnfold ==
    ASSUME NEW s \in Seq(Characters)
    PROVE  \E kept : IsKept(kept, s) /\ FirstOccurrences(s) = kept[Len(s)]
<1> DEFINE P == 0..Len(s)
           V == Seq(Characters)
           Longer(k, i) == IF Contains(k, s[i]) THEN k ELSE Append(k, s[i])
           Body(g) == [i \in 0..Len(s) |-> IF i = 0 THEN <<>> ELSE Longer(g[i - 1], i)]
           F == [g \in [P -> V] |-> Body(g)]
           rank == [i \in P |-> i]
           kept == CHOOSE g : g = Body(g)
<1>1. FirstOccurrences(s) = kept[Len(s)]
  BY DEF FirstOccurrences
<1>2. Len(s) \in Nat /\ \A i \in 1..Len(s) : s[i] \in Characters
  OBVIOUS
<1>3. \A i \in P : i # 0 => i - 1 \in P /\ i \in 1..Len(s)
  BY <1>2
<1>4. \A k \in V : \A i \in 1..Len(s) : Longer(k, i) \in V
  BY <1>2
<1>5. <<>> \in V
  OBVIOUS
<1>6. \A g \in [P -> V] : Body(g) \in [P -> V]
  <2> HIDE DEF Longer, V
  <2> SUFFICES ASSUME NEW g \in [P -> V], NEW i \in P
               PROVE  (IF i = 0 THEN <<>> ELSE Longer(g[i - 1], i)) \in V
    OBVIOUS
  <2> QED BY <1>3, <1>4, <1>5
<1>7. Descends(F, P, V, rank, Len(s)) /\ V # {}
  <2>1. rank \in [P -> 0..Len(s)]
    OBVIOUS
  <2>2. F \in [[P -> V] -> [P -> V]]
    <3> HIDE DEF Body, P, V
    <3> QED BY <1>6
  <2>3. \A g, h \in [P -> V] : \A i \in P :
           (\A t \in P : rank[t] < rank[i] => g[t] = h[t]) => F[g][i] = F[h][i]
    <3> SUFFICES ASSUME NEW g \in [P -> V], NEW h \in [P -> V], NEW i \in P,
                        \A t \in P : rank[t] < rank[i] => g[t] = h[t]
                 PROVE  F[g][i] = F[h][i]
      <4> HIDE DEF F, P, V, rank
      <4> QED OBVIOUS
    <3>1. i # 0 => g[i - 1] = h[i - 1]
      BY <1>2
    <3> HIDE DEF Longer, V
    <3> QED BY <3>1
  <2> HIDE DEF P, V, F, rank
  <2> QED BY <1>2, <1>5, <2>1, <2>2, <2>3 DEF Descends
<1>8. PICK g \in [P -> V] : F[g] = g
  <2> HIDE DEF P, V, F, rank
  <2> QED BY <1>7, RecursionHasSolution
<1>9. kept = Body(kept)
  <2>1. g = Body(g)
    BY <1>8
  <2> HIDE DEF Body
  <2> QED BY <2>1
<1> HIDE DEF kept
<1>10. \A i \in P : kept[i] = IF i = 0 THEN <<>> ELSE Longer(kept[i - 1], i)
  <2> HIDE DEF Longer
  <2> QED BY <1>9
<1> HIDE DEF Body
<1> DEFINE T == {i \in P : kept[i] \notin V}
<1>11. T = {}
  <2> SUFFICES ASSUME T # {} PROVE FALSE
    OBVIOUS
  <2>1. T \subseteq Nat
    BY <1>2
  <2>2. PICK i \in T : \A k \in T : i <= k
    <3> HIDE DEF T
    <3> QED BY <2>1, LeastNumber
  <2>3. i \in P /\ kept[i] \notin V
    OBVIOUS
  <2> HIDE DEF Longer, V
  <2>4. i # 0
    BY <2>3, <1>5, <1>10
  <2>5. i - 1 \in P /\ i - 1 \notin T /\ i \in 1..Len(s)
    <3>1. i - 1 < i /\ i - 1 \in Int /\ i \in Int
      BY <2>3, <1>2
    <3> HIDE DEF T, P
    <3> QED BY <3>1, <2>1, <2>2, <2>3, <2>4, <1>3
  <2>6. kept[i - 1] \in V
    BY <2>5
  <2> QED BY <2>3, <2>4, <2>5, <2>6, <1>4, <1>10
<1>12. IsKept(kept, s)
  <2> HIDE DEF V
  <2>1. \A i \in 0..Len(s) : kept[i] \in V
    BY <1>11
  <2> HIDE DEF Longer
  <2>2. kept[0] = <<>> /\ \A i \in 1..Len(s) : kept[i] = Longer(kept[i - 1], i)
    <3>1. 0 \in P /\ \A i \in 1..Len(s) : i \in P /\ i # 0
      BY <1>2
    <3> HIDE DEF P
    <3> QED BY <1>10, <3>1
  <2> QED BY <2>1, <2>2 DEF IsKept, V, Longer
<1> QED BY <1>1, <1>12

(* The first occurrences are a word without a repetition, and have the     *)
(* characters and the order of s; what s begins with without a repetition, *)
(* they begin with too.                                                    *)
LEMMA FirstOccurrencesFacts ==
    ASSUME NEW s \in Seq(Characters)
    PROVE  /\ FirstOccurrences(s) \in Seq(Characters)
           /\ Distinct(FirstOccurrences(s))
           /\ InWord(FirstOccurrences(s)) = InWord(s)
           /\ \E at \in [1..Len(FirstOccurrences(s)) -> 1..Len(s)] :
                 /\ \A i \in 1..Len(FirstOccurrences(s)) : s[at[i]] = FirstOccurrences(s)[i]
                 /\ \A i, j \in 1..Len(FirstOccurrences(s)) : i < j => at[i] < at[j]
                 /\ \A k \in 0..Len(s) : (\A i, j \in 1..k : s[i] = s[j] => i = j) =>
                       k <= Len(FirstOccurrences(s)) /\ \A i \in 1..k : at[i] = i
<1> DEFINE n == Len(s)
           Differs(k) == \A i, j \in 1..k : s[i] = s[j] => i = j
           Occur(f, m, at) ==
              /\ at \in [1..Len(f) -> 1..m]
              /\ \A i \in 1..Len(f) : s[at[i]] = f[i]
              /\ \A i, j \in 1..Len(f) : i < j => at[i] < at[j]
              /\ \A k \in 0..m : Differs(k) => k <= Len(f) /\ \A i \in 1..k : at[i] = i
           Fine(f, m) == /\ f \in Seq(Characters) /\ Len(f) <= m
                         /\ Distinct(f)
                         /\ \A i \in 1..m : \E j \in 1..Len(f) : f[j] = s[i]
                         /\ \E at : Occur(f, m, at)
<1>1. n \in Nat /\ \A i \in 1..n : s[i] \in Characters
  OBVIOUS
<1>2. PICK kept : IsKept(kept, s) /\ FirstOccurrences(s) = kept[n]
  BY KeptUnfold
<1> HIDE DEF n
<1>3. /\ \A i \in 0..n : kept[i] \in Seq(Characters)
      /\ kept[0] = <<>>
      /\ \A i \in 1..n : kept[i] = IF Contains(kept[i - 1], s[i]) THEN kept[i - 1]
                                                                 ELSE Append(kept[i - 1], s[i])
  BY <1>2 DEF IsKept, n
<1> DEFINE T == {m \in 0..n : ~Fine(kept[m], m)}
<1>4. T = {}
  <2> SUFFICES ASSUME T # {} PROVE FALSE
    OBVIOUS
  <2>1. T \subseteq Nat
    BY <1>1
  <2> HIDE DEF T
  <2>2. PICK m \in T : \A k \in T : m <= k
    BY <2>1, LeastNumber
  <2>3. m \in 0..n /\ ~Fine(kept[m], m)
    <3> HIDE DEF Fine
    <3> QED BY <2>2 DEF T
  <2>4. m # 0
    <3> SUFFICES ASSUME m = 0 PROVE FALSE
      OBVIOUS
    <3> DEFINE e == [i \in 1..0 |-> 0]
    <3>1. Occur(<<>>, 0, e)
      <4>1. \A k \in 0..0 : k = 0
        OBVIOUS
      <4>2. e \in [1..0 -> 1..0] /\ Len(<<>>) = 0
        OBVIOUS
      <4> HIDE DEF e
      <4> QED BY <4>1, <4>2
    <3>2. Fine(<<>>, 0)
      <4>1. <<>> \in Seq(Characters) /\ Len(<<>>) = 0
        OBVIOUS
      <4> HIDE DEF Occur, e
      <4> QED BY <4>1, <3>1 DEF Distinct
    <3> HIDE DEF Fine
    <3> QED BY <3>2, <2>3, <1>3
  <2>5. m \in 1..n /\ m - 1 \in 0..n /\ m \in Nat
    BY <2>3, <2>4, <1>1
  <2> DEFINE f == kept[m - 1]
             p == m - 1
             L == Len(f)
  <2>6. Fine(f, p)
    <3>1. m - 1 \notin T
      BY <2>1, <2>2, <2>5
    <3> HIDE DEF Fine
    <3> QED BY <3>1, <2>5 DEF T
  <2>7. PICK at : Occur(f, p, at)
    BY <2>6
  <2>8. /\ f \in Seq(Characters) /\ L \in Nat /\ L <= p /\ p \in Nat /\ p + 1 = m
        /\ \A i, j \in 1..L : f[i] = f[j] => i = j
        /\ \A i \in 1..p : \E j \in 1..L : f[j] = s[i]
        /\ at \in [1..L -> 1..p]
        /\ \A i \in 1..L : s[at[i]] = f[i]
        /\ \A i, j \in 1..L : i < j => at[i] < at[j]
        /\ \A k \in 0..p : Differs(k) => k <= L /\ \A i \in 1..k : at[i] = i
    <3> HIDE DEF Differs
    <3>1. p \in Nat /\ p + 1 = m
      BY <2>5
    <3>2. f \in Seq(Characters) /\ L \in Nat /\ L <= p /\ Distinct(f)
      BY <2>6
    <3> QED BY <3>1, <3>2, <2>6, <2>7 DEF Distinct
  <2>9. kept[m] = IF Contains(f, s[m]) THEN f ELSE Append(f, s[m])
    BY <1>3, <2>5
  <2>10. s[m] \in Characters /\ \A i \in 1..m : i # m => i \in 1..p
    BY <1>1, <2>5, <2>8
  <2> HIDE DEF f, p, L
  <2>11. CASE Contains(f, s[m])
    <3>1. PICK o \in 1..L : f[o] = s[m]
      BY <2>11 DEF Contains, L
    <3>2. at[o] \in 1..p /\ s[at[o]] = s[m]
      BY <3>1, <2>8
    <3>3. ~Differs(m)
      <4>1. at[o] \in 1..m /\ m \in 1..m /\ at[o] # m
        <5>1. p \in Nat /\ p + 1 = m
          BY <2>8
        <5> HIDE DEF Differs
        <5> QED BY <5>1, <3>2
      <4> QED BY <4>1, <3>2
    <3> HIDE DEF Differs
    <3>4. \A k \in 0..m : Differs(k) => k <= L /\ \A i \in 1..k : at[i] = i
      <4>1. \A k \in 0..m : k # m => k \in 0..p
        BY <2>5, <2>8
      <4> QED BY <4>1, <3>3, <2>8
    <3>5. at \in [1..L -> 1..m]
      <4>1. 1..p \subseteq 1..m
        BY <2>5, <2>8
      <4> QED BY <4>1, <2>8
    <3>6. Occur(f, m, at)
      BY <3>4, <3>5, <2>8 DEF L
    <3>7. \A i \in 1..m : \E j \in 1..L : f[j] = s[i]
      BY <3>1, <2>8, <2>10
    <3> HIDE DEF Occur
    <3>8. Fine(f, m)
      <4>1. L <= m
        BY <2>5, <2>8
      <4> QED BY <4>1, <3>6, <3>7, <2>8 DEF L, Distinct
    <3> HIDE DEF Fine
    <3> QED BY <3>8, <2>3, <2>9, <2>11
  <2>12. CASE ~Contains(f, s[m])
    <3> DEFINE u == Append(f, s[m])
               more == [i \in 1..(L + 1) |-> IF i = L + 1 THEN m ELSE at[i]]
    <3>1. \A i \in 1..L : f[i] # s[m]
      BY <2>12 DEF Contains, L
    <3>2. /\ u \in Seq(Characters) /\ Len(u) = L + 1 /\ u[L + 1] = s[m]
          /\ \A i \in 1..L : u[i] = f[i]
      BY <2>8, <2>10 DEF L
    <3>3. \A i \in 1..(L + 1) : i # L + 1 => i \in 1..L
      BY <2>8
    <3>4. /\ more[L + 1] = m
          /\ \A i \in 1..L : more[i] = at[i] /\ at[i] \in 1..p
      <4>1. L + 1 \in 1..(L + 1) /\ \A i \in 1..L : i \in 1..(L + 1) /\ i # L + 1
        BY <2>8
      <4> HIDE DEF Differs
      <4>2. \A i \in 1..L : at[i] \in 1..p
        BY <2>8
      <4> QED BY <4>1, <4>2
    <3>5. more \in [1..(L + 1) -> 1..m]
      <4>1. m \in 1..m /\ 1..p \subseteq 1..m
        BY <2>5, <2>8
      <4>2. \A i \in 1..(L + 1) : more[i] \in 1..m
        <5> HIDE DEF more
        <5> QED BY <4>1, <3>3, <3>4
      <4> QED BY <4>2
    <3> HIDE DEF u, more
    <3>6. \A i, j \in 1..(L + 1) : u[i] = u[j] => i = j
      <4> SUFFICES ASSUME NEW i \in 1..(L + 1), NEW j \in 1..(L + 1), u[i] = u[j], i # j
                   PROVE  FALSE
        OBVIOUS
      <4>1. CASE i = L + 1
        <5>1. j \in 1..L /\ u[j] = f[j] /\ u[i] = s[m]
          BY <4>1, <3>2, <3>3
        <5> QED BY <5>1, <3>1
      <4>2. CASE j = L + 1
        <5>1. i \in 1..L /\ u[i] = f[i] /\ u[j] = s[m]
          BY <4>2, <3>2, <3>3
        <5> QED BY <5>1, <3>1
      <4>3. CASE i # L + 1 /\ j # L + 1
        <5>1. i \in 1..L /\ u[i] = f[i] /\ j \in 1..L /\ u[j] = f[j]
          BY <4>3, <3>2, <3>3
        <5>2. \A a, b \in 1..L : f[a] = f[b] => a = b
          BY <2>8
        <5> QED BY <5>1, <5>2
      <4> QED BY <4>1, <4>2, <4>3
    <3>7. \A i \in 1..m : \E j \in 1..(L + 1) : u[j] = s[i]
      <4> SUFFICES ASSUME NEW i \in 1..m PROVE \E j \in 1..(L + 1) : u[j] = s[i]
        OBVIOUS
      <4>1. CASE i = m
        <5>1. L + 1 \in 1..(L + 1)
          BY <2>8
        <5> QED BY <4>1, <5>1, <3>2
      <4>2. CASE i # m
        <5>1. PICK j \in 1..L : f[j] = s[i]
          BY <4>2, <2>8, <2>10
        <5>2. j \in 1..(L + 1)
          BY <2>8
        <5> QED BY <5>1, <5>2, <3>2
      <4> QED BY <4>1, <4>2
    <3>8. \A i \in 1..(L + 1) : s[more[i]] = u[i]
      BY <3>2, <3>3, <3>4, <2>8
    <3>9. \A i, j \in 1..(L + 1) : i < j => more[i] < more[j]
      <4> SUFFICES ASSUME NEW i \in 1..(L + 1), NEW j \in 1..(L + 1), i < j
                   PROVE  more[i] < more[j]
        OBVIOUS
      <4>1. i \in 1..L
        BY <3>3, <2>8
      <4>2. CASE j = L + 1
        <5>1. more[i] \in 1..p /\ more[j] = m
          BY <4>1, <4>2, <3>4
        <5>2. p \in Nat /\ p + 1 = m
          BY <2>8
        <5> HIDE DEF more
        <5> QED BY <5>1, <5>2
      <4>3. CASE j # L + 1
        BY <4>1, <4>3, <3>3, <3>4, <2>8
      <4> QED BY <4>2, <4>3
    <3>10. \A k \in 0..m : Differs(k) => k <= L + 1 /\ \A i \in 1..k : more[i] = i
      <4> SUFFICES ASSUME NEW k \in 0..m, Differs(k)
                   PROVE  k <= L + 1 /\ \A i \in 1..k : more[i] = i
        OBVIOUS
      <4>1. CASE k # m
        <5>1. k \in 0..p
          BY <4>1, <2>5, <2>8
        <5>2. k <= L /\ \A i \in 1..k : at[i] = i
          BY <5>1, <2>8
        <5>3. \A i \in 1..k : i \in 1..L
          BY <5>1, <5>2, <2>8
        <5>4. k <= L + 1
          BY <5>1, <5>2, <2>8
        <5>5. \A i \in 1..k : more[i] = i
          BY <5>2, <5>3, <3>4
        <5> QED BY <5>4, <5>5
      <4>2. CASE k = m
        <5>1. Differs(p)
          <6>1. \A i \in 1..p : i \in 1..m
            BY <2>5, <2>8
          <6> QED BY <6>1, <4>2
        <5> HIDE DEF Differs
        <5>2. p \in 0..p
          BY <2>8
        <5>3. p <= L /\ \A i \in 1..p : at[i] = i
          BY <5>1, <5>2, <2>8
        <5>4. L = p /\ m = L + 1
          BY <5>3, <2>8
        <5>5. \A i \in 1..m : more[i] = i
          BY <5>3, <5>4, <3>4, <2>10
        <5> QED BY <4>2, <5>4, <5>5, <2>8
      <4> QED BY <4>1, <4>2
    <3> HIDE DEF Differs
    <3>11. Occur(u, m, more)
      BY <3>2, <3>5, <3>8, <3>9, <3>10
    <3> HIDE DEF Occur
    <3>12. Fine(u, m)
      <4>1. L + 1 <= m
        BY <2>8
      <4> QED BY <4>1, <3>2, <3>6, <3>7, <3>11 DEF Distinct
    <3> HIDE DEF Fine
    <3> QED BY <3>12, <2>3, <2>9, <2>12 DEF u
  <2> QED BY <2>11, <2>12
<1>5. n \in 0..n
  BY <1>1
<1> DEFINE w == FirstOccurrences(s)
<1>6. Fine(w, n)
  <2> HIDE DEF Fine
  <2> QED BY <1>2, <1>4, <1>5
<1> HIDE DEF w
<1>7. PICK at : Occur(w, n, at)
  BY <1>6
<1>8. InWord(w) = InWord(s)
  <2>1. \A i \in 1..Len(w) : at[i] \in 1..n /\ s[at[i]] = w[i]
    <3>1. at \in [1..Len(w) -> 1..n] /\ \A i \in 1..Len(w) : s[at[i]] = w[i]
      <4> HIDE DEF Differs
      <4> QED BY <1>7
    <3> QED BY <3>1
  <2>2. \A i \in 1..n : \E j \in 1..Len(w) : w[j] = s[i]
    <3> HIDE DEF Occur
    <3> QED BY <1>6
  <2> HIDE DEF Fine
  <2> QED BY <2>1, <2>2 DEF InWord, n
<1>9. w \in Seq(Characters) /\ Distinct(w)
  BY <1>6
<1> QED BY <1>7, <1>8, <1>9 DEF n, w

(* A function on 1..k is a sequence.                                       *)
LEMMA FunctionIsWord ==
    ASSUME NEW k \in Nat, NEW v \in [1..k -> Characters]
    PROVE  v \in Seq(Characters) /\ Len(v) = k
  OBVIOUS

(* The elements of a concatenation.                                        *)
LEMMA Concatenation ==
    ASSUME NEW v \in Seq(Characters), NEW u \in Seq(Characters)
    PROVE  /\ v \o u \in Seq(Characters) /\ Len(v \o u) = Len(v) + Len(u)
           /\ \A i \in 1..Len(v) : (v \o u)[i] = v[i]
           /\ \A i \in 1..Len(u) : (v \o u)[i + Len(v)] = u[i]
           /\ InWord(v \o u) = InWord(v) \cup InWord(u)
<1>1. /\ v \o u \in Seq(Characters) /\ Len(v \o u) = Len(v) + Len(u)
      /\ \A i \in 1..Len(v) : (v \o u)[i] = v[i]
      /\ \A i \in 1..Len(u) : (v \o u)[i + Len(v)] = u[i]
      /\ Len(v) \in Nat /\ Len(u) \in Nat
  OBVIOUS
<1>2. InWord(v \o u) = InWord(v) \cup InWord(u)
  <2> DEFINE c == v \o u
  <2> HIDE DEF c
  <2>1. ASSUME NEW i \in 1..Len(c) PROVE c[i] \in InWord(v) \cup InWord(u)
    <3>1. CASE i \in 1..Len(v)
      BY <3>1, <1>1 DEF InWord, c
    <3>2. CASE i \notin 1..Len(v)
      <4>1. i - Len(v) \in 1..Len(u) /\ (i - Len(v)) + Len(v) = i
        BY <3>2, <1>1 DEF c
      <4>2. c[i] = u[i - Len(v)]
        BY <4>1, <1>1 DEF c
      <4> QED BY <4>1, <4>2 DEF InWord
    <3> QED BY <3>1, <3>2
  <2>2. ASSUME NEW i \in 1..Len(v) PROVE v[i] \in InWord(c)
    <3>1. i \in 1..Len(c) /\ c[i] = v[i]
      BY <1>1 DEF c
    <3> QED BY <3>1 DEF InWord
  <2>3. ASSUME NEW i \in 1..Len(u) PROVE u[i] \in InWord(c)
    <3>1. i + Len(v) \in 1..Len(c) /\ c[i + Len(v)] = u[i]
      BY <1>1 DEF c
    <3> QED BY <3>1 DEF InWord
  <2>4. InWord(c) \subseteq InWord(v) \cup InWord(u)
    BY <2>1 DEF InWord
  <2>5. InWord(v) \subseteq InWord(c) /\ InWord(u) \subseteq InWord(c)
    <3>1. \A x \in InWord(v) : x \in InWord(c)
      BY <2>2 DEF InWord
    <3>2. \A x \in InWord(u) : x \in InWord(c)
      BY <2>3 DEF InWord
    <3> QED BY <3>1, <3>2
  <2> QED BY <2>4, <2>5 DEF c
<1> QED BY <1>1, <1>2

(* Which character of both comes at which place of the solution: what is   *)
(* ahead of the match in the order in which it is met or the other way     *)
(* round, and behind it in the other.                                      *)
PlaceIn(d, n, L, p) ==
    IF d = "forward" THEN IF p <= n - L THEN n + 1 - p ELSE p - (n - L)
                     ELSE IF p <= L THEN L + 1 - p ELSE p

(* The places are those of both, each once.                                *)
LEMMA PlaceInFacts ==
    ASSUME NEW d, NEW n \in Nat, NEW L \in 0..n
    PROVE  /\ \A p \in 1..n : PlaceIn(d, n, L, p) \in 1..n
           /\ \A p, q \in 1..n : PlaceIn(d, n, L, p) = PlaceIn(d, n, L, q) => p = q
           /\ \A i \in 1..n : \E p \in 1..n : PlaceIn(d, n, L, p) = i
           /\ \A p, q \in 1..n : p < q =>
                 LET i == PlaceIn(d, n, L, p)
                     j == PlaceIn(d, n, L, q)
                 IN  IF d = "forward" THEN \/ i <= L /\ j <= L /\ i < j
                                           \/ i > L /\ j <= L
                                           \/ i > L /\ j > L /\ j < i
                                      ELSE \/ i <= L /\ j <= L /\ j < i
                                           \/ i <= L /\ j > L
                                           \/ i > L /\ j > L /\ i < j
<1>1. \A p \in 1..n : PlaceIn(d, n, L, p) \in 1..n
  BY DEF PlaceIn
<1>2. \A p, q \in 1..n : PlaceIn(d, n, L, p) = PlaceIn(d, n, L, q) => p = q
  BY DEF PlaceIn
<1>3. ASSUME NEW i \in 1..n PROVE \E p \in 1..n : PlaceIn(d, n, L, p) = i
  <2> DEFINE p == IF d = "forward" THEN IF i <= L THEN i + (n - L) ELSE n + 1 - i
                                   ELSE IF i <= L THEN L + 1 - i ELSE i
  <2>1. p \in 1..n
    OBVIOUS
  <2>2. PlaceIn(d, n, L, p) = i
    BY DEF PlaceIn
  <2> QED BY <2>1, <2>2
<1>4. ASSUME NEW p \in 1..n, NEW q \in 1..n, p < q
      PROVE  LET i == PlaceIn(d, n, L, p)
                 j == PlaceIn(d, n, L, q)
             IN  IF d = "forward" THEN \/ i <= L /\ j <= L /\ i < j
                                       \/ i > L /\ j <= L
                                       \/ i > L /\ j > L /\ j < i
                                  ELSE \/ i <= L /\ j <= L /\ j < i
                                       \/ i <= L /\ j > L
                                       \/ i > L /\ j > L /\ i < j
  BY <1>4 DEF PlaceIn
<1> QED BY <1>1, <1>2, <1>3, <1>4

(* What is ahead, the other way round, and then what is left of both.      *)
InOrder(d, ahead, both) ==
    LET built == Reverse(ahead) \o SubSeq(both, Len(ahead) + 1, Len(both))
    IN  IF d = "forward" THEN Reverse(built) ELSE built

(* It consists of the characters of both, each at the place PlaceIn says.  *)
LEMMA ThroughIsOrdered ==
    ASSUME NEW d \in Directions, NEW ahead \in Seq(Characters), NEW both \in Seq(Characters),
           Len(ahead) <= Len(both), \A i \in 1..Len(ahead) : both[i] = ahead[i]
    PROVE  /\ InOrder(d, ahead, both) \in Seq(Characters)
           /\ Len(InOrder(d, ahead, both)) = Len(both)
           /\ \A p \in 1..Len(both) :
                 InOrder(d, ahead, both)[p] = both[PlaceIn(d, Len(both), Len(ahead), p)]
<1> DEFINE n == Len(both)
           L == Len(ahead)
           front == Reverse(ahead)
           rest == SubSeq(both, L + 1, n)
           built == front \o rest
           w == InOrder(d, ahead, both)
<1>1. /\ n \in Nat /\ L \in 0..n
      /\ \A i \in 1..n : both[i] \in Characters
      /\ \A i \in 1..L : ahead[i] \in Characters
  OBVIOUS
<1>2. /\ front \in Seq(Characters) /\ Len(front) = L
      /\ \A i \in 1..L : front[i] = ahead[L + 1 - i]
  <2>1. \A i \in 1..L : L - i + 1 \in 1..L /\ L - i + 1 = L + 1 - i
    BY <1>1
  <2>2. front = [i \in 1..L |-> ahead[L - i + 1]]
    BY DEF Reverse
  <2>3. front \in [1..L -> Characters]
    BY <1>1, <2>1, <2>2
  <2> HIDE DEF front, L
  <2> QED BY <1>1, <2>1, <2>2, <2>3
<1>3. /\ rest \in Seq(Characters) /\ Len(rest) = n - L
      /\ \A i \in 1..(n - L) : rest[i] = both[i + L]
  BY <1>1
<1> HIDE DEF front, rest, n, L
<1>4. /\ built \in Seq(Characters) /\ Len(built) = n
      /\ \A i \in 1..L : built[i] = front[i]
      /\ \A i \in 1..(n - L) : built[i + L] = rest[i]
  <2>1. /\ built \in Seq(Characters) /\ Len(built) = Len(front) + Len(rest)
        /\ \A i \in 1..Len(front) : built[i] = front[i]
        /\ \A i \in 1..Len(rest) : built[i + Len(front)] = rest[i]
    BY <1>2, <1>3, Concatenation
  <2> HIDE DEF built
  <2> QED BY <2>1, <1>1, <1>2, <1>3
<1>5. \A p \in 1..n : built[p] = IF p <= L THEN both[L + 1 - p] ELSE both[p]
  <2> SUFFICES ASSUME NEW p \in 1..n PROVE built[p] = IF p <= L THEN both[L + 1 - p] ELSE both[p]
    OBVIOUS
  <2>1. CASE p <= L
    <3>1. p \in 1..L /\ L + 1 - p \in 1..L
      BY <2>1, <1>1
    <3>2. built[p] = ahead[L + 1 - p] /\ ahead[L + 1 - p] = both[L + 1 - p]
      BY <3>1, <1>2, <1>4 DEF L
    <3> QED BY <3>2, <2>1
  <2>2. CASE ~(p <= L)
    <3>1. p - L \in 1..(n - L) /\ (p - L) + L = p
      BY <2>2, <1>1
    <3>2. built[p] = rest[p - L] /\ rest[p - L] = both[p]
      BY <3>1, <1>3, <1>4
    <3> QED BY <3>2, <2>2
  <2> QED BY <2>1, <2>2
<1> HIDE DEF built, w
<1>6. CASE d # "forward"
  <2>1. w = built
    BY <1>6 DEF InOrder, w, built, front, rest, L, n
  <2>2. \A p \in 1..n : w[p] = both[PlaceIn(d, n, L, p)]
    BY <2>1, <1>5, <1>6 DEF PlaceIn
  <2> QED BY <2>1, <2>2, <1>4 DEF n, L, w
<1>7. CASE d = "forward"
  <2>1. w = Reverse(built)
    BY <1>7 DEF InOrder, w, built, front, rest, L, n
  <2>2. \A p \in 1..n : n - p + 1 \in 1..n /\ n - p + 1 = n + 1 - p
    BY <1>1
  <2>3. w = [p \in 1..n |-> built[n - p + 1]]
    BY <2>1, <1>4 DEF Reverse
  <2>4. \A p \in 1..n : built[p] \in Characters
    BY <1>4
  <2>5. w \in [1..n -> Characters] /\ \A p \in 1..n : w[p] = built[n + 1 - p]
    BY <2>2, <2>3, <2>4
  <2>6. w \in Seq(Characters) /\ Len(w) = n
    BY <2>5, <1>1, FunctionIsWord
  <2>7. \A p \in 1..n : w[p] = both[PlaceIn(d, n, L, p)]
    <3> SUFFICES ASSUME NEW p \in 1..n PROVE w[p] = both[PlaceIn(d, n, L, p)]
      OBVIOUS
    <3>1. n + 1 - p \in 1..n /\ w[p] = built[n + 1 - p]
      BY <2>2, <2>5
    <3>2. built[n + 1 - p] = IF n + 1 - p <= L THEN both[L + 1 - (n + 1 - p)] ELSE both[n + 1 - p]
      BY <3>1, <1>5
    <3>3. /\ n + 1 - p <= L <=> ~(p <= n - L)
          /\ L + 1 - (n + 1 - p) = p - (n - L)
      BY <1>1
    <3>4. PlaceIn(d, n, L, p) = IF p <= n - L THEN n + 1 - p ELSE p - (n - L)
      BY <1>7 DEF PlaceIn
    <3>5. CASE p <= n - L
      BY <3>1, <3>2, <3>3, <3>4, <3>5
    <3>6. CASE ~(p <= n - L)
      BY <3>1, <3>2, <3>3, <3>4, <3>6
    <3> QED BY <3>5, <3>6
  <2> QED BY <2>6, <2>7 DEF n, L, w
<1> QED BY <1>6, <1>7 DEF w

(* Whatever chains there are through m, what is put together from them is  *)
(* a solution, and has all of their characters.                            *)
LEMMA ThroughIsSolution ==
    ASSUME strings \in Inputs, NEW d \in Directions, NEW m \in Inner, NEW prev,
           \A e \in Directions : Leads(e, prev[e])
    PROVE  /\ SolutionThrough(d, m, prev) \in Solutions(strings)
           /\ SolutionThrough(d, m, prev) \in Seq(Characters)
           /\ Len(SolutionThrough(d, m, prev)) =
                 Cardinality(InWord(Chain(prev[d], m)) \cup InWord(Chain(prev[Opposite(d)], m)))
<1> DEFINE o == Opposite(d)
           A == Chain(prev[d], m)
           B == Chain(prev[o], m)
           ahead == FirstOccurrences(A)
           joined == ahead \o B
           both == FirstOccurrences(joined)
           w == SolutionThrough(d, m, prev)
           n == Len(both)
           L == Len(ahead)
<1>1. /\ o \in Directions /\ Leads(d, prev[d]) /\ Leads(o, prev[o])
      /\ m \in Nodes /\ CharacterOf(m) \in Characters
  BY DirectionFacts, InnerFacts
<1>2. A \in Seq(Characters) /\ B \in Seq(Characters)
  BY <1>1, ChainUnfold
<1>3. PICK eA \in [1..Len(A) -> Inner] :
         /\ eA[1] = m
         /\ \A i \in 1..Len(A) : CharacterOf(eA[i]) = A[i]
         /\ \A i, j \in 1..Len(A) : i < j => Before(d, eA[i], eA[j])
  BY <1>1, ChainTrace
<1>4. PICK eB \in [1..Len(B) -> Inner] :
         /\ eB[1] = m
         /\ \A i \in 1..Len(B) : CharacterOf(eB[i]) = B[i]
         /\ \A i, j \in 1..Len(B) : i < j => Before(o, eB[i], eB[j])
  BY <1>1, ChainTrace
<1>5. Len(A) \in Nat \ {0} /\ Len(B) \in Nat \ {0}
  BY <1>1, ChainTrace
<1>6. w = InOrder(d, ahead, both)
  BY DEF SolutionThrough, InOrder
<1> HIDE DEF w, A, B
<1>7. ahead \in Seq(Characters) /\ Distinct(ahead) /\ InWord(ahead) = InWord(A) /\ L \in Nat
  BY <1>2, FirstOccurrencesFacts
<1>8. PICK atA \in [1..L -> 1..Len(A)] :
         /\ \A i \in 1..L : A[atA[i]] = ahead[i]
         /\ \A i, j \in 1..L : i < j => atA[i] < atA[j]
  BY <1>2, FirstOccurrencesFacts
<1> HIDE DEF ahead
<1>9. /\ joined \in Seq(Characters) /\ Len(joined) = L + Len(B)
      /\ \A i \in 1..L : joined[i] = ahead[i]
      /\ \A i \in 1..Len(B) : joined[i + L] = B[i]
      /\ InWord(joined) = InWord(ahead) \cup InWord(B)
  BY <1>2, <1>7, Concatenation
<1> HIDE DEF joined
<1>10. both \in Seq(Characters) /\ Distinct(both) /\ InWord(both) = InWord(joined) /\ n \in Nat
  BY <1>9, FirstOccurrencesFacts
<1>11. PICK at \in [1..n -> 1..Len(joined)] :
          /\ \A i \in 1..n : joined[at[i]] = both[i]
          /\ \A i, j \in 1..n : i < j => at[i] < at[j]
          /\ \A k \in 0..Len(joined) : (\A i, j \in 1..k : joined[i] = joined[j] => i = j) =>
                k <= n /\ \A i \in 1..k : at[i] = i
  BY <1>9, FirstOccurrencesFacts
<1> HIDE DEF both, n, L
<1>12. L <= n /\ \A i \in 1..L : at[i] = i /\ both[i] = ahead[i]
  <2>1. L \in 0..Len(joined)
    BY <1>5, <1>7, <1>9
  <2>2. \A i, j \in 1..L : joined[i] = joined[j] => i = j
    BY <1>7, <1>9 DEF Distinct, L
  <2>3. L <= n /\ \A i \in 1..L : at[i] = i
    BY <2>1, <2>2, <1>11
  <2>4. \A i \in 1..L : i \in 1..n
    BY <2>3, <1>7, <1>10
  <2> QED BY <2>3, <2>4, <1>9, <1>11
(* The matches of what is put together.                                    *)
<1> DEFINE N == [i \in 1..n |-> IF i <= L THEN eA[atA[i]] ELSE eB[at[i] - L]]
<1>13. ASSUME NEW i \in 1..n, i <= L
       PROVE  /\ i \in 1..L /\ N[i] = eA[atA[i]] /\ N[i] \in Inner /\ CharacterOf(N[i]) = both[i]
              /\ N[i] = m \/ Before(d, m, N[i])
  <2>1. i \in 1..L /\ N[i] = eA[atA[i]] /\ atA[i] \in 1..Len(A)
    BY <1>13, <1>7, <1>8, <1>10
  <2>2. N[i] \in Inner /\ CharacterOf(N[i]) = both[i]
    <3> HIDE DEF N
    <3> QED BY <2>1, <1>3, <1>8, <1>12
  <2>3. N[i] = m \/ Before(d, m, N[i])
    <3> HIDE DEF N
    <3>1. 1 \in 1..Len(A)
      BY <1>5
    <3>2. atA[i] = 1 \/ 1 < atA[i]
      BY <2>1, <1>5
    <3> QED BY <2>1, <3>1, <3>2, <1>3
  <2> QED BY <2>1, <2>2, <2>3
<1>14. ASSUME NEW i \in 1..n, ~(i <= L)
       PROVE  /\ at[i] - L \in 1..Len(B) /\ N[i] = eB[at[i] - L]
              /\ N[i] \in Inner /\ CharacterOf(N[i]) = both[i] /\ Before(o, m, N[i])
  <2>1. N[i] = eB[at[i] - L] /\ at[i] \in 1..Len(joined)
    BY <1>14, <1>11
  <2>2. at[i] > L
    <3>1. CASE L = 0
      BY <3>1, <2>1, <1>9
    <3>2. CASE L # 0
      <4>1. L \in 1..L /\ L \in 1..n /\ L < i
        BY <3>2, <1>14, <1>7, <1>10, <1>12
      <4>2. at[L] = L /\ at[L] < at[i]
        BY <4>1, <1>11, <1>12
      <4> QED BY <4>2
    <3> QED BY <3>1, <3>2
  <2>3. at[i] - L \in 1..Len(B) /\ (at[i] - L) + L = at[i]
    BY <2>1, <2>2, <1>5, <1>7, <1>9
  <2>4. both[i] = B[at[i] - L]
    BY <2>3, <1>9, <1>11
  <2>5. N[i] \in Inner /\ CharacterOf(N[i]) = both[i]
    <3> HIDE DEF N
    <3> QED BY <2>1, <2>3, <2>4, <1>4
  <2>6. at[i] - L # 1
    <3> SUFFICES ASSUME at[i] - L = 1 PROVE FALSE
      OBVIOUS
    <3>1. both[i] = B[1] /\ B[1] = CharacterOf(m) /\ A[1] = CharacterOf(m)
      <4>1. 1 \in 1..Len(A) /\ 1 \in 1..Len(B)
        BY <1>5
      <4> QED BY <4>1, <2>4, <1>3, <1>4
    <3>2. both[i] \in InWord(A)
      <4>1. 1 \in 1..Len(A)
        BY <1>5
      <4> QED BY <4>1, <3>1 DEF InWord
    <3>3. PICK k \in 1..L : ahead[k] = both[i]
      BY <3>2, <1>7 DEF InWord, L
    <3>4. k \in 1..n /\ both[k] = both[i] /\ k # i
      BY <3>3, <1>7, <1>10, <1>12, <1>14
    <3> QED BY <3>4, <1>10 DEF Distinct, n
  <2>7. Before(o, m, N[i])
    <3> HIDE DEF N
    <3>1. 1 \in 1..Len(B) /\ 1 < at[i] - L
      BY <2>3, <2>6, <1>5
    <3> QED BY <2>1, <2>3, <3>1, <1>4
  <2> QED BY <2>1, <2>3, <2>5, <2>7
<1>15. ASSUME NEW i \in 1..n PROVE N[i] \in Inner /\ N[i] \in Nodes /\ CharacterOf(N[i]) = both[i]
  <2> HIDE DEF N
  <2>1. N[i] \in Inner /\ CharacterOf(N[i]) = both[i]
    BY <1>13, <1>14
  <2> QED BY <2>1, InnerFacts
<1>16. ASSUME NEW i \in 1..n, NEW j \in 1..n, i <= L, j <= L, i < j
       PROVE  Before(d, N[i], N[j])
  <2> HIDE DEF N
  <2>1. atA[i] < atA[j] /\ atA[i] \in 1..Len(A) /\ atA[j] \in 1..Len(A)
    BY <1>13, <1>16, <1>8
  <2> QED BY <2>1, <1>13, <1>16, <1>3
<1>17. ASSUME NEW i \in 1..n, NEW j \in 1..n, ~(i <= L), ~(j <= L), i < j
       PROVE  Before(d, N[j], N[i])
  <2> HIDE DEF N
  <2>1. at[i] - L < at[j] - L /\ at[i] - L \in 1..Len(B) /\ at[j] - L \in 1..Len(B)
    <3>1. at[i] < at[j] /\ at[i] \in Int /\ at[j] \in Int
      BY <1>17, <1>11
    <3> QED BY <3>1, <1>7, <1>14, <1>17
  <2>2. Before(o, N[i], N[j])
    BY <2>1, <1>4, <1>14, <1>17
  <2> QED BY <2>2, <1>15, BeforeFacts
<1>18. ASSUME NEW i \in 1..n, NEW j \in 1..n, i <= L, ~(j <= L)
       PROVE  Before(d, N[j], N[i])
  <2> HIDE DEF N
  <2>1. Before(d, N[j], m)
    <3>1. Before(o, m, N[j])
      BY <1>14, <1>18
    <3> QED BY <3>1, <1>1, <1>15, BeforeFacts
  <2>2. N[i] = m \/ Before(d, m, N[i])
    BY <1>13, <1>18
  <2> QED BY <2>1, <2>2, <1>1, <1>15, BeforeTransitive
<1> HIDE DEF N
<1> DEFINE q(p) == PlaceIn(d, n, L, p)
<1>19. w \in Seq(Characters) /\ Len(w) = n /\ \A p \in 1..n : w[p] = both[q(p)]
  <2>1. Len(ahead) <= Len(both) /\ \A i \in 1..Len(ahead) : both[i] = ahead[i]
    BY <1>12 DEF n, L
  <2>2. /\ w \in Seq(Characters) /\ Len(w) = Len(both)
        /\ \A p \in 1..Len(both) : w[p] = both[PlaceIn(d, Len(both), Len(ahead), p)]
    BY <1>6, <1>7, <1>10, <2>1, ThroughIsOrdered
  <2> QED BY <2>2 DEF n, L
<1>20. /\ \A p \in 1..n : q(p) \in 1..n
       /\ \A p, r \in 1..n : q(p) = q(r) => p = r
       /\ \A i \in 1..n : \E p \in 1..n : q(p) = i
       /\ \A p, r \in 1..n : p < r =>
             IF d = "forward" THEN \/ q(p) <= L /\ q(r) <= L /\ q(p) < q(r)
                                   \/ q(p) > L /\ q(r) <= L
                                   \/ q(p) > L /\ q(r) > L /\ q(r) < q(p)
                              ELSE \/ q(p) <= L /\ q(r) <= L /\ q(r) < q(p)
                                   \/ q(p) <= L /\ q(r) > L
                                   \/ q(p) > L /\ q(r) > L /\ q(p) < q(r)
  <2>1. n \in Nat /\ L \in 0..n
    BY <1>7, <1>10, <1>12
  <2> QED BY <2>1, PlaceInFacts
<1> HIDE DEF q
<1>21. Distinct(w)
  <2> SUFFICES ASSUME NEW p \in 1..n, NEW r \in 1..n, w[p] = w[r] PROVE p = r
    BY <1>19 DEF Distinct
  <2>1. both[q(p)] = both[q(r)] /\ q(p) \in 1..n /\ q(r) \in 1..n
    BY <1>19, <1>20
  <2>2. q(p) = q(r)
    BY <2>1, <1>10 DEF Distinct, n
  <2> QED BY <2>2, <1>20
<1> DEFINE e == [p \in 1..n |-> N[q(p)]]
<1>22. /\ e \in [1..n -> Inner]
       /\ \A p \in 1..n : e[p] = N[q(p)] /\ CharacterOf(e[p]) = w[p]
  BY <1>15, <1>19, <1>20
<1>23. ASSUME NEW p \in 1..n, NEW r \in 1..n, p < r PROVE Before("forward", e[p], e[r])
  <2> HIDE DEF e
  <2>1. /\ q(p) \in 1..n /\ q(r) \in 1..n /\ e[p] = N[q(p)] /\ e[r] = N[q(r)]
        /\ N[q(p)] \in Nodes /\ N[q(r)] \in Nodes
    BY <1>15, <1>20, <1>22
  <2>2. /\ q(p) > L <=> ~(q(p) <= L)
        /\ q(r) > L <=> ~(q(r) <= L)
    BY <2>1, <1>7, <1>10
  <2>3. CASE d = "forward"
    <3>1. \/ q(p) <= L /\ q(r) <= L /\ q(p) < q(r)
          \/ q(p) > L /\ q(r) <= L
          \/ q(p) > L /\ q(r) > L /\ q(r) < q(p)
      BY <1>20, <1>23, <2>3
    <3>2. Before(d, N[q(p)], N[q(r)])
      BY <3>1, <2>1, <2>2, <1>16, <1>17, <1>18
    <3> QED BY <3>2, <2>1, <2>3
  <2>4. CASE d # "forward"
    <3>1. \/ q(p) <= L /\ q(r) <= L /\ q(r) < q(p)
          \/ q(p) <= L /\ q(r) > L
          \/ q(p) > L /\ q(r) > L /\ q(p) < q(r)
      BY <1>20, <1>23, <2>4
    <3>2. Before(d, N[q(r)], N[q(p)])
      BY <3>1, <2>1, <2>2, <1>16, <1>17, <1>18
    <3>3. o = "forward"
      BY <2>4 DEF Opposite
    <3>4. Before(o, N[q(p)], N[q(r)])
      BY <3>2, <2>1, BeforeFacts
    <3> QED BY <3>3, <3>4, <2>1
  <2> QED BY <2>3, <2>4
<1> HIDE DEF e
<1>24. w \in Solutions(strings)
  BY <1>19, <1>21, <1>22, <1>23, ThreadIsSolution
<1>25. InWord(w) = InWord(A) \cup InWord(B)
  <2>1. InWord(w) = InWord(both)
    <3>1. ASSUME NEW p \in 1..n PROVE w[p] \in InWord(both)
      <4>1. w[p] = both[q(p)] /\ q(p) \in 1..n
        BY <1>19, <1>20
      <4> QED BY <4>1 DEF InWord, n
    <3>2. ASSUME NEW i \in 1..n PROVE both[i] \in InWord(w)
      <4>1. PICK p \in 1..n : q(p) = i
        BY <1>20
      <4>2. w[p] = both[i]
        BY <4>1, <1>19
      <4> QED BY <4>2, <1>19 DEF InWord
    <3>3. InWord(w) = {w[p] : p \in 1..n} /\ InWord(both) = {both[p] : p \in 1..n}
      BY <1>19 DEF InWord, n
    <3> QED BY <3>1, <3>2, <3>3
  <2> QED BY <2>1, <1>7, <1>9, <1>10
<1>26. Len(w) = Cardinality(InWord(A) \cup InWord(B))
  BY <1>19, <1>21, <1>25, DistinctCount
<1> QED BY <1>19, <1>24, <1>26 DEF w, A, B


-----------------------------------------------------------------------------
(* What the heuristic holds is a solution.                                 *)

(* The state of the matches, and what a pass has been through.             *)
MemoryOK ==
    /\ heurChars \in [Directions -> [Nodes -> SUBSET Characters]]
    /\ previous \in [Directions -> [Nodes -> Nodes \cup {None}]]
    /\ pass \in Directions \cup {"over"}
    /\ found \in Nat
    /\ visited \subseteq active \cup {Root, Leaf}
    /\ pass = "over" => visited = {}

(* The characters of a match include its own; the end has none.            *)
CharactersOK ==
    \A d \in Directions : /\ heurChars[d][Sink(d)] = {}
                          /\ \A m \in Inner : CharacterOf(m) \in heurChars[d][m]

ChainsLead == \A d \in Directions : Leads(d, previous[d])

OnChain(d, m) == InWord(Chain(previous[d], m))

(* The direction of the last complete pass.                                *)
SettledDirection == IF pass = "reverse" THEN "forward" ELSE "reverse"

(* What an active match is said to have ahead of it in that direction it   *)
(* still has on its chain, although the chain may lead through matches     *)
(* that have been deactivated.                                             *)
Settled == \A m \in active : heurChars[SettledDirection][m] \subseteq OnChain(SettledDirection, m)

(* The same for what the pass that runs has been through; these chains are *)
(* not going to change any more before it is over.                         *)
VisitedSettled ==
    pass \in Directions =>
       \A m \in visited \cap Inner : /\ heurChars[pass][m] \subseteq OnChain(pass, m)
                                     /\ Cardinality(heurChars[pass][m]) <= found
                                     /\ previous[pass][m] \in visited \cup {Sink(pass)}

(* Once it has begun, a round is not interrupted.                          *)
RoundRuns == (pass # "forward" \/ visited # {}) => pc = "heuristic" /\ RoundGoesOn

HInv == /\ MemoryOK /\ CharactersOK /\ ChainsLead /\ Settled /\ VisitedSettled /\ RoundRuns
        /\ LowerIsWitnessed

(* What depends on the strings only stays what it is.                      *)
LEMMA ChainsUnchanged ==
    ASSUME strings' = strings
    PROVE  /\ Nodes' = Nodes /\ Inner' = Inner /\ Root' = Root /\ Leaf' = Leaf
           /\ \A m : CharacterOf(m)' = CharacterOf(m)
           /\ \A d \in Directions : Sink(d)' = Sink(d) /\ Source(d)' = Source(d)
           /\ \A d, prev : Leads(d, prev)' <=> Leads(d, prev)
           /\ \A prev, m : Chain(prev, m)' = Chain(prev, m)
           /\ BadRunsLimit' = BadRunsLimit
           /\ Solutions(strings)' = Solutions(strings)
<1>1. Inner' = Inner /\ Root' = Root /\ Leaf' = Leaf
  BY DEF Inner, Root, Leaf
<1>2. \A m : CharacterOf(m)' = CharacterOf(m)
  BY DEF CharacterOf
<1>3. Nodes' = Nodes
  BY <1>1 DEF Nodes
<1>4. \A d \in Directions : Sink(d)' = Sink(d) /\ Source(d)' = Source(d)
  BY <1>1 DEF Sink, Source
<1>5. \A d, prev : Leads(d, prev)' <=> Leads(d, prev)
  BY <1>1, <1>3 DEF Leads
<1>6. \A prev, m : Chain(prev, m)' = Chain(prev, m)
  BY <1>1, <1>2, <1>3 DEF Chain
<1>7. BadRunsLimit' = BadRunsLimit
  BY DEF BadRunsLimit
<1>8. Solutions(strings)' = Solutions(strings)
  OBVIOUS
<1> QED BY <1>1, <1>2, <1>3, <1>4, <1>5, <1>6, <1>7, <1>8

(* A subset of a set of characters has at most as many of them.            *)
LEMMA CountMonotone ==
    ASSUME NEW Y \in SUBSET Characters, NEW X \in SUBSET Y
    PROVE  Cardinality(X) \in Nat /\ Cardinality(Y) \in Nat /\ Cardinality(X) <= Cardinality(Y)
<1>1. IsFiniteSet(Y)
  BY CharactersFinite, FS_Subset
<1>2. IsFiniteSet(X) /\ Cardinality(X) <= Cardinality(Y)
  BY <1>1, FS_Subset
<1> QED BY <1>1, <1>2, FS_CardinalityType

(* What is on the chain of a match are characters, its own one included.   *)
LEMMA OnChainFacts ==
    ASSUME strings \in Inputs, NEW d \in Directions, NEW prev, Leads(d, prev), NEW m \in Inner
    PROVE  InWord(Chain(prev, m)) \subseteq Characters /\ CharacterOf(m) \in InWord(Chain(prev, m))
<1>1. m \in Nodes \cup {None}
  BY InnerFacts
<1>2. Chain(prev, m) \in Seq(Characters)
  BY <1>1, ChainUnfold
<1>3. InWord(Chain(prev, m)) \subseteq Characters
  BY <1>2 DEF InWord
<1> QED BY <1>3, ChainCharacters

(* Initially the matches know no characters but their own.                 *)
LEMMA HeuristicInitially == HeuristicInit => HInv
<1> SUFFICES ASSUME HeuristicInit PROVE HInv
  OBVIOUS
<1>1. /\ strings \in Inputs /\ active = Inner /\ found = 0 /\ solution = <<>>
      /\ heurChars = [d \in Directions |-> [m \in Nodes |-> OwnCharacter(m)]]
      /\ previous = [d \in Directions |-> [m \in Nodes |-> None]]
      /\ pass = "forward" /\ visited = {}
  BY DEF HeuristicInit, Init
<1>2. \A m \in Inner : CharacterOf(m) \in Characters /\ m \in Nodes /\ m # Root /\ m # Leaf
  BY <1>1, InnerFacts
<1>3. \A d \in Directions : Sink(d) \in Nodes /\ Sink(d) \notin Inner
  BY <1>1, <1>2, DirectionFacts
<1>4. MemoryOK
  BY <1>1, <1>2 DEF MemoryOK, OwnCharacter, Directions
<1>5. CharactersOK
  BY <1>1, <1>2, <1>3 DEF CharactersOK, OwnCharacter
<1>6. ChainsLead
  BY <1>1, <1>2 DEF ChainsLead, Leads
<1>7. Settled
  <2> SUFFICES ASSUME NEW m \in Inner
               PROVE  heurChars["reverse"][m] \subseteq OnChain("reverse", m)
    BY <1>1 DEF Settled, SettledDirection
  <2>1. heurChars["reverse"][m] = {CharacterOf(m)}
    BY <1>1, <1>2 DEF OwnCharacter, Directions
  <2>2. "reverse" \in Directions
    BY DEF Directions
  <2>3. CharacterOf(m) \in OnChain("reverse", m)
    BY <1>1, <1>6, <2>2, OnChainFacts DEF ChainsLead, OnChain
  <2> QED BY <2>1, <2>3
<1>8. VisitedSettled
  BY <1>1 DEF VisitedSettled
<1>9. RoundRuns
  BY <1>1 DEF RoundRuns
<1>10. LowerIsWitnessed
  <2>1. <<>> \in Solutions(strings)
    BY <1>1, SolutionFacts
  <2> QED BY <1>1, <2>1 DEF LowerIsWitnessed
<1> QED BY <1>4, <1>5, <1>6, <1>7, <1>8, <1>9, <1>10 DEF HInv

(* Between the rounds, matches may be deactivated.                         *)
LEMMA MemoryStays ==
    ASSUME HInv, UNCHANGED <<strings, heurVars>>,
           active' \subseteq active, visited \subseteq active' \cup {Root, Leaf}, RoundRuns'
    PROVE  HInv'
<1>1. /\ strings' = strings /\ found' = found /\ solution' = solution /\ heurChars' = heurChars
      /\ previous' = previous /\ pass' = pass /\ visited' = visited
  BY DEF heurVars
<1>2. /\ Nodes' = Nodes /\ Inner' = Inner /\ Root' = Root /\ Leaf' = Leaf
      /\ \A m : CharacterOf(m)' = CharacterOf(m)
      /\ \A d \in Directions : Sink(d)' = Sink(d) /\ Source(d)' = Source(d)
      /\ \A d, prev : Leads(d, prev)' <=> Leads(d, prev)
      /\ \A prev, m : Chain(prev, m)' = Chain(prev, m)
      /\ Solutions(strings)' = Solutions(strings)
  BY <1>1, ChainsUnchanged
<1>3. MemoryOK'
  BY <1>1, <1>2 DEF HInv, MemoryOK
<1>4. CharactersOK'
  BY <1>1, <1>2 DEF HInv, CharactersOK
<1>5. ChainsLead'
  BY <1>1, <1>2 DEF HInv, ChainsLead
<1>6. /\ \A d, m : OnChain(d, m)' = OnChain(d, m)
      /\ SettledDirection' = SettledDirection
  BY <1>1, <1>2 DEF OnChain, SettledDirection
<1>7. Settled'
  BY <1>1, <1>6 DEF HInv, Settled
<1>8. VisitedSettled'
  BY <1>1, <1>2, <1>6 DEF HInv, VisitedSettled
<1>9. LowerIsWitnessed'
  BY <1>1, <1>2 DEF HInv, LowerIsWitnessed
<1> QED BY <1>3, <1>4, <1>5, <1>7, <1>8, <1>9 DEF HInv


(* The successors that can be followed are ahead.                          *)
LEMMA FollowedIsAhead ==
    ASSUME GraphOK, NEW d \in Directions, NEW m \in Nodes, m # Sink(d), NEW t \in ActiveDom(d, m)
    PROVE  /\ t \in Nodes /\ t \in active \cup {Sink(d)} /\ Before(d, m, t)
           /\ m \in Inner \/ m = Source(d)
<1>1. strings \in Inputs /\ dom[d][m] \subseteq SuccessorMatches(d, m) \cup {Sink(d)}
  BY DEF GraphOK, ControlOK, ArcsOK
<1>2. m \in Inner \/ m = Source(d)
  BY DirectionFacts DEF Nodes, Source, Sink, Opposite, Directions
<1>3. t \in Nodes /\ t \in active \cup {Sink(d)} /\ t \in dom[d][m]
  BY ArcFacts
<1>4. CASE t \in SuccessorMatches(d, m)
  BY <1>1, <1>2, <1>3, <1>4, SuccessorFacts
<1>5. CASE t = Sink(d)
  <2>1. Before(d, Source(d), Sink(d))
    BY <1>1, InputFacts
       DEF Before, Ahead, Source, Sink, Root, Leaf, Opposite, Directions, Size1, Size2
  <2> QED BY <1>1, <1>2, <1>3, <1>5, <2>1, EndsFacts
<1> QED BY <1>1, <1>2, <1>3, <1>4, <1>5

(* As the matches are gone through from the far end, the pass has been     *)
(* through what the next one can follow.                                   *)
LEMMA FollowedIsVisited ==
    ASSUME GraphOK, NEW d \in Directions, NEW m \in ToVisit(d), m \in Nodes, m # Sink(d),
           \A n \in ToVisit(d) \ {m} : FartherThan(d, m, n), NEW t \in ActiveDom(d, m)
    PROVE  t \in visited \cup {Sink(d)}
<1> SUFFICES ASSUME t \notin visited, t # Sink(d) PROVE FALSE
  OBVIOUS
<1>1. t \in Nodes /\ t \in active /\ Before(d, m, t)
  BY FollowedIsAhead
<1>2. strings \in Inputs
  BY DEF GraphOK, ControlOK
<1>3. t # m
  BY <1>1, <1>2, BeforeFacts
<1>4. FartherThan(d, m, t)
  BY <1>1, <1>3 DEF ToVisit
<1>5. m[1] \in Int /\ m[2] \in Int /\ t[1] \in Int /\ t[2] \in Int
  BY <1>1, <1>2, NodeFacts
<1> QED BY <1>1, <1>4, <1>5 DEF Before, Ahead, FartherThan

Following(d, m, t) == [previous EXCEPT ![d][m] = t]

(* A match that follows what has been visited has on its chain what it     *)
(* then knows of, no chain that has been visited changes, and the score is *)
(* no more than the length of the solution.                                *)
LEMMA Followed ==
    ASSUME GraphOK, HInv, pass \in Directions, NEW m \in Nodes, NEW t \in Nodes,
           m # Sink(pass), m \in active \cup {Source(pass)}, m \notin visited,
           t \in visited \cup {Sink(pass)}, t \in active \cup {Sink(pass)}, Before(pass, m, t)
    PROVE  /\ \A e \in Directions : Leads(e, Following(pass, m, t)[e])
           /\ \A x \in visited \cap Inner :
                 Chain(Following(pass, m, t)[pass], x) = Chain(previous[pass], x)
           /\ Score(pass, m, t) \in Nat
           /\ m \in Inner =>
                /\ heurChars[pass][t] \cup {CharacterOf(m)} \subseteq
                      InWord(Chain(Following(pass, m, t)[pass], m))
                /\ Cardinality(heurChars[pass][t] \cup {CharacterOf(m)}) <= Score(pass, m, t)
                /\ SolutionThrough(pass, m, Following(pass, m, t)) \in Solutions(strings)
                /\ Len(SolutionThrough(pass, m, Following(pass, m, t))) \in Nat
                /\ Score(pass, m, t) <= Len(SolutionThrough(pass, m, Following(pass, m, t)))
           /\ m \notin Inner => Score(pass, m, t) <= found
<1> DEFINE d == pass
           o == Opposite(pass)
           P == Following(pass, m, t)
<1>1. /\ strings \in Inputs /\ active \subseteq Inner
      /\ d \in Directions /\ o \in Directions /\ o # d /\ \A e \in Directions : e = d \/ e = o
  <2>1. o \in Directions /\ o # d
    BY DirectionFacts
  <2> QED BY <2>1 DEF GraphOK, ControlOK, ArcsOK, Directions
<1>2. /\ heurChars \in [Directions -> [Nodes -> SUBSET Characters]]
      /\ previous \in [Directions -> [Nodes -> Nodes \cup {None}]]
      /\ found \in Nat
  BY DEF HInv, MemoryOK
<1>3. \A e \in Directions : Leads(e, previous[e]) /\ heurChars[e][Sink(e)] = {}
  BY DEF HInv, ChainsLead, CharactersOK
<1>4. /\ P \in [Directions -> [Nodes -> Nodes \cup {None}]]
      /\ P[o] = previous[o] /\ P[d] = [previous[d] EXCEPT ![m] = t]
      /\ P[d][m] = t /\ \A x \in Nodes : x # m => P[d][x] = previous[d][x]
  BY <1>1, <1>2 DEF Following
<1>5. Leads(d, P[d])
  <2>1. \A x \in Inner : x \in Nodes
    BY DEF Nodes
  <2>2. \A x \in Inner : P[d][x] # None => P[d][x] \in Nodes /\ Before(d, x, P[d][x])
    BY <1>1, <1>3, <1>4, <2>1 DEF Leads
  <2> QED BY <1>1, <1>4, <2>2 DEF Leads
<1>6. \A e \in Directions : Leads(e, P[e])
  BY <1>1, <1>3, <1>4, <1>5
<1>7. /\ \A x \in visited \cap Inner : /\ heurChars[d][x] \subseteq InWord(Chain(previous[d], x))
                                       /\ Cardinality(heurChars[d][x]) <= found
                                       /\ previous[d][x] \in visited \cup {Sink(d)}
  BY DEF HInv, VisitedSettled, OnChain
<1>8. Sink(d) \notin Inner /\ \A x \in Inner : x \in Nodes
  BY <1>1, DirectionFacts, InnerFacts
<1> HIDE DEF P
<1>9. \A x \in visited \cap Inner : Chain(P[d], x) = Chain(previous[d], x)
  <2>1. \A x \in visited \cap Inner : /\ P[d][x] = previous[d][x]
                                      /\ previous[d][x] \in Inner => previous[d][x] \in visited
    BY <1>4, <1>7, <1>8
  <2> QED BY <1>1, <1>3, <1>5, <2>1, ChainStays
<1>10. /\ heurChars[d][t] \subseteq InWord(Chain(P[d], t))
       /\ heurChars[d][t] \subseteq Characters /\ heurChars[o][m] \subseteq Characters
       /\ Cardinality(heurChars[d][t]) <= found
  <2>1. CASE t = Sink(d)
    <3>1. heurChars[d][t] = {} /\ Cardinality({}) = 0
      BY <1>1, <1>3, <2>1, FS_EmptySet
    <3> QED BY <1>1, <1>2, <3>1
  <2>2. CASE t # Sink(d)
    <3>1. t \in visited \cap Inner
      BY <1>1, <2>2
    <3> QED BY <1>1, <1>2, <1>7, <1>9, <3>1
  <2> QED BY <2>1, <2>2
<1>11. Score(d, m, t) = Cardinality(heurChars[o][m] \cup heurChars[d][t])
  BY DEF Score
<1>12. Score(d, m, t) \in Nat
  BY <1>10, <1>11, CountMonotone
<1>13. ASSUME m \in Inner
       PROVE  /\ heurChars[d][t] \cup {CharacterOf(m)} \subseteq InWord(Chain(P[d], m))
              /\ Cardinality(heurChars[d][t] \cup {CharacterOf(m)}) <= Score(d, m, t)
              /\ SolutionThrough(d, m, P) \in Solutions(strings)
              /\ Len(SolutionThrough(d, m, P)) \in Nat
              /\ Score(d, m, t) <= Len(SolutionThrough(d, m, P))
  <2>1. InWord(Chain(P[d], m)) = {CharacterOf(m)} \cup InWord(Chain(P[d], t))
    BY <1>1, <1>4, <1>5, <1>13, ChainCharacters
  <2>2. CharacterOf(m) \in heurChars[o][m]
    BY <1>1, <1>13 DEF HInv, CharactersOK
  <2>3. Cardinality(heurChars[d][t] \cup {CharacterOf(m)}) <= Score(d, m, t)
    <3>1. /\ heurChars[d][t] \cup {CharacterOf(m)} \subseteq heurChars[o][m] \cup heurChars[d][t]
          /\ heurChars[o][m] \cup heurChars[d][t] \subseteq Characters
      BY <1>10, <2>2
    <3> QED BY <1>11, <3>1, CountMonotone
  <2>4. heurChars[o][m] \subseteq InWord(Chain(P[o], m))
    <3>1. m \in active /\ SettledDirection = o
      <4>1. m # Source(d)
        BY <1>1, <1>13, DirectionFacts, InnerFacts
      <4> QED BY <4>1 DEF SettledDirection, Opposite, Directions
    <3> QED BY <1>4, <3>1 DEF HInv, Settled, OnChain
  <2>5. /\ SolutionThrough(d, m, P) \in Solutions(strings)
        /\ SolutionThrough(d, m, P) \in Seq(Characters)
        /\ Len(SolutionThrough(d, m, P)) =
              Cardinality(InWord(Chain(P[d], m)) \cup InWord(Chain(P[o], m)))
    BY <1>1, <1>6, <1>13, ThroughIsSolution
  <2>6. Score(d, m, t) <= Cardinality(InWord(Chain(P[d], m)) \cup InWord(Chain(P[o], m)))
    <3>1. /\ InWord(Chain(P[d], m)) \cup InWord(Chain(P[o], m)) \subseteq Characters
          /\ heurChars[o][m] \cup heurChars[d][t] \subseteq
                InWord(Chain(P[d], m)) \cup InWord(Chain(P[o], m))
      <4>1. InWord(Chain(P[d], m)) \subseteq Characters /\ InWord(Chain(P[o], m)) \subseteq Characters
        BY <1>1, <1>6, <1>13, OnChainFacts
      <4> QED BY <4>1, <1>10, <2>1, <2>4
    <3> QED BY <1>11, <3>1, CountMonotone
  <2>7. Len(SolutionThrough(d, m, P)) \in Nat
    BY <2>5
  <2> QED BY <1>10, <2>1, <2>3, <2>5, <2>6, <2>7
<1>14. ASSUME m \notin Inner PROVE Score(d, m, t) <= found
  <2>1. heurChars[o][m] = {}
    <3>1. m = Sink(o)
      BY <1>1, <1>14, DirectionFacts
    <3> QED BY <1>1, <1>3, <3>1
  <2> QED BY <1>10, <1>11, <2>1
<1> QED BY <1>6, <1>9, <1>12, <1>13, <1>14 DEF P


(* The next match follows one of its best successors.                      *)
LEMMA CombineKeeps ==
    ASSUME GraphOK, HInv, CombineMatch
    PROVE  HInv'
<1> DEFINE d == pass
           Learned(m, t) == [heurChars EXCEPT ![pass][m] = heurChars[pass][t] \cup OwnCharacter(m)]
<1>1. /\ d \in Directions /\ pc = "heuristic" /\ RoundGoesOn
      /\ UNCHANGED <<strings, pc, lower, upper, active, pass, badRuns>>
  BY DEF CombineMatch, reductionVars, graphVars
<1>2. PICK m \in ToVisit(d), t \in Nodes :
         /\ \A n \in ToVisit(d) \ {m} : FartherThan(d, m, n)
         /\ t \in Candidates(d, m)
         /\ previous' = Following(d, m, t)
         /\ heurChars' = Learned(m, t)
         /\ IF found < Score(d, m, t)
            THEN found' = Score(d, m, t) /\ solution' = SolutionThrough(d, m, Following(d, m, t))
            ELSE found' = found /\ solution' = solution
         /\ visited' = visited \cup {m}
  BY DEF CombineMatch, Following
<1>3. /\ strings \in Inputs /\ active \subseteq Inner
      /\ heurChars \in [Directions -> [Nodes -> SUBSET Characters]]
      /\ previous \in [Directions -> [Nodes -> Nodes \cup {None}]]
      /\ found \in Nat /\ visited \subseteq active \cup {Root, Leaf}
      /\ \A e \in Directions : /\ heurChars[e][Sink(e)] = {}
                               /\ \A x \in Inner : CharacterOf(x) \in heurChars[e][x]
  BY DEF HInv, MemoryOK, CharactersOK, GraphOK, ControlOK, ArcsOK
<1>4. /\ m \in Nodes /\ m # Sink(d) /\ m \in active \cup {Source(d)} /\ m \notin visited
      /\ m \in active \cup {Root, Leaf}
  <2>1. m \in active \cup {Root, Leaf} /\ m # Sink(d) /\ m \notin visited
    BY DEF ToVisit
  <2>2. m \in Nodes
    BY <1>3, <2>1 DEF Nodes
  <2>3. m \in active \cup {Source(d)}
    BY <1>1, <2>1 DEF Source, Sink, Opposite, Directions
  <2> QED BY <2>1, <2>2, <2>3
<1>5. t \in active \cup {Sink(d)} /\ Before(d, m, t) /\ t \in visited \cup {Sink(d)}
  <2>1. t \in ActiveDom(d, m)
    BY <1>2 DEF Candidates
  <2> QED BY <1>1, <1>2, <1>4, <2>1, FollowedIsAhead, FollowedIsVisited
<1> DEFINE P == Following(d, m, t)
<1>6. /\ \A e \in Directions : Leads(e, P[e])
      /\ \A x \in visited \cap Inner : Chain(P[d], x) = Chain(previous[d], x)
      /\ Score(d, m, t) \in Nat
      /\ m \in Inner =>
           /\ heurChars[d][t] \cup {CharacterOf(m)} \subseteq InWord(Chain(P[d], m))
           /\ Cardinality(heurChars[d][t] \cup {CharacterOf(m)}) <= Score(d, m, t)
           /\ SolutionThrough(d, m, P) \in Solutions(strings)
           /\ Len(SolutionThrough(d, m, P)) \in Nat
           /\ Score(d, m, t) <= Len(SolutionThrough(d, m, P))
      /\ m \notin Inner => Score(d, m, t) <= found
  BY <1>1, <1>4, <1>5, Followed
<1>7. /\ P \in [Directions -> [Nodes -> Nodes \cup {None}]]
      /\ \A e \in Directions : e # d => P[e] = previous[e]
      /\ P[d][m] = t /\ \A x \in Nodes : x # m => P[d][x] = previous[d][x]
  BY <1>1, <1>3, <1>4 DEF Following
<1>8. \A x \in Inner : x \in Nodes /\ CharacterOf(x) \in Characters
  BY <1>3, InnerFacts
<1>9. /\ Learned(m, t) \in [Directions -> [Nodes -> SUBSET Characters]]
      /\ \A e \in Directions : e # d => Learned(m, t)[e] = heurChars[e]
      /\ Learned(m, t)[d][m] = heurChars[d][t] \cup OwnCharacter(m)
      /\ \A x \in Nodes : x # m => Learned(m, t)[d][x] = heurChars[d][x]
      /\ m \in Inner => OwnCharacter(m) = {CharacterOf(m)}
  <2>1. /\ OwnCharacter(m) \subseteq Characters
        /\ m \in Inner => OwnCharacter(m) = {CharacterOf(m)}
    BY <1>8 DEF OwnCharacter
  <2> QED BY <1>1, <1>3, <1>4, <2>1
<1> HIDE DEF P, Learned
<1>10. /\ found' \in Nat /\ found' >= found /\ Score(d, m, t) <= found'
       /\ found' > found => m \in Inner
  BY <1>2, <1>3, <1>6
<1>11. /\ Nodes' = Nodes /\ Inner' = Inner /\ Root' = Root /\ Leaf' = Leaf
       /\ \A x : CharacterOf(x)' = CharacterOf(x)
       /\ \A e \in Directions : Sink(e)' = Sink(e)
       /\ \A e, prev : Leads(e, prev)' <=> Leads(e, prev)
       /\ \A prev, x : Chain(prev, x)' = Chain(prev, x)
       /\ BadRunsLimit' = BadRunsLimit
       /\ Solutions(strings)' = Solutions(strings)
  BY <1>1, ChainsUnchanged
<1>12. \A e, x : OnChain(e, x)' = InWord(Chain(P[e], x))
  BY <1>2, <1>11 DEF OnChain, P
<1>13. MemoryOK'
  <2>1. visited' \subseteq active \cup {Root, Leaf}
    BY <1>2, <1>3, <1>4
  <2>2. pass # "over"
    BY <1>1 DEF Directions
  <2> QED BY <1>1, <1>2, <1>7, <1>9, <1>10, <1>11, <2>1, <2>2 DEF MemoryOK, P
<1>14. CharactersOK'
  <2>1. ASSUME NEW e \in Directions
        PROVE  /\ Learned(m, t)[e][Sink(e)] = {}
               /\ \A x \in Inner : CharacterOf(x) \in Learned(m, t)[e][x]
    <3>1. CASE e # d
      BY <1>3, <1>9, <3>1
    <3>2. CASE e = d
      <4>1. Sink(d) \in Nodes
        BY <1>1, DirectionFacts
      <4>2. Learned(m, t)[d][Sink(d)] = {}
        BY <1>1, <1>3, <1>4, <1>9, <4>1
      <4>3. \A x \in Inner : CharacterOf(x) \in Learned(m, t)[d][x]
        BY <1>1, <1>3, <1>8, <1>9
      <4> QED BY <3>2, <4>2, <4>3
    <3> QED BY <3>1, <3>2
  <2> QED BY <1>2, <1>11, <2>1 DEF CharactersOK
<1>15. ChainsLead'
  BY <1>2, <1>6, <1>11 DEF ChainsLead, P
<1>16. Settled'
  <2> DEFINE o == SettledDirection
  <2>1. o' = o /\ o \in Directions /\ o # d
    BY <1>1 DEF SettledDirection, Directions
  <2>2. heurChars'[o] = heurChars[o] /\ P[o] = previous[o]
    BY <1>2, <1>7, <1>9, <2>1
  <2>3. \A x \in active : heurChars[o][x] \subseteq InWord(Chain(previous[o], x))
    BY DEF HInv, Settled, OnChain
  <2> HIDE DEF o
  <2>4. \A x \in active : heurChars'[o][x] \subseteq InWord(Chain(P[o], x))
    BY <2>2, <2>3
  <2> QED BY <1>1, <1>12, <2>1, <2>4 DEF Settled, o
<1>17. VisitedSettled'
  <2>1. ASSUME NEW x \in visited' \cap Inner
        PROVE  /\ heurChars'[d][x] \subseteq InWord(Chain(P[d], x))
               /\ Cardinality(heurChars'[d][x]) <= found'
               /\ P[d][x] \in visited' \cup {Sink(d)}
    <3>1. CASE x = m
      <4>1. heurChars'[d][m] = heurChars[d][t] \cup {CharacterOf(m)} /\ m \in Inner
        BY <1>2, <1>9, <2>1, <3>1
      <4>2. Cardinality(heurChars[d][t] \cup {CharacterOf(m)}) <= found'
        <5>1. heurChars[d][t] \cup {CharacterOf(m)} \subseteq Characters
          BY <1>1, <1>2, <1>3, <1>8, <4>1
        <5>2. Cardinality(heurChars[d][t] \cup {CharacterOf(m)}) \in Nat
          BY <5>1, CountMonotone
        <5> QED BY <5>2, <1>6, <1>10, <4>1
      <4> QED BY <1>2, <1>5, <1>6, <1>7, <3>1, <4>1, <4>2
    <3>2. CASE x # m
      <4>1. x \in visited \cap Inner /\ x \in Nodes
        BY <1>2, <1>8, <2>1, <3>2
      <4>2. heurChars'[d][x] = heurChars[d][x] /\ P[d][x] = previous[d][x]
        BY <1>2, <1>7, <1>9, <3>2, <4>1
      <4>3. /\ heurChars[d][x] \subseteq InWord(Chain(previous[d], x))
            /\ Cardinality(heurChars[d][x]) <= found
            /\ previous[d][x] \in visited \cup {Sink(d)}
        BY <1>1, <4>1 DEF HInv, VisitedSettled, OnChain
      <4>4. Cardinality(heurChars[d][x]) \in Nat
        <5>1. heurChars[d][x] \subseteq Characters
          BY <1>1, <1>3, <4>1
        <5> QED BY <5>1, CountMonotone
      <4> QED BY <1>2, <1>3, <1>6, <1>10, <4>1, <4>2, <4>3, <4>4
    <3> QED BY <3>1, <3>2
  <2> QED BY <1>1, <1>2, <1>11, <1>12, <2>1 DEF VisitedSettled, P
<1>18. RoundRuns'
  BY <1>1, <1>11 DEF RoundRuns, RoundGoesOn
<1>19. LowerIsWitnessed'
  <2>1. CASE found < Score(d, m, t)
    <3>1. /\ solution' = SolutionThrough(d, m, P) /\ found' = Score(d, m, t) /\ m \in Inner
      BY <1>2, <1>3, <1>6, <2>1 DEF P
    <3> QED BY <1>6, <1>11, <3>1 DEF LowerIsWitnessed
  <2>2. CASE ~(found < Score(d, m, t))
    <3>1. solution' = solution /\ found' = found
      BY <1>2, <2>2
    <3> QED BY <1>11, <3>1 DEF HInv, LowerIsWitnessed
  <2> QED BY <2>1, <2>2
<1> QED BY <1>13, <1>14, <1>15, <1>16, <1>17, <1>18, <1>19 DEF HInv


(* What an active match of a pass that is over has been said to know is on *)
(* its chain, as the pass has been through all of them.                    *)
LEMMA EndPassKeeps ==
    ASSUME GraphOK, HInv, EndPass
    PROVE  HInv'
<1>1. /\ pc = "heuristic" /\ pass \in Directions /\ ToVisit(pass) = {}
      /\ pass' = (IF pass = "forward" THEN "reverse" ELSE "over") /\ visited' = {}
      /\ UNCHANGED <<strings, pc, lower, upper, active, found, solution, heurChars, previous, badRuns>>
  BY DEF EndPass, reductionVars, graphVars
<1>2. strings \in Inputs /\ active \subseteq Inner
  BY DEF GraphOK, ControlOK, ArcsOK
<1>3. Source(pass) \in visited /\ active \subseteq visited
  <2>1. Sink(pass) \notin Inner /\ Sink(pass) # Source(pass) /\ Source(pass) \in {Root, Leaf}
    BY <1>1, <1>2, DirectionFacts, InnerFacts
  <2> QED BY <1>1, <1>2, <2>1 DEF ToVisit
<1>4. RoundGoesOn
  BY <1>3 DEF HInv, RoundRuns
<1>5. /\ Nodes' = Nodes /\ Inner' = Inner /\ Root' = Root /\ Leaf' = Leaf
      /\ \A x : CharacterOf(x)' = CharacterOf(x)
      /\ \A e \in Directions : Sink(e)' = Sink(e)
      /\ \A e, prev : Leads(e, prev)' <=> Leads(e, prev)
      /\ \A prev, x : Chain(prev, x)' = Chain(prev, x)
      /\ BadRunsLimit' = BadRunsLimit
      /\ Solutions(strings)' = Solutions(strings)
  BY <1>1, ChainsUnchanged
<1>6. MemoryOK'
  BY <1>1, <1>5 DEF HInv, MemoryOK, Directions
<1>7. CharactersOK'
  BY <1>1, <1>5 DEF HInv, CharactersOK
<1>8. ChainsLead'
  BY <1>1, <1>5 DEF HInv, ChainsLead
<1>9. Settled'
  <2>1. SettledDirection' = pass
    BY <1>1 DEF SettledDirection, Directions
  <2>2. \A x \in active : heurChars[pass][x] \subseteq InWord(Chain(previous[pass], x))
    BY <1>1, <1>2, <1>3 DEF HInv, VisitedSettled, OnChain
  <2>3. \A e, x : OnChain(e, x)' = InWord(Chain(previous[e], x))
    BY <1>1, <1>5 DEF OnChain
  <2> QED BY <1>1, <2>1, <2>2, <2>3 DEF Settled
<1>10. VisitedSettled'
  BY <1>1 DEF VisitedSettled
<1>11. RoundRuns'
  BY <1>1, <1>4, <1>5 DEF RoundRuns, RoundGoesOn
<1>12. LowerIsWitnessed'
  BY <1>1, <1>5 DEF HInv, LowerIsWitnessed
<1> QED BY <1>6, <1>7, <1>8, <1>9, <1>10, <1>11, <1>12 DEF HInv

(* A round that has found something leaves all of it behind.               *)
LEMMA EndGoodRoundKeeps ==
    ASSUME GraphOK, HInv, EndGoodRound
    PROVE  HInv'
<1>1. /\ pass = "over" /\ pass' = "forward"
      /\ UNCHANGED <<strings, active, found, solution, heurChars, previous, visited>>
  BY DEF EndGoodRound, graphVars
<1>2. visited = {}
  BY <1>1 DEF HInv, MemoryOK
<1>3. /\ Nodes' = Nodes /\ Inner' = Inner /\ Root' = Root /\ Leaf' = Leaf
      /\ \A x : CharacterOf(x)' = CharacterOf(x)
      /\ \A e \in Directions : Sink(e)' = Sink(e)
      /\ \A e, prev : Leads(e, prev)' <=> Leads(e, prev)
      /\ \A prev, x : Chain(prev, x)' = Chain(prev, x)
      /\ Solutions(strings)' = Solutions(strings)
  BY <1>1, ChainsUnchanged
<1>4. MemoryOK'
  BY <1>1, <1>2, <1>3 DEF HInv, MemoryOK, Directions
<1>5. CharactersOK'
  BY <1>1, <1>3 DEF HInv, CharactersOK
<1>6. ChainsLead'
  BY <1>1, <1>3 DEF HInv, ChainsLead
<1>7. Settled'
  <2>1. \A e, x : OnChain(e, x)' = OnChain(e, x)
    BY <1>1, <1>3 DEF OnChain
  <2>2. SettledDirection' = SettledDirection
    BY <1>1 DEF SettledDirection
  <2> QED BY <1>1, <2>1, <2>2 DEF HInv, Settled
<1>8. VisitedSettled'
  BY <1>1, <1>2 DEF VisitedSettled
<1>9. RoundRuns'
  BY <1>1, <1>2 DEF RoundRuns
<1>10. LowerIsWitnessed'
  BY <1>1, <1>3 DEF HInv, LowerIsWitnessed
<1> QED BY <1>4, <1>5, <1>6, <1>7, <1>8, <1>9, <1>10 DEF HInv

(* What clear leaves to an active match is its own character, which its    *)
(* chain begins with.                                                      *)
LEMMA EndBadRoundKeeps ==
    ASSUME GraphOK, HInv, EndBadRound
    PROVE  HInv'
<1>1. /\ pass = "over" /\ pass' = "forward"
      /\ UNCHANGED <<strings, active, found, solution, previous, visited>>
      /\ heurChars' = Cleared(heurChars) \/ heurChars' = heurChars
  BY DEF EndBadRound, reductionVars, graphVars
<1>2. visited = {}
  BY <1>1 DEF HInv, MemoryOK
<1>3. /\ strings \in Inputs /\ active \subseteq Inner
      /\ heurChars \in [Directions -> [Nodes -> SUBSET Characters]]
      /\ \A d \in Directions : /\ heurChars[d][Sink(d)] = {}
                               /\ \A m \in Inner : CharacterOf(m) \in heurChars[d][m]
  BY DEF HInv, MemoryOK, CharactersOK, GraphOK, ControlOK, ArcsOK
<1>4. /\ \A m \in Inner : m \in Nodes /\ CharacterOf(m) \in Characters
      /\ \A d \in Directions : Sink(d) \in Nodes /\ Sink(d) \notin Inner
  BY <1>3, DirectionFacts, InnerFacts
<1>5. \A d \in Directions, m \in Nodes :
         heurChars'[d][m] = heurChars[d][m] \/ heurChars'[d][m] = OwnCharacter(m)
  BY <1>1 DEF Cleared
<1>6. heurChars' \in [Directions -> [Nodes -> SUBSET Characters]]
  <2>1. \A m : OwnCharacter(m) \subseteq Characters
    BY <1>4 DEF OwnCharacter
  <2>2. Cleared(heurChars) \in [Directions -> [Nodes -> SUBSET Characters]]
    BY <1>3, <2>1 DEF Cleared
  <2> QED BY <1>1, <1>3, <2>2
<1>7. /\ Nodes' = Nodes /\ Inner' = Inner /\ Root' = Root /\ Leaf' = Leaf
      /\ \A x : CharacterOf(x)' = CharacterOf(x)
      /\ \A e \in Directions : Sink(e)' = Sink(e)
      /\ \A e, prev : Leads(e, prev)' <=> Leads(e, prev)
      /\ \A prev, x : Chain(prev, x)' = Chain(prev, x)
      /\ Solutions(strings)' = Solutions(strings)
  BY <1>1, ChainsUnchanged
<1>8. MemoryOK'
  BY <1>1, <1>2, <1>6, <1>7 DEF HInv, MemoryOK, Directions
<1>9. CharactersOK'
  <2>1. ASSUME NEW d \in Directions
        PROVE  /\ heurChars'[d][Sink(d)] = {}
               /\ \A m \in Inner : CharacterOf(m) \in heurChars'[d][m]
    <3>1. OwnCharacter(Sink(d)) = {} /\ \A m \in Inner : OwnCharacter(m) = {CharacterOf(m)}
      BY <1>4 DEF OwnCharacter
    <3>2. heurChars'[d][Sink(d)] = {}
      BY <1>3, <1>4, <1>5, <3>1
    <3>3. ASSUME NEW m \in Inner PROVE CharacterOf(m) \in heurChars'[d][m]
      <4>1. CharacterOf(m) \in heurChars[d][m] /\ CharacterOf(m) \in OwnCharacter(m) /\ m \in Nodes
        BY <1>3, <1>4, <3>1
      <4> QED BY <1>5, <4>1
    <3> QED BY <3>2, <3>3
  <2> QED BY <1>7, <2>1 DEF CharactersOK
<1>10. ChainsLead'
  BY <1>1, <1>7 DEF HInv, ChainsLead
<1>11. Settled'
  <2>1. \A e, x : OnChain(e, x)' = OnChain(e, x)
    BY <1>1, <1>7 DEF OnChain
  <2>2. SettledDirection' = "reverse" /\ SettledDirection = "reverse" /\ "reverse" \in Directions
    BY <1>1 DEF SettledDirection, Directions
  <2>3. ASSUME NEW m \in active PROVE heurChars'["reverse"][m] \subseteq OnChain("reverse", m)
    <3>1. m \in Inner /\ m \in Nodes
      BY <1>3, <1>4
    <3>2. CharacterOf(m) \in OnChain("reverse", m)
      BY <1>3, <2>2, <3>1, OnChainFacts DEF HInv, ChainsLead, OnChain
    <3>3. heurChars["reverse"][m] \subseteq OnChain("reverse", m)
      BY <2>2 DEF HInv, Settled
    <3>4. OwnCharacter(m) = {CharacterOf(m)}
      BY <3>1 DEF OwnCharacter
    <3> QED BY <1>5, <2>2, <3>1, <3>2, <3>3, <3>4
  <2> QED BY <1>1, <2>1, <2>2, <2>3 DEF Settled
<1>12. VisitedSettled'
  BY <1>1, <1>2 DEF VisitedSettled
<1>13. RoundRuns'
  BY <1>1, <1>2 DEF RoundRuns
<1>14. LowerIsWitnessed'
  BY <1>1, <1>7 DEF HInv, LowerIsWitnessed
<1> QED BY <1>8, <1>9, <1>10, <1>11, <1>12, <1>13, <1>14 DEF HInv

-----------------------------------------------------------------------------
(* The heuristic does what GraphReduction assumes of it.                   *)

(* When the graph is reduced no round runs.                                *)
LEMMA ReductionKeepsMemory ==
    ASSUME GraphOK, HInv, Reduce
    PROVE  HInv' /\ Next
<1>1. Next /\ UNCHANGED heurVars
  BY DEF Reduce, Next
<1>2. pc # "heuristic"
  BY DEF Reduce, StartRelaxation, RelaxCharacter, SkipCharacter, EndRelaxationRound, RelaxSelected,
         EndRelaxation, CalculateSimpleUpperBounds, DeactivateMatches, ReduceGraph
<1>3. pass = "forward" /\ visited = {} /\ pass' = pass /\ visited' = visited
  BY <1>1, <1>2 DEF HInv, RoundRuns, heurVars
<1>4. strings' = strings /\ active' \subseteq active
  <2>1. CASE DeactivateMatches
    BY <2>1, RemainingUnfold DEF DeactivateMatches
  <2>2. CASE ~DeactivateMatches
    BY <2>2 DEF Reduce, StartRelaxation, RelaxCharacter, SkipCharacter, EndRelaxationRound,
                RelaxSelected, EndRelaxation, CalculateSimpleUpperBounds, ReduceGraph, graphVars
  <2> QED BY <2>1, <2>2
<1>5. RoundRuns'
  BY <1>3 DEF RoundRuns
<1> QED BY <1>1, <1>3, <1>4, <1>5, MemoryStays

(* A lower bound that the heuristic has found is the length of a solution  *)
(* at least, and no more than that of a longest one.                       *)
LEMMA FoundIsReachable ==
    ASSUME GraphOK, HInv
    PROVE  found \in Nat /\ opt \in Nat /\ found <= opt
<1>1. strings \in Inputs /\ opt = Max({Len(w) : w \in Solutions(strings)})
  BY DEF GraphOK, ControlOK
<1>2. found \in Nat /\ solution \in Solutions(strings) /\ Len(solution) >= found
  BY DEF HInv, MemoryOK, LowerIsWitnessed
<1> DEFINE S == {Len(w) : w \in Solutions(strings)}
<1>3. Len(solution) \in S /\ Len(solution) \in Nat /\ S \subseteq Int /\ \A x \in S : x <= Sigma
  <2>1. \A w \in Solutions(strings) : Len(w) \in 0..Sigma
    BY <1>1, SolutionFacts
  <2> QED BY <1>2, <2>1, CharactersFinite
<1>4. opt \in Nat
  BY <1>1, LongestSolution, CharactersFinite
<1> HIDE DEF S
<1>5. \A x \in S : x <= Max(S)
  <2>1. Sigma \in Int /\ S # {}
    BY <1>3, CharactersFinite
  <2> QED BY <1>3, <2>1, MaxOfBounded
<1>6. Len(solution) <= opt
  BY <1>1, <1>3, <1>5 DEF S
<1> QED BY <1>2, <1>3, <1>4, <1>6

(* A round that has found something is a step of GraphReduction.           *)
LEMMA EndGoodRoundImproves ==
    ASSUME GraphOK, HInv, EndGoodRound
    PROVE  HeuristicImproves
<1>1. /\ pc = "heuristic" /\ pass = "over" /\ lower < found /\ lower' = found
      /\ pc' = Enter(FALSE) /\ improving' = FALSE
      /\ UNCHANGED <<strings, presolving, upper, graphVars, relaxVars, opt>>
  BY DEF EndGoodRound
<1>2. lower < upper
  BY <1>1 DEF HInv, RoundRuns, RoundGoesOn
<1>3. found \in Nat /\ opt \in Nat /\ found <= opt
  BY FoundIsReachable
<1>4. lower \in Nat
  BY <1>3 DEF GraphOK, ControlOK
<1>5. found \in (lower + 1)..opt
  BY <1>1, <1>3, <1>4
<1> QED BY <1>1, <1>2, <1>5 DEF HeuristicImproves

(* Every step keeps the invariant, and is one of GraphReduction or does    *)
(* not concern it.                                                         *)
LEMMA HeuristicStep ==
    IInv /\ HInv /\ [HeuristicNext]_<<vars, heurVars>> => HInv' /\ [Next]_vars
<1> SUFFICES ASSUME IInv, HInv, [HeuristicNext]_<<vars, heurVars>> PROVE HInv' /\ [Next]_vars
  OBVIOUS
<1>1. GraphOK
  BY DEF IInv
<1>2. CASE CombineMatch
  <2>1. UNCHANGED vars
    BY <1>2 DEF CombineMatch, reductionVars, vars
  <2> QED BY <1>1, <1>2, <2>1, CombineKeeps
<1>3. CASE EndPass
  <2>1. UNCHANGED vars
    BY <1>3 DEF EndPass, reductionVars, vars
  <2> QED BY <1>1, <1>3, <2>1, EndPassKeeps
<1>4. CASE EndGoodRound
  BY <1>1, <1>4, EndGoodRoundKeeps, EndGoodRoundImproves DEF Next
<1>5. CASE EndBadRound
  <2>1. UNCHANGED vars
    BY <1>5 DEF EndBadRound, reductionVars, vars
  <2> QED BY <1>1, <1>5, <2>1, EndBadRoundKeeps
<1>6. CASE EndHeuristic
  <2>1. HeuristicStops /\ ~RoundGoesOn /\ UNCHANGED heurVars
    BY <1>6 DEF EndHeuristic
  <2>2. UNCHANGED <<strings, active>>
    BY <2>1 DEF HeuristicStops, graphVars
  <2>3. pass = "forward" /\ visited = {} /\ pass' = pass /\ visited' = visited
    BY <2>1 DEF HInv, RoundRuns, heurVars
  <2>4. RoundRuns'
    BY <2>3 DEF RoundRuns
  <2> QED BY <2>1, <2>2, <2>3, <2>4, MemoryStays DEF Next
<1>7. CASE Reduce
  BY <1>1, <1>7, ReductionKeepsMemory
<1>8. CASE UNCHANGED <<vars, heurVars>>
  <2>1. UNCHANGED <<strings, active, pc, lower, upper, badRuns, pass, visited>>
    BY <1>8 DEF vars, heurVars, graphVars
  <2>2. BadRunsLimit' = BadRunsLimit
    BY <2>1, ChainsUnchanged
  <2>3. RoundRuns'
    BY <2>1, <2>2 DEF HInv, RoundRuns, RoundGoesOn
  <2>4. visited \subseteq active \cup {Root, Leaf}
    BY DEF HInv, MemoryOK
  <2>5. HInv'
    BY <1>8, <2>1, <2>3, <2>4, MemoryStays
  <2> QED BY <1>8, <2>5
<1> QED BY <1>2, <1>3, <1>4, <1>5, <1>6, <1>7, <1>8 DEF HeuristicNext

(* The reduced graph and the memory of the heuristic stay what they are    *)
(* said to be.                                                             *)
THEOREM HeuristicInvariance == HeuristicSpec => [](IInv /\ HInv)
<1>1. HeuristicInit => IInv /\ HInv
  BY Initially, HeuristicInitially DEF HeuristicInit
<1>2. IInv /\ HInv /\ [HeuristicNext]_<<vars, heurVars>> => (IInv /\ HInv)'
  BY HeuristicStep, EveryStep
<1> QED BY <1>1, <1>2, PTL DEF HeuristicSpec

(* The heuristic always holds a repetition-free common subsequence that is *)
(* at least as long as the lower bound it has found (main.cpp:210-244).    *)
THEOREM LowerWitnessed == HeuristicSpec => []LowerIsWitnessed
<1>1. HInv => LowerIsWitnessed
  BY DEF HInv
<1> QED BY <1>1, HeuristicInvariance, PTL

(* Whatever the heuristic chooses, GraphReduction sees no more of it than  *)
(* better and better lower bounds that solutions attain.                   *)
THEOREM ImplementsReduction == HeuristicSpec => ImplementsGraphReduction
<1>1. HeuristicInit => Init
  BY DEF HeuristicInit
<1>2. IInv /\ HInv /\ [HeuristicNext]_<<vars, heurVars>> => [Next]_vars
  BY HeuristicStep
<1> QED BY <1>1, <1>2, HeuristicInvariance, PTL DEF HeuristicSpec, ImplementsGraphReduction, Spec
=============================================================================
