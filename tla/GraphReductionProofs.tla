------------------------- MODULE GraphReductionProofs --------------------------
(***************************************************************************)
(* Proofs about GraphReduction, for all strings over any alphabet. The     *)
(* first half is about its match graph: its order in both directions, what *)
(* successors it has, and chains.                                          *)
(*                                                                         *)
(* A chain is a set of matches that can follow one another and have        *)
(* different characters, whether there are arcs between them or not; it is *)
(* what is left of a solution when one forgets which matches it passes.    *)
(* The central lemma is Exchange: from a match of a chain one can go to a  *)
(* dominating successor without the chain losing a character.              *)
(*                                                                         *)
(* The invariants of GraphReduction speak of solutions, and of the nearest *)
(* matches by which they pass through the graph. That is too little to be  *)
(* inductive: a bound is computed over dominating successors, which are    *)
(* not on the way of every solution. IInv therefore speaks of chains. What *)
(* has more characters than the lower bound, as a chain, keeps its matches *)
(* active, its arcs in place and is covered by the bounds and the          *)
(* available characters of its matches; Exchange makes it enough to look   *)
(* at dominating successors.                                               *)
(***************************************************************************)
EXTENDS GraphReduction, RecursionLemmas

-----------------------------------------------------------------------------
(* Positions.                                                              *)

Size1 == Len(strings[1])
Size2 == Len(strings[2])

(* The strings are sequences that are not empty.                           *)
LEMMA InputFacts ==
    ASSUME strings \in Inputs
    PROVE  /\ strings[1] \in Seq(Characters) /\ DOMAIN strings[1] = 1..Size1 /\ Size1 \in Nat \ {0}
           /\ strings[2] \in Seq(Characters) /\ DOMAIN strings[2] = 1..Size2 /\ Size2 \in Nat \ {0}
           /\ \A p \in 1..Size1 : strings[1][p] \in Characters
           /\ \A p \in 1..Size2 : strings[2][p] \in Characters
<1>1. /\ strings[1] \in Seq(Characters) /\ strings[1] # <<>>
      /\ strings[2] \in Seq(Characters) /\ strings[2] # <<>>
  BY InputAssumption
<1>2. ASSUME NEW s \in Seq(Characters), s # <<>>
      PROVE  /\ DOMAIN s = 1..Len(s) /\ Len(s) \in Nat \ {0}
             /\ \A p \in 1..Len(s) : s[p] \in Characters
  <2>1. DOMAIN s = 1..Len(s) /\ Len(s) \in Nat /\ \A p \in 1..Len(s) : s[p] \in Characters
    OBVIOUS
  <2>2. Len(s) # 0
    BY <1>2
  <2> QED BY <2>1, <2>2
<1> QED BY <1>1, <1>2 DEF Size1, Size2

(* The characters of the matches and the ends of the graph.                *)
LEMMA CharactersFinite ==
    /\ Sigma \in Nat \ {0} /\ Sigma <= Infinity /\ Infinity \in Nat
    /\ IsFiniteSet(Characters) /\ Cardinality(Characters) = Sigma
<1>1. Infinity \in Nat
  BY SMT DEF Infinity
<1>2. Sigma \in Nat \ {0} /\ Sigma <= Infinity
  BY <1>1, GraphReductionAssumption
<1>3. IsFiniteSet(0..(Sigma - 1)) /\ Cardinality(0..(Sigma - 1)) = Sigma
  BY <1>2, FS_Interval
<1> QED BY <1>1, <1>2, <1>3 DEF Characters

(* A match is a pair of positions of one character, and neither of the     *)
(* ends.                                                                   *)
LEMMA InnerFacts ==
    ASSUME strings \in Inputs, NEW m \in Inner
    PROVE  /\ m = <<m[1], m[2]>>
           /\ m[1] \in 1..Size1 /\ m[2] \in 1..Size2
           /\ strings[1][m[1]] = CharacterOf(m) /\ strings[2][m[2]] = CharacterOf(m)
           /\ CharacterOf(m) \in Characters
           /\ m \in Nodes /\ m # Root /\ m # Leaf
<1>1. m \in (DOMAIN strings[1]) \X (DOMAIN strings[2]) /\ strings[1][m[1]] = strings[2][m[2]]
  BY DEF Inner
<1>2. m[1] \in 1..Size1 /\ m[2] \in 1..Size2 /\ Size1 \in Nat /\ Size2 \in Nat /\ m = <<m[1], m[2]>>
  BY <1>1, InputFacts
<1>3. m # Root /\ m # Leaf
  BY <1>2 DEF Root, Leaf, Size1, Size2
<1> QED BY <1>1, <1>2, <1>3, InputFacts DEF CharacterOf, Nodes

(* The nodes lie between the two ends.                                     *)
LEMMA NodeFacts ==
    ASSUME strings \in Inputs, NEW m \in Nodes
    PROVE  m = <<m[1], m[2]>> /\ m[1] \in 0..(Size1 + 1) /\ m[2] \in 0..(Size2 + 1)
<1>1. CASE m \in Inner
  BY <1>1, InnerFacts, InputFacts
<1>2. CASE m = Root
  BY <1>2, InputFacts DEF Root
<1>3. CASE m = Leaf
  BY <1>3, InputFacts DEF Leaf, Size1, Size2
<1> QED BY <1>1, <1>2, <1>3 DEF Nodes

(* The two directions have each other's ends.                              *)
LEMMA DirectionFacts ==
    ASSUME NEW d \in Directions
    PROVE  /\ Opposite(d) \in Directions /\ Opposite(Opposite(d)) = d /\ Opposite(d) # d
           /\ Source(d) \in Nodes /\ Sink(d) \in Nodes
           /\ Source(d) \in {Root, Leaf} /\ Sink(d) \in {Root, Leaf}
           /\ Source(Opposite(d)) = Sink(d) /\ Sink(Opposite(d)) = Source(d)
           /\ strings \in Inputs => Source(d) # Sink(d)
<1>1. strings \in Inputs => Root # Leaf
  BY InputFacts DEF Root, Leaf, Size1, Size2
<1> QED BY <1>1 DEF Directions, Opposite, Source, Sink, Nodes

(* There are finitely many nodes.                                          *)
LEMMA NodesFinite ==
    ASSUME strings \in Inputs
    PROVE  IsFiniteSet(Nodes) /\ IsFiniteSet(Inner)
<1>1. Size1 + 1 \in Int /\ Size2 + 1 \in Int /\ 0 \in Int
  BY InputFacts
<1>2. IsFiniteSet(0..(Size1 + 1)) /\ IsFiniteSet(0..(Size2 + 1))
  BY <1>1, FS_Interval
<1>3. IsFiniteSet((0..(Size1 + 1)) \X (0..(Size2 + 1)))
  BY <1>2, FS_Product
<1>4. Nodes \subseteq (0..(Size1 + 1)) \X (0..(Size2 + 1))
  BY NodeFacts
<1>5. Inner \subseteq Nodes
  BY DEF Nodes
<1> QED BY <1>3, <1>4, <1>5, FS_Subset

-----------------------------------------------------------------------------
(* The order of the matches.                                               *)

(* y is behind x in both strings, as one goes in direction d.              *)
Before(d, x, y) == Ahead(d, x[1], y[1]) /\ Ahead(d, x[2], y[2])

(* y is not before x in either string.                                     *)
NotAfter(d, x, y) == ~Ahead(d, y[1], x[1]) /\ ~Ahead(d, y[2], x[2])

(* How far a node is from the end, in string_1.                            *)
Distance(d) == [m \in Nodes |-> IF d = "forward" THEN Size1 + 1 - m[1] ELSE m[1]]

(* Before is a strict order, which the other direction turns round, and    *)
(* the distance falls along it.                                            *)
LEMMA BeforeFacts ==
    ASSUME strings \in Inputs, NEW d \in Directions, NEW x \in Nodes, NEW y \in Nodes
    PROVE  /\ ~Before(d, x, x)
           /\ Before(Opposite(d), x, y) <=> Before(d, y, x)
           /\ Before(d, x, y) => ~Before(d, y, x) /\ x # y
           /\ Before(d, x, y) => Distance(d)[y] < Distance(d)[x]
           /\ Before(d, x, y) => NotAfter(d, x, y)
<1>1. /\ x[1] \in Int /\ x[2] \in Int /\ y[1] \in Int /\ y[2] \in Int /\ Size1 \in Int
  BY NodeFacts, InputFacts
<1> QED BY <1>1 DEF Before, Ahead, Opposite, Directions, Distance, NotAfter

(* Before and NotAfter compose.                                            *)
LEMMA BeforeTransitive ==
    ASSUME strings \in Inputs, NEW d \in Directions,
           NEW x \in Nodes, NEW y \in Nodes, NEW z \in Nodes
    PROVE  /\ Before(d, x, y) /\ Before(d, y, z) => Before(d, x, z)
           /\ NotAfter(d, x, y) /\ Before(d, y, z) => Before(d, x, z)
           /\ Before(d, x, y) /\ NotAfter(d, y, z) => Before(d, x, z)
           /\ NotAfter(d, x, y) /\ NotAfter(d, y, z) => NotAfter(d, x, z)
<1>1. /\ x[1] \in Int /\ x[2] \in Int /\ y[1] \in Int /\ y[2] \in Int /\ z[1] \in Int /\ z[2] \in Int
  BY NodeFacts
<1> QED BY <1>1 DEF Before, Ahead, NotAfter

(* Every match lies between the two ends of either direction.              *)
LEMMA EndsFacts ==
    ASSUME strings \in Inputs, NEW d \in Directions, NEW m \in Inner
    PROVE  /\ Before(d, Source(d), m) /\ Before(d, m, Sink(d)) /\ ~Before(d, m, Source(d))
           /\ Before(d, Source(d), Sink(d))
<1>1. m[1] \in 1..Size1 /\ m[2] \in 1..Size2 /\ Size1 \in Nat /\ Size2 \in Nat
  BY InnerFacts, InputFacts
<1> QED BY <1>1 DEF Before, Ahead, Source, Sink, Root, Leaf, Opposite, Directions, Size1, Size2

(* Distances are natural numbers, at most one more than the length of      *)
(* string_1.                                                               *)
LEMMA DistanceType ==
    ASSUME strings \in Inputs, NEW d \in Directions
    PROVE  Distance(d) \in [Nodes -> 0..(Size1 + 1)] /\ Size1 + 1 \in Nat
  BY NodeFacts, InputFacts DEF Distance

(* Of two matches with different characters the one that is not after the  *)
(* other is before it.                                                     *)
LEMMA NotAfterIsBefore ==
    ASSUME strings \in Inputs, NEW d \in Directions, NEW x \in Inner, NEW y \in Inner,
           NotAfter(d, x, y), CharacterOf(x) # CharacterOf(y)
    PROVE  Before(d, x, y)
<1>1. /\ x[1] \in Int /\ x[2] \in Int /\ y[1] \in Int /\ y[2] \in Int
      /\ x[1] # y[1] /\ x[2] # y[2]
  BY InnerFacts, InputFacts
<1> QED BY <1>1 DEF Before, Ahead, NotAfter

-----------------------------------------------------------------------------
(* The successors of a match.                                              *)

(* If a character occurs ahead of a position there is a nearest occurrence.*)
LEMMA NearestOccurrence ==
    ASSUME NEW d \in Directions, NEW s \in Seq(Characters), NEW p \in Int, NEW c,
           NEW q \in DOMAIN s, s[q] = c, Ahead(d, p, q)
    PROVE  \E r \in NextOccurrences(d, s, p, c) : TRUE
<1> DEFINE later == {r \in DOMAIN s : s[r] = c /\ Ahead(d, p, r)}
<1>1. later \subseteq Int /\ later \subseteq Nat /\ later # {} /\ \A r \in later : r <= Len(s)
  OBVIOUS
<1>2. Len(s) \in Int
  OBVIOUS
<1>3. CASE d = "forward"
  <2> HIDE DEF later
  <2>1. PICK r \in later : \A x \in later : r <= x
    BY <1>1, LeastNumber
  <2>2. \A x \in later : ~Ahead(d, x, r)
    BY <1>1, <1>3, <2>1 DEF Ahead
  <2> QED BY <2>1, <2>2 DEF NextOccurrences, later
<1>4. CASE d # "forward"
  <2> HIDE DEF later
  <2>1. PICK r \in later : \A x \in later : x <= r
    BY <1>1, <1>2, MaxOfBounded
  <2>2. \A x \in later : ~Ahead(d, x, r)
    BY <1>1, <1>4, <2>1 DEF Ahead
  <2> QED BY <2>1, <2>2 DEF NextOccurrences, later
<1> QED BY <1>3, <1>4

(* A successor is a match ahead, of another character, and nothing of its  *)
(* character lies between.                                                 *)
LEMMA SuccessorFacts ==
    ASSUME strings \in Inputs, NEW d \in Directions, NEW m \in Nodes,
           NEW t \in SuccessorMatches(d, m)
    PROVE  /\ t \in Inner /\ Before(d, m, t)
           /\ m \in Inner => CharacterOf(t) # CharacterOf(m)
           /\ \A x \in Inner : Before(d, m, x) /\ CharacterOf(x) = CharacterOf(t)
                                  => NotAfter(d, t, x)
<1>1. PICK c \in Characters \ (IF m \in Inner THEN {CharacterOf(m)} ELSE {}) :
         t \in NextOccurrences(d, strings[1], m[1], c) \X NextOccurrences(d, strings[2], m[2], c)
  BY DEF SuccessorMatches
<1>2. /\ t = <<t[1], t[2]>>
      /\ t[1] \in DOMAIN strings[1] /\ strings[1][t[1]] = c /\ Ahead(d, m[1], t[1])
      /\ t[2] \in DOMAIN strings[2] /\ strings[2][t[2]] = c /\ Ahead(d, m[2], t[2])
      /\ \A r \in DOMAIN strings[1] : strings[1][r] = c /\ Ahead(d, m[1], r) => ~Ahead(d, r, t[1])
      /\ \A r \in DOMAIN strings[2] : strings[2][r] = c /\ Ahead(d, m[2], r) => ~Ahead(d, r, t[2])
  BY <1>1 DEF NextOccurrences
<1>3. t \in Inner /\ CharacterOf(t) = c
  BY <1>2 DEF Inner, CharacterOf
<1>4. Before(d, m, t)
  BY <1>2 DEF Before
<1>5. ASSUME NEW x \in Inner, Before(d, m, x), CharacterOf(x) = c
      PROVE  NotAfter(d, t, x)
  <2>1. /\ x[1] \in DOMAIN strings[1] /\ strings[1][x[1]] = c
        /\ x[2] \in DOMAIN strings[2] /\ strings[2][x[2]] = c
    BY <1>5, InnerFacts, InputFacts
  <2> QED BY <2>1, <1>2, <1>5 DEF Before, NotAfter
<1> QED BY <1>1, <1>3, <1>4, <1>5

(* Every character that some match ahead has is that of a successor, no    *)
(* farther away than that match.                                           *)
LEMMA NearestMatch ==
    ASSUME strings \in Inputs, NEW d \in Directions, NEW m \in Nodes, NEW x \in Inner,
           Before(d, m, x), m \in Inner => CharacterOf(x) # CharacterOf(m)
    PROVE  \E t \in SuccessorMatches(d, m) :
              CharacterOf(t) = CharacterOf(x) /\ NotAfter(d, t, x)
<1> DEFINE c == CharacterOf(x)
<1>1. /\ x[1] \in DOMAIN strings[1] /\ strings[1][x[1]] = c /\ Ahead(d, m[1], x[1])
      /\ x[2] \in DOMAIN strings[2] /\ strings[2][x[2]] = c /\ Ahead(d, m[2], x[2])
      /\ c \in Characters /\ m[1] \in Int /\ m[2] \in Int
      /\ strings[1] \in Seq(Characters) /\ strings[2] \in Seq(Characters)
  BY InnerFacts, InputFacts, NodeFacts DEF Before
<1> HIDE DEF c
<1>2. PICK q1 \in NextOccurrences(d, strings[1], m[1], c) : TRUE
  BY <1>1, NearestOccurrence
<1>3. PICK q2 \in NextOccurrences(d, strings[2], m[2], c) : TRUE
  BY <1>1, NearestOccurrence
<1> DEFINE t == <<q1, q2>>
<1>4. c \in Characters \ (IF m \in Inner THEN {CharacterOf(m)} ELSE {})
  BY <1>1 DEF c
<1>5. t \in NextOccurrences(d, strings[1], m[1], c) \X NextOccurrences(d, strings[2], m[2], c)
  BY <1>2, <1>3
<1>6. t \in SuccessorMatches(d, m)
  BY <1>4, <1>5 DEF SuccessorMatches
<1>7. CharacterOf(t) = c
  BY <1>2 DEF NextOccurrences, CharacterOf
<1> HIDE DEF t
<1>8. NotAfter(d, t, x)
  BY <1>6, <1>7, SuccessorFacts DEF c
<1> QED BY <1>6, <1>7, <1>8 DEF c

(* Before every successor, or at it, there is a dominating one.            *)
LEMMA DominatingBefore ==
    ASSUME strings \in Inputs, NEW d \in Directions, NEW m \in Nodes,
           NEW t \in SuccessorMatches(d, m)
    PROVE  \E s \in Dominating(d, SuccessorMatches(d, m)) : NotAfter(d, s, t)
<1> DEFINE S == SuccessorMatches(d, m)
           T == {s \in S : Before(d, s, t)}
<1>1. S \subseteq Inner /\ S \subseteq Nodes /\ T \subseteq Nodes /\ t \in Inner /\ t \in Nodes
  BY SuccessorFacts DEF Nodes
<1>2. NotAfter(d, t, t)
  BY <1>1, NodeFacts DEF NotAfter, Ahead
<1>3. CASE T = {}
  BY <1>2, <1>3 DEF Dominating, Before
<1>4. CASE T # {}
  <2> DEFINE rank == Distance(Opposite(d))
  <2>1. rank \in [Nodes -> Nat]
    BY DirectionFacts, DistanceType
  <2> HIDE DEF rank, T
  <2>2. PICK s \in T : \A x \in T : rank[s] <= rank[x]
    BY <1>1, <1>4, <2>1, LeastRank
  <2>3. s \in S /\ Before(d, s, t)
    BY <2>2 DEF T
  <2>4. ASSUME NEW x \in S, Before(d, x, s) PROVE FALSE
    <3>1. x \in Nodes /\ s \in Nodes
      BY <1>1, <2>3
    <3>2. x \in T
      BY <2>3, <2>4, <3>1, <1>1, BeforeTransitive DEF T
    <3>3. Before(Opposite(d), s, x)
      BY <2>4, <3>1, BeforeFacts
    <3>4. rank[x] < rank[s]
      BY <3>1, <3>3, DirectionFacts, BeforeFacts DEF rank
    <3> QED BY <3>1, <3>2, <3>4, <2>1, <2>2
  <2>5. s \in Dominating(d, S)
    BY <2>3, <2>4 DEF Dominating, Before
  <2> QED BY <2>3, <2>5, <1>1, BeforeFacts
<1> QED BY <1>3, <1>4

-----------------------------------------------------------------------------
(* Chains.                                                                 *)

Letters(X) == {CharacterOf(x) : x \in X}

(* How many different characters X has.                                    *)
Weight(X) == Cardinality(Letters(X))

Chains == {C \in SUBSET Inner :
              \A x, y \in C : x # y => /\ CharacterOf(x) # CharacterOf(y)
                                       /\ Before("forward", x, y) \/ Before("forward", y, x)}

(* What a chain has behind m, and what it has from m on.                   *)
Rest(d, C, m) == {x \in C : Before(d, m, x)}
From(d, C, m) == {x \in C : x = m \/ Before(d, m, x)}

(* t is the next match of the chain behind m.                              *)
IsNext(d, C, m, t) == /\ t \in C /\ Before(d, m, t)
                      /\ \A x \in Rest(d, C, m) : x = t \/ Before(d, t, x)

(* The places in a chain where something may follow.                       *)
Places(d, C) == C \cup {Source(d)}

(* A chain is a chain in either direction.                                 *)
LEMMA ChainFacts ==
    ASSUME strings \in Inputs, NEW C \in Chains, NEW d \in Directions
    PROVE  /\ C \subseteq Inner /\ C \subseteq Nodes
           /\ \A x, y \in C : x # y => /\ CharacterOf(x) # CharacterOf(y)
                                       /\ Before(d, x, y) \/ Before(d, y, x)
<1>1. C \subseteq Inner /\ C \subseteq Nodes
  BY DEF Chains, Nodes
<1>2. \A x, y \in C : x # y => Before("forward", x, y) \/ Before("forward", y, x)
  BY DEF Chains
<1>3. CASE d = "forward"
  BY <1>1, <1>2, <1>3 DEF Chains
<1>4. CASE d = "reverse"
  <2>1. \A x, y \in C : Before("reverse", x, y) <=> Before("forward", y, x)
    BY <1>1, BeforeFacts DEF Directions, Opposite
  <2> QED BY <1>1, <1>2, <2>1, <1>4 DEF Chains
<1> QED BY <1>3, <1>4 DEF Directions

(* Every match of a chain is behind a place of it, before it, or at it.    *)
LEMMA PlaceFacts ==
    ASSUME strings \in Inputs, NEW d \in Directions, NEW C \in Chains, NEW m \in Places(d, C)
    PROVE  /\ m \in Nodes /\ m # Sink(d) /\ (m \in Inner <=> m \in C)
           /\ \A x \in C : x = m \/ Before(d, x, m) \/ Before(d, m, x)
           /\ m \notin C => From(d, C, m) = Rest(d, C, m) /\ Rest(d, C, m) = C
           /\ From(d, C, m) = (IF m \in C THEN {m} ELSE {}) \cup Rest(d, C, m)
<1>1. CASE m \in C
  <2>1. m \in Inner /\ m \in Nodes
    BY <1>1, ChainFacts
  <2>2. m # Sink(d)
    BY <2>1, InnerFacts, DirectionFacts
  <2> QED BY <1>1, <2>1, <2>2, ChainFacts DEF From, Rest
<1>2. CASE m \notin C
  <2>1. m = Source(d)
    BY <1>2 DEF Places
  <2>2. m \in Nodes /\ m # Sink(d) /\ m \notin Inner
    BY <2>1, InnerFacts, DirectionFacts
  <2>3. \A x \in C : Before(d, m, x)
    BY <2>1, ChainFacts, EndsFacts
  <2> QED BY <1>2, <2>2, <2>3 DEF From, Rest
<1> QED BY <1>1, <1>2

(* A set of matches has finitely many characters, at most all.             *)
LEMMA LettersFinite ==
    ASSUME strings \in Inputs, NEW X, X \subseteq Inner
    PROVE  /\ Letters(X) \subseteq Characters /\ IsFiniteSet(Letters(X))
           /\ Weight(X) \in Nat /\ Weight(X) <= Sigma
<1>1. Letters(X) \subseteq Characters
  BY InnerFacts DEF Letters
<1> QED BY <1>1, CharactersFinite, FS_Subset, FS_CardinalityType DEF Weight

(* More letters, more weight.                                              *)
LEMMA WeightMonotone ==
    ASSUME strings \in Inputs, NEW X, NEW Y, Y \subseteq Inner, Letters(X) \subseteq Letters(Y)
    PROVE  Weight(X) \in Nat /\ Weight(Y) \in Nat /\ Weight(X) <= Weight(Y)
<1>1. IsFiniteSet(Letters(Y)) /\ Weight(Y) \in Nat
  BY LettersFinite
<1> QED BY <1>1, FS_Subset, FS_CardinalityType DEF Weight

(* Some dominating successor is at or before all the chain has ahead.      *)
LEMMA FirstDominates ==
    ASSUME strings \in Inputs, NEW d \in Directions, NEW C \in Chains, NEW m \in Places(d, C),
           SuccessorMatches(d, m) # {}
    PROVE  \E s \in Dominating(d, SuccessorMatches(d, m)) :
              \A x \in Rest(d, C, m) : NotAfter(d, s, x)
<1>1. m \in Nodes /\ (m \in Inner <=> m \in C)
  BY PlaceFacts
<1>2. CASE Rest(d, C, m) = {}
  <2>1. PICK t \in SuccessorMatches(d, m) : TRUE
    OBVIOUS
  <2> QED BY <1>1, <1>2, <2>1, DominatingBefore
<1>3. CASE Rest(d, C, m) # {}
  <2> DEFINE rank == Distance(Opposite(d))
             T == Rest(d, C, m)
  <2>1. rank \in [Nodes -> Nat]
    BY DirectionFacts, DistanceType
  <2>2. T \subseteq Nodes /\ T \subseteq C
    BY ChainFacts DEF Rest
  <2> HIDE DEF rank, T
  <2>3. PICK x \in T : \A y \in T : rank[x] <= rank[y]
    BY <1>3, <2>1, <2>2, LeastRank DEF T
  <2>4. \A y \in T : NotAfter(d, x, y)
    <3> SUFFICES ASSUME NEW y \in T PROVE NotAfter(d, x, y)
      OBVIOUS
    <3>1. x \in Nodes /\ y \in Nodes /\ x \in C /\ y \in C
      BY <2>2
    <3>2. CASE x = y
      BY <3>1, <3>2, NodeFacts DEF NotAfter, Ahead
    <3>3. CASE x # y /\ Before(d, x, y)
      BY <3>1, <3>3, BeforeFacts
    <3>4. CASE Before(d, y, x)
      <4>1. rank[y] < rank[x]
        BY <3>1, <3>4, DirectionFacts, BeforeFacts DEF rank
      <4> QED BY <4>1, <2>1, <2>3, <3>1
    <3> QED BY <3>1, <3>2, <3>3, <3>4, ChainFacts
  <2>5. /\ x \in Inner /\ x \in Nodes /\ Before(d, m, x)
        /\ m \in Inner => CharacterOf(x) # CharacterOf(m)
    <3>1. x \in C /\ x \in Nodes /\ x \in Inner /\ Before(d, m, x)
      BY <2>2, ChainFacts DEF T, Rest
    <3>2. x # m
      BY <3>1, <1>1, BeforeFacts
    <3> QED BY <3>1, <3>2, <1>1, ChainFacts
  <2>6. PICK t \in SuccessorMatches(d, m) : NotAfter(d, t, x)
    BY <1>1, <2>5, NearestMatch
  <2>7. PICK s \in Dominating(d, SuccessorMatches(d, m)) : NotAfter(d, s, t)
    BY <1>1, DominatingBefore
  <2>8. s \in Nodes /\ t \in Nodes
    BY <1>1, SuccessorFacts DEF Dominating, Nodes
  <2>9. \A y \in T : NotAfter(d, s, y)
    BY <2>2, <2>4, <2>5, <2>6, <2>7, <2>8, BeforeTransitive
  <2> QED BY <2>9 DEF T
<1> QED BY <1>2, <1>3

(* A chain with something ahead has a successor.                           *)
LEMMA RestHasSuccessor ==
    ASSUME strings \in Inputs, NEW d \in Directions, NEW C \in Chains, NEW m \in Places(d, C),
           SuccessorMatches(d, m) = {}
    PROVE  Rest(d, C, m) = {}
<1> SUFFICES ASSUME NEW x \in Rest(d, C, m) PROVE FALSE
  OBVIOUS
<1>1. x \in C /\ x \in Inner /\ x \in Nodes /\ Before(d, m, x) /\ m \in Nodes /\ (m \in Inner <=> m \in C)
  BY ChainFacts, PlaceFacts DEF Rest
<1>2. m \in Inner => CharacterOf(x) # CharacterOf(m)
  BY <1>1, ChainFacts, BeforeFacts
<1> QED BY <1>1, <1>2, NearestMatch

(* Let the chain go to s from m instead of to whatever comes next, and     *)
(* drop the match that has the character of s now.                         *)
Exchanged(C, s) == {x \in C : CharacterOf(x) # CharacterOf(s)} \cup {s}

(* What comes before a place keeps its order to s, what comes behind gets  *)
(* s in front: the chain with s is a chain, and has lost no character.     *)
LEMMA Exchange ==
    ASSUME strings \in Inputs, NEW d \in Directions, NEW C \in Chains, NEW m \in Places(d, C),
           NEW s \in SuccessorMatches(d, m), \A x \in Rest(d, C, m) : NotAfter(d, s, x)
    PROVE  /\ Exchanged(C, s) \in Chains
           /\ m \in Places(d, Exchanged(C, s))
           /\ IsNext(d, Exchanged(C, s), m, s)
           /\ Letters(C) \subseteq Letters(Exchanged(C, s))
           /\ Letters(Rest(d, C, m)) \subseteq Letters(From(d, Exchanged(C, s), s))
<1> DEFINE E == Exchanged(C, s)
           kept == {x \in C : CharacterOf(x) # CharacterOf(s)}
<1>1. /\ m \in Nodes /\ (m \in Inner <=> m \in C) /\ C \subseteq Inner /\ C \subseteq Nodes
      /\ \A x \in C : x = m \/ Before(d, x, m) \/ Before(d, m, x)
  BY PlaceFacts, ChainFacts
<1>2. /\ s \in Inner /\ s \in Nodes /\ Before(d, m, s)
      /\ m \in Inner => CharacterOf(s) # CharacterOf(m)
  BY <1>1, SuccessorFacts DEF Nodes
<1>3. E \subseteq Inner /\ s \in E /\ m \in Places(d, E)
  BY <1>1, <1>2 DEF Exchanged, Places
<1>4. \A x \in kept : Before(d, m, x) => Before(d, s, x)
  <2> SUFFICES ASSUME NEW x \in C, CharacterOf(x) # CharacterOf(s), Before(d, m, x)
               PROVE  Before(d, s, x)
    OBVIOUS
  <2>1. NotAfter(d, s, x)
    BY DEF Rest
  <2> QED BY <2>1, <1>1, <1>2, NotAfterIsBefore
<1>5. \A x \in kept : ~Before(d, m, x) => Before(d, x, s)
  BY <1>1, <1>2, BeforeTransitive
<1>6. \A x \in kept : Before(d, x, s) \/ Before(d, s, x)
  BY <1>4, <1>5
<1>7. E \in Chains
  <2> SUFFICES ASSUME NEW x \in E, NEW y \in E, x # y
               PROVE  /\ CharacterOf(x) # CharacterOf(y)
                      /\ Before("forward", x, y) \/ Before("forward", y, x)
    BY <1>3 DEF Chains
  <2>1. CASE x \in kept /\ y \in kept
    BY <2>1 DEF Chains
  <2>2. ASSUME NEW z \in kept
        PROVE  /\ CharacterOf(z) # CharacterOf(s)
               /\ Before("forward", z, s) \/ Before("forward", s, z)
    <3>1. z \in Nodes /\ (Before(d, z, s) \/ Before(d, s, z))
      BY <1>1, <1>6
    <3>2. CASE d = "forward"
      BY <3>1, <3>2
    <3>3. CASE d = "reverse"
      BY <3>1, <3>3, <1>2, BeforeFacts DEF Directions, Opposite
    <3> QED BY <3>2, <3>3 DEF Directions
  <2> QED BY <2>1, <2>2 DEF Exchanged
<1>8. IsNext(d, E, m, s)
  <2>1. \A x \in E : x = s \/ x \in kept
    BY DEF Exchanged
  <2> QED BY <1>2, <1>3, <1>4, <2>1 DEF IsNext, Rest
<1>9. Letters(C) \subseteq Letters(E)
  BY DEF Letters, Exchanged
<1>10. Letters(Rest(d, C, m)) \subseteq Letters(From(d, E, s))
  <2> SUFFICES ASSUME NEW x \in C, Before(d, m, x)
               PROVE  \E y \in From(d, E, s) : CharacterOf(y) = CharacterOf(x)
    BY DEF Letters, Rest
  <2>1. CASE CharacterOf(x) = CharacterOf(s)
    BY <2>1, <1>3 DEF From
  <2>2. CASE CharacterOf(x) # CharacterOf(s)
    <3>1. x \in E /\ Before(d, s, x)
      BY <2>2, <1>4 DEF Exchanged
    <3> QED BY <3>1 DEF From
  <2> QED BY <2>1, <2>2
<1> QED BY <1>3, <1>7, <1>8, <1>9, <1>10

(* From any place where there are successors one can go to a dominating    *)
(* one and stay on a chain that is worth as much, ahead as well as all in  *)
(* all.                                                                    *)
LEMMA GoesOn ==
    ASSUME strings \in Inputs, NEW d \in Directions, NEW C \in Chains, NEW m \in Places(d, C),
           SuccessorMatches(d, m) # {}
    PROVE  \E s \in Dominating(d, SuccessorMatches(d, m)), E \in Chains :
              /\ m \in Places(d, E) /\ IsNext(d, E, m, s)
              /\ Weight(C) <= Weight(E)
              /\ Letters(Rest(d, C, m)) \subseteq Letters(From(d, E, s))
<1>1. PICK s \in Dominating(d, SuccessorMatches(d, m)) :
         \A x \in Rest(d, C, m) : NotAfter(d, s, x)
  BY FirstDominates
<1>2. s \in SuccessorMatches(d, m)
  BY DEF Dominating
<1>3. /\ Exchanged(C, s) \in Chains /\ Exchanged(C, s) \subseteq Inner
      /\ m \in Places(d, Exchanged(C, s))
      /\ IsNext(d, Exchanged(C, s), m, s)
      /\ Letters(C) \subseteq Letters(Exchanged(C, s))
      /\ Letters(Rest(d, C, m)) \subseteq Letters(From(d, Exchanged(C, s), s))
  BY <1>1, <1>2, Exchange, ChainFacts
<1>4. Weight(C) <= Weight(Exchanged(C, s))
  BY <1>3, WeightMonotone
<1> QED BY <1>3, <1>4

(* The character of a match of a chain does not occur behind it.           *)
LEMMA FromWeight ==
    ASSUME strings \in Inputs, NEW d \in Directions, NEW C \in Chains, NEW m \in C
    PROVE  /\ Letters(From(d, C, m)) = {CharacterOf(m)} \cup Letters(Rest(d, C, m))
           /\ CharacterOf(m) \notin Letters(Rest(d, C, m))
           /\ Weight(From(d, C, m)) = Weight(Rest(d, C, m)) + 1
           /\ Weight(Rest(d, C, m)) \in Nat
<1>1. Letters(From(d, C, m)) = {CharacterOf(m)} \cup Letters(Rest(d, C, m))
  BY DEF Letters, From, Rest
<1>2. CharacterOf(m) \notin Letters(Rest(d, C, m))
  <2> SUFFICES ASSUME NEW x \in C, Before(d, m, x) PROVE CharacterOf(x) # CharacterOf(m)
    BY DEF Letters, Rest
  <2>1. x # m
    BY ChainFacts, BeforeFacts
  <2> QED BY <2>1, ChainFacts
<1>3. Rest(d, C, m) \subseteq Inner
  BY ChainFacts DEF Rest
<1>4. IsFiniteSet(Letters(Rest(d, C, m))) /\ Weight(Rest(d, C, m)) \in Nat
  BY <1>3, LettersFinite
<1>5. Cardinality(Letters(Rest(d, C, m)) \cup {CharacterOf(m)}) = Weight(Rest(d, C, m)) + 1
  BY <1>2, <1>4, FS_AddElement DEF Weight
<1>6. Letters(From(d, C, m)) = Letters(Rest(d, C, m)) \cup {CharacterOf(m)}
  BY <1>1
<1> QED BY <1>1, <1>2, <1>4, <1>5, <1>6 DEF Weight

(* What lies up to m and what lies from the next match on is all there is. *)
LEMMA SplitWeight ==
    ASSUME strings \in Inputs, NEW d \in Directions, NEW C \in Chains, NEW m \in Places(d, C),
           NEW t, IsNext(d, C, m, t)
    PROVE  /\ m \in C => /\ Letters(C) = Letters(From(Opposite(d), C, m)) \cup Letters(From(d, C, t))
                         /\ Weight(C) <= Weight(From(Opposite(d), C, m)) + Weight(From(d, C, t))
           /\ m \notin C => Letters(C) = Letters(From(d, C, t))
           /\ t \in C /\ Before(d, m, t)
<1> DEFINE o == Opposite(d)
<1>1. /\ m \in Nodes /\ t \in Nodes /\ C \subseteq Nodes /\ C \subseteq Inner /\ t \in C
      /\ \A x \in C : x = m \/ Before(d, x, m) \/ Before(d, m, x)
      /\ o \in Directions
  BY PlaceFacts, ChainFacts, DirectionFacts DEF IsNext
<1>2. \A x \in C : Before(d, m, x) => x \in From(d, C, t)
  BY DEF IsNext, Rest, From
<1>3. \A x \in C : x = m \/ Before(d, x, m) => x \in From(o, C, m)
  BY <1>1, BeforeFacts DEF From
<1>4. CASE m \in C
  <2>1. From(o, C, m) \subseteq C /\ From(d, C, t) \subseteq C /\ C \subseteq From(o, C, m) \cup From(d, C, t)
    BY <1>1, <1>2, <1>3 DEF From
  <2> DEFINE A == Letters(From(o, C, m))
             B == Letters(From(d, C, t))
  <2>2. Letters(C) = A \cup B
    BY <2>1 DEF Letters
  <2>3. IsFiniteSet(A) /\ IsFiniteSet(B) /\ IsFiniteSet(A \cap B)
    BY <2>1, <1>1, LettersFinite, FS_Intersection
  <2>4. /\ Cardinality(A) \in Nat /\ Cardinality(B) \in Nat /\ Cardinality(A \cap B) \in Nat
        /\ Cardinality(A \cup B) = Cardinality(A) + Cardinality(B) - Cardinality(A \cap B)
    BY <2>3, FS_CardinalityType, FS_Union
  <2>5. Cardinality(A \cup B) <= Cardinality(A) + Cardinality(B)
    <3> HIDE DEF A, B
    <3> QED BY <2>4
  <2> QED BY <1>4, <2>2, <2>5 DEF Weight, IsNext
<1>5. CASE m \notin C
  <2>1. C \subseteq From(d, C, t) /\ From(d, C, t) \subseteq C
    BY <1>2, <1>5, PlaceFacts DEF From, Rest
  <2>2. C = From(d, C, t)
    BY <2>1
  <2> QED BY <1>5, <2>2 DEF IsNext
<1> QED BY <1>4, <1>5

(* A match splits a chain into what is behind it in either direction.      *)
LEMMA SplitAt ==
    ASSUME strings \in Inputs, NEW C \in Chains, NEW m \in C
    PROVE  /\ Letters(C) = Letters(Rest("forward", C, m)) \cup Letters(Rest("reverse", C, m))
                             \cup {CharacterOf(m)}
           /\ Weight(C) <= Weight(Rest("forward", C, m)) + Weight(Rest("reverse", C, m)) + 1
           /\ Weight(C) <= Weight(From("forward", C, m)) + Weight(From("reverse", C, m)) - 1
<1> DEFINE A == Letters(Rest("forward", C, m))
           B == Letters(Rest("reverse", C, m))
           c == CharacterOf(m)
<1>1. /\ "forward" \in Directions /\ "reverse" \in Directions /\ m \in Places("forward", C)
      /\ Opposite("forward") = "reverse" /\ C \subseteq Inner /\ C \subseteq Nodes
  BY ChainFacts DEF Directions, Opposite, Places
<1>2. \A x \in C : x = m \/ x \in Rest("forward", C, m) \/ x \in Rest("reverse", C, m)
  BY <1>1, PlaceFacts, BeforeFacts DEF Rest
<1>3. Letters(C) = A \cup B \cup {c}
  BY <1>2 DEF Letters, Rest
<1>4. Rest("forward", C, m) \subseteq Inner /\ Rest("reverse", C, m) \subseteq Inner
  BY <1>1 DEF Rest
<1>5. IsFiniteSet(A) /\ IsFiniteSet(B) /\ IsFiniteSet(A \cap B) /\ IsFiniteSet(A \cup B)
  BY <1>4, LettersFinite, FS_Intersection, FS_Union
<1>6. /\ Cardinality(A) \in Nat /\ Cardinality(B) \in Nat /\ Cardinality(A \cap B) \in Nat
      /\ Cardinality(A \cup B) = Cardinality(A) + Cardinality(B) - Cardinality(A \cap B)
      /\ Cardinality(A \cup B) \in Nat
      /\ Cardinality(A \cup B \cup {c}) \in {Cardinality(A \cup B), Cardinality(A \cup B) + 1}
  BY <1>5, FS_CardinalityType, FS_Union, FS_AddElement
<1>7. Weight(C) <= Cardinality(A) + Cardinality(B) + 1
  <2>1. Weight(C) = Cardinality(A \cup B \cup {c})
    BY <1>3 DEF Weight
  <2> HIDE DEF A, B, c
  <2> QED BY <1>6, <2>1
<1>8. /\ Weight(From("forward", C, m)) = Cardinality(A) + 1
      /\ Weight(From("reverse", C, m)) = Cardinality(B) + 1
  BY <1>1, FromWeight DEF Weight
<1>9. Weight(C) <= Weight(From("forward", C, m)) + Weight(From("reverse", C, m)) - 1
  <2> HIDE DEF A, B
  <2> QED BY <1>6, <1>7, <1>8
<1> QED BY <1>3, <1>7, <1>9 DEF Weight

-----------------------------------------------------------------------------
(* Solutions.                                                              *)

(* There are places in s for the characters of w, in their order.          *)
HasEmbedding(w, s) ==
    \E at \in [1..Len(w) -> 1..Len(s)] :
       /\ \A i \in 1..Len(w) : s[at[i]] = w[i]
       /\ \A i, j \in 1..Len(w) : i < j => at[i] < at[j]

(* What prefix, in IsSubsequence, is said to be.                           *)
IsPrefixCount(prefix, w, s) ==
    /\ prefix \in [0..Len(s) -> 0..Len(w)]
    /\ prefix[0] = 0
    /\ \A j \in 1..Len(s) :
          prefix[j] = IF prefix[j - 1] < Len(w) /\ w[prefix[j - 1] + 1] = s[j]
                      THEN prefix[j - 1] + 1 ELSE prefix[j - 1]

(* The recursive definition of IsSubsequence has a solution.               *)
LEMMA PrefixUnfold ==
    ASSUME NEW w \in Seq(Characters), NEW s \in Seq(Characters)
    PROVE  \E prefix : /\ IsPrefixCount(prefix, w, s)
                       /\ IsSubsequence(w, s) <=> prefix[Len(s)] = Len(w)
<1> DEFINE P == 0..Len(s)
           V == 0..Len(w)
           Longer(k, j) == IF k < Len(w) /\ w[k + 1] = s[j] THEN k + 1 ELSE k
           Body(g) == [j \in 0..Len(s) |-> IF j = 0 THEN 0 ELSE Longer(g[j - 1], j)]
           F == [g \in [P -> V] |-> Body(g)]
           rank == [j \in P |-> j]
           prefix == CHOOSE g : g = Body(g)
<1>1. IsSubsequence(w, s) = (prefix[Len(s)] = Len(w))
  BY DEF IsSubsequence
<1>2. Len(w) \in Nat /\ Len(s) \in Nat
  OBVIOUS
<1>3. \A g \in [P -> V] : Body(g) \in [P -> V]
  <2> SUFFICES ASSUME NEW g \in [P -> V], NEW j \in P
               PROVE  (IF j = 0 THEN 0 ELSE Longer(g[j - 1], j)) \in V
    OBVIOUS
  <2>1. CASE j = 0
    BY <1>2, <2>1
  <2>2. CASE j # 0
    <3>1. j - 1 \in P
      BY <1>2, <2>2
    <3>2. g[j - 1] \in V
      <4> HIDE DEF P, V
      <4> QED BY <3>1
    <3> QED BY <2>2, <3>2, <1>2
  <2> QED BY <2>1, <2>2
<1>4. Descends(F, P, V, rank, Len(s)) /\ V # {}
  <2>1. rank \in [P -> 0..Len(s)]
    OBVIOUS
  <2>2. F \in [[P -> V] -> [P -> V]]
    <3> HIDE DEF Body, P, V
    <3> QED BY <1>3
  <2>3. \A g, h \in [P -> V] : \A j \in P :
           (\A t \in P : rank[t] < rank[j] => g[t] = h[t]) => F[g][j] = F[h][j]
    <3> SUFFICES ASSUME NEW g \in [P -> V], NEW h \in [P -> V], NEW j \in P,
                        \A t \in P : rank[t] < rank[j] => g[t] = h[t]
                 PROVE  F[g][j] = F[h][j]
      <4> HIDE DEF F, P, V, rank
      <4> QED OBVIOUS
    <3>1. j # 0 => g[j - 1] = h[j - 1]
      BY <1>2
    <3> HIDE DEF Longer
    <3> QED BY <3>1
  <2>4. 0 \in V
    BY <1>2
  <2> HIDE DEF P, V, F, rank
  <2> QED BY <1>2, <2>1, <2>2, <2>3, <2>4 DEF Descends
<1>5. PICK g \in [P -> V] : F[g] = g
  <2> HIDE DEF P, V, F, rank
  <2> QED BY <1>4, RecursionHasSolution
<1>6. prefix = Body(prefix)
  <2>1. g = Body(g)
    BY <1>5
  <2> HIDE DEF Body
  <2> QED BY <2>1
<1> HIDE DEF prefix
<1>7. \A j \in P : prefix[j] = IF j = 0 THEN 0 ELSE Longer(prefix[j - 1], j)
  <2> HIDE DEF Longer
  <2> QED BY <1>6
<1> HIDE DEF Body
<1>8. \A j \in P : prefix[j] \in V
  <2> DEFINE T == {j \in P : prefix[j] \notin V}
  <2> SUFFICES ASSUME T # {} PROVE FALSE
    OBVIOUS
  <2>1. T \subseteq Nat
    BY <1>2
  <2>2. PICK j \in T : \A k \in T : j <= k
    <3> HIDE DEF T
    <3> QED BY <2>1, LeastNumber
  <2>3. j \in P /\ j # 0
    BY <1>7, <1>2, <2>2
  <2>4. j - 1 \in P /\ j - 1 \notin T
    <3>1. j - 1 \in P
      BY <2>3, <1>2
    <3> HIDE DEF T
    <3> QED BY <3>1, <2>1, <2>2
  <2>5. prefix[j - 1] \in V
    BY <2>4
  <2>6. prefix[j] = Longer(prefix[j - 1], j)
    <3> HIDE DEF Longer
    <3> QED BY <1>7, <2>3
  <2> QED BY <2>2, <2>5, <2>6, <1>2
<1>9. prefix \in [P -> V]
  <2>1. prefix = [j \in P |-> prefix[j]]
    <3> HIDE DEF Longer
    <3> QED BY <1>6 DEF Body
  <2> HIDE DEF P, V
  <2> QED BY <2>1, <1>8
<1>10. IsPrefixCount(prefix, w, s)
  <2>1. 0 \in P /\ \A j \in 1..Len(s) : j \in P /\ j # 0
    BY <1>2
  <2>2. prefix[0] = 0 /\ \A j \in 1..Len(s) : prefix[j] = Longer(prefix[j - 1], j)
    <3> HIDE DEF Longer
    <3> QED BY <2>1, <1>7
  <2> QED BY <2>2, <1>9 DEF IsPrefixCount
<1> QED BY <1>1, <1>10

(* IsSubsequence finds embeddings only where there are some: the prefixes  *)
(* it finds have one.                                                      *)
LEMMA SubsequenceEmbeds ==
    ASSUME NEW w \in Seq(Characters), NEW s \in Seq(Characters), IsSubsequence(w, s)
    PROVE  HasEmbedding(w, s)
<1> DEFINE P == 0..Len(s)
           V == 0..Len(w)
           Longer(k, j) == IF k < Len(w) /\ w[k + 1] = s[j] THEN k + 1 ELSE k
<1>2. Len(w) \in Nat /\ Len(s) \in Nat
  OBVIOUS
<1>1. PICK prefix : IsPrefixCount(prefix, w, s) /\ prefix[Len(s)] = Len(w)
  BY PrefixUnfold
<1>7. \A j \in P : prefix[j] = IF j = 0 THEN 0 ELSE Longer(prefix[j - 1], j)
  BY <1>1 DEF IsPrefixCount
<1> DEFINE Embeds(at, i) == /\ \A k \in 1..i : s[at[k]] = w[k]
                            /\ \A k, l \in 1..i : k < l => at[k] < at[l]
           Holds(j) == prefix[j] \in V /\ \E at \in [1..prefix[j] -> 1..j] : Embeds(at, prefix[j])
           T == {j \in P : ~Holds(j)}
<1>8. T = {}
  <2> SUFFICES ASSUME T # {} PROVE FALSE
    OBVIOUS
  <2>1. T \subseteq Nat
    BY <1>2
  <2> HIDE DEF T
  <2>2. PICK j \in T : \A k \in T : j <= k
    BY <2>1, LeastNumber
  <2>3. j \in P /\ ~Holds(j)
    <3> HIDE DEF Holds
    <3> QED BY <2>2 DEF T
  <2>4. j # 0
    <3> SUFFICES ASSUME j = 0 PROVE FALSE
      OBVIOUS
    <3>1. prefix[j] = 0
      BY <1>7, <2>3
    <3>2. [k \in 1..0 |-> 0] \in [1..0 -> 1..j] /\ Embeds([k \in 1..0 |-> 0], 0)
      OBVIOUS
    <3>3. 0 \in V
      BY <1>2
    <3>4. \E at \in [1..0 -> 1..j] : Embeds(at, 0)
      <4> HIDE DEF Embeds
      <4> QED BY <3>2
    <3> HIDE DEF Embeds, V
    <3> QED BY <2>3, <3>1, <3>3, <3>4
  <2>5. j - 1 \in P /\ j \in Nat \ {0}
    BY <2>3, <2>4, <1>2
  <2>6. Holds(j - 1)
    <3>1. j - 1 \notin T
      BY <2>2, <2>5, <2>1
    <3> HIDE DEF Holds
    <3> QED BY <3>1, <2>5 DEF T
  <2> DEFINE p == prefix[j - 1]
             i == p + 1
  <2>7. PICK at \in [1..p -> 1..(j - 1)] : Embeds(at, p)
    BY <2>6
  <2>8. p \in 0..Len(w) /\ prefix[j] = Longer(p, j)
    <3> HIDE DEF Longer
    <3> QED BY <1>7, <2>3, <2>4, <2>6
  <2> HIDE DEF p
  <2>9. CASE prefix[j] = p
    <3>1. at \in [1..p -> 1..j]
      BY <2>5, <2>7
    <3> HIDE DEF Embeds
    <3> QED BY <3>1, <2>3, <2>7, <2>8, <2>9
  <2>10. CASE prefix[j] = i /\ p < Len(w) /\ w[i] = s[j]
    <3> DEFINE more == [k \in 1..i |-> IF k = i THEN j ELSE at[k]]
    <3>1. i \in Nat \ {0} /\ i \in V
      BY <2>8, <2>10, <1>2
    <3>2. /\ more[i] = j
          /\ \A k \in 1..i : k # i => k \in 1..p /\ more[k] = at[k] /\ at[k] \in 1..(j - 1)
      BY <2>5, <2>8, <3>1
    <3>3. more \in [1..i -> 1..j]
      BY <2>5, <3>2
    <3> HIDE DEF more
    <3>4. Embeds(more, i)
      <4>1. \A k \in 1..i : s[more[k]] = w[k]
        BY <2>7, <3>2, <2>10
      <4>2. \A k, l \in 1..i : k < l => more[k] < more[l]
        <5> SUFFICES ASSUME NEW k \in 1..i, NEW l \in 1..i, k < l PROVE more[k] < more[l]
          OBVIOUS
        <5>1. k # i
          BY <3>1
        <5>2. CASE l = i
          BY <5>1, <5>2, <3>2, <2>5
        <5>3. CASE l # i
          BY <5>1, <5>3, <2>7, <3>2
        <5> QED BY <5>2, <5>3
      <4> QED BY <4>1, <4>2
    <3> HIDE DEF Embeds, i
    <3> QED BY <3>1, <3>3, <3>4, <2>3, <2>10
  <2> QED BY <2>8, <2>9, <2>10
<1>9. Holds(Len(s))
  <2> HIDE DEF Holds
  <2> QED BY <1>2, <1>8
<1> QED BY <1>1, <1>9 DEF HasEmbedding

(* ... and it finds one wherever there is one: the prefix is never shorter *)
(* than what has its place so far.                                         *)
LEMMA EmbeddingIsFound ==
    ASSUME NEW w \in Seq(Characters), NEW s \in Seq(Characters), HasEmbedding(w, s)
    PROVE  IsSubsequence(w, s)
<1> DEFINE n == Len(w)
           l == Len(s)
<1>1. n \in Nat /\ l \in Nat
  OBVIOUS
<1>2. PICK prefix : IsPrefixCount(prefix, w, s) /\ (IsSubsequence(w, s) <=> prefix[l] = n)
  BY PrefixUnfold
<1>3. /\ \A j \in 0..l : prefix[j] \in 0..n
      /\ \A j \in 1..l : prefix[j] = IF prefix[j - 1] < n /\ w[prefix[j - 1] + 1] = s[j]
                                     THEN prefix[j - 1] + 1 ELSE prefix[j - 1]
  BY <1>2 DEF IsPrefixCount
<1>4. PICK at \in [1..n -> 1..l] : /\ \A i \in 1..n : s[at[i]] = w[i]
                                  /\ \A i, j \in 1..n : i < j => at[i] < at[j]
  BY DEF HasEmbedding
<1> HIDE DEF n, l
<1> DEFINE T == {j \in 0..l : \E i \in 1..n : at[i] <= j /\ prefix[j] < i}
<1>5. T = {}
  <2> SUFFICES ASSUME T # {} PROVE FALSE
    OBVIOUS
  <2>1. T \subseteq Nat
    BY <1>1
  <2>2. PICK j \in T : \A k \in T : j <= k
    <3> HIDE DEF T
    <3> QED BY <2>1, LeastNumber
  <2>3. PICK i \in 1..n : at[i] <= j /\ prefix[j] < i
    BY <2>2
  <2>4. at[i] \in 1..l /\ j \in 1..l /\ j - 1 \in 0..l
    BY <2>2, <2>3, <1>1, <1>4
  <2>5. \A k \in 1..n : at[k] <= j - 1 => prefix[j - 1] >= k
    <3> SUFFICES ASSUME NEW k \in 1..n, at[k] <= j - 1, ~(prefix[j - 1] >= k) PROVE FALSE
      OBVIOUS
    <3>1. j - 1 \notin T
      <4> HIDE DEF T
      <4> QED BY <2>1, <2>2
    <3>2. prefix[j - 1] \in 0..n
      <4> HIDE DEF T
      <4> QED BY <1>3, <2>4
    <3>3. prefix[j - 1] < k
      <4> HIDE DEF T
      <4> QED BY <3>2, <1>1
    <3>4. j - 1 \in T
      BY <3>3, <2>4
    <3> QED BY <3>1, <3>4
  <2> HIDE DEF T
  <2>6. /\ prefix[j - 1] \in 0..n /\ prefix[j] \in 0..n
        /\ prefix[j] = IF prefix[j - 1] < n /\ w[prefix[j - 1] + 1] = s[j]
                       THEN prefix[j - 1] + 1 ELSE prefix[j - 1]
    BY <1>3, <2>4, <1>1
  <2>9. prefix[j] >= prefix[j - 1] /\ prefix[j] \in Int /\ prefix[j - 1] \in Int
    BY <2>6, <1>1
  <2>7. CASE at[i] <= j - 1
    <3>1. prefix[j - 1] >= i
      BY <2>5, <2>7
    <3> QED BY <3>1, <2>3, <2>9, <1>1
  <2>8. CASE at[i] = j
    <3>1. prefix[j - 1] >= i - 1
      <4>1. CASE i = 1
        BY <4>1, <2>6, <1>1
      <4>2. CASE i # 1
        <5>1. i - 1 \in 1..n /\ i - 1 < i
          BY <4>2, <1>1
        <5>2. at[i - 1] < at[i] /\ at[i - 1] \in 1..l
          BY <5>1, <1>4
        <5> QED BY <5>1, <5>2, <2>5, <2>8, <2>4, <1>1
      <4> QED BY <4>1, <4>2
    <3>2. prefix[j - 1] = i - 1
      <4>1. i \in Int
        BY <1>1
      <4>2. prefix[j - 1] < i
        BY <4>1, <2>3, <2>9
      <4> HIDE DEF T
      <4>3. j \in Int
        BY <2>4, <1>1
      <4> QED BY <3>1, <4>1, <4>2, <4>3, <2>9
    <3>3. prefix[j - 1] < n /\ w[prefix[j - 1] + 1] = s[j]
      <4>1. (i - 1) + 1 = i /\ s[j] = w[i]
        BY <2>8, <1>1, <1>4
      <4> QED BY <4>1, <3>2, <1>1
    <3> QED BY <3>2, <3>3, <2>3, <2>6, <1>1
  <2> QED BY <2>3, <2>4, <2>7, <2>8, <1>1
<1>6. prefix[l] = n
  <2>1. prefix[l] \in 0..n /\ l \notin T
    BY <1>1, <1>3, <1>5
  <2>2. CASE n = 0
    BY <2>1, <2>2
  <2>3. CASE n # 0
    <3>1. n \in 1..n /\ at[n] \in 1..l /\ l \in 0..l
      BY <2>3, <1>1, <1>4
    <3>2. ~(prefix[l] < n)
      BY <3>1, <2>1, <1>1
    <3> QED BY <3>2, <2>1, <1>1
  <2> QED BY <2>2, <2>3
<1> QED BY <1>2, <1>6

(* What words, in Solutions, grows by.                                     *)
GrownWords(input, X, k) ==
    {w \in {Append(v, input[1][p]) : v \in X, p \in DOMAIN input[1]} :
        (\A i \in 1..(k - 1) : w[i] # w[k]) /\ IsCommon(w, input)}

(* The recursive definition of Solutions has a solution.                   *)
LEMMA WordsUnfold ==
    ASSUME NEW input \in Inputs
    PROVE  \E words : /\ Solutions(input) = UNION {words[k] : k \in 0..Sigma}
                      /\ \A k \in 0..Sigma :
                            words[k] = IF k = 0 THEN {<<>>} ELSE GrownWords(input, words[k - 1], k)
<1> DEFINE K == 0..Sigma
           V == SUBSET Seq(Characters)
           Grown(X, k) == {w \in {Append(v, input[1][p]) : v \in X, p \in DOMAIN input[1]} :
                              (\A i \in 1..(k - 1) : w[i] # w[k]) /\ IsCommon(w, input)}
           Body(g) == [k \in 0..Sigma |-> IF k = 0 THEN {<<>>} ELSE Grown(g[k - 1], k)]
           F == [g \in [K -> V] |-> Body(g)]
           rank == [k \in K |-> k]
           words == CHOOSE g : g = Body(g)
<1>1. Solutions(input) = UNION {words[k] : k \in 0..Sigma}
  BY DEF Solutions
<1>2. Sigma \in Nat \ {0}
  BY CharactersFinite
<1>3. /\ \A p \in DOMAIN input[1] : input[1][p] \in Characters
      /\ \A X \in V : \A k : Grown(X, k) \in V
  <2>1. input[1] \in Seq(Characters)
    BY InputAssumption
  <2>2. \A p \in DOMAIN input[1] : input[1][p] \in Characters
    BY <2>1
  <2> QED BY <2>2
<1>4. \A g \in [K -> V] : Body(g) \in [K -> V]
  <2> HIDE DEF Grown
  <2> SUFFICES ASSUME NEW g \in [K -> V], NEW k \in K
               PROVE  (IF k = 0 THEN {<<>>} ELSE Grown(g[k - 1], k)) \in V
    OBVIOUS
  <2>1. k # 0 => g[k - 1] \in V
    BY <1>2
  <2>2. {<<>>} \in V
    OBVIOUS
  <2> HIDE DEF V
  <2> QED BY <1>3, <2>1, <2>2
<1>5. Descends(F, K, V, rank, Sigma) /\ V # {}
  <2>1. rank \in [K -> 0..Sigma]
    OBVIOUS
  <2>2. F \in [[K -> V] -> [K -> V]]
    <3> HIDE DEF Body, K, V
    <3> QED BY <1>4
  <2>3. \A g, h \in [K -> V] : \A k \in K :
           (\A t \in K : rank[t] < rank[k] => g[t] = h[t]) => F[g][k] = F[h][k]
    <3> SUFFICES ASSUME NEW g \in [K -> V], NEW h \in [K -> V], NEW k \in K,
                        \A t \in K : rank[t] < rank[k] => g[t] = h[t]
                 PROVE  F[g][k] = F[h][k]
      <4> HIDE DEF F, K, V, rank
      <4> QED OBVIOUS
    <3>1. k # 0 => g[k - 1] = h[k - 1]
      BY <1>2
    <3> HIDE DEF Grown, V
    <3> QED BY <3>1
  <2>4. {} \in V
    OBVIOUS
  <2> HIDE DEF K, V, F, rank
  <2> QED BY <1>2, <2>1, <2>2, <2>3, <2>4 DEF Descends
<1>6. PICK g \in [K -> V] : F[g] = g
  <2> HIDE DEF K, V, F, rank
  <2> QED BY <1>5, RecursionHasSolution
<1>7. words = Body(words)
  <2>1. g = Body(g)
    BY <1>6
  <2> HIDE DEF Body
  <2> QED BY <2>1
<1> HIDE DEF words
<1>8. \A k \in K : words[k] = IF k = 0 THEN {<<>>} ELSE Grown(words[k - 1], k)
  <2> HIDE DEF Grown
  <2> QED BY <1>7
<1> HIDE DEF Body
<1>9. \A X, k : Grown(X, k) = GrownWords(input, X, k)
  BY DEF GrownWords
<1> HIDE DEF Grown
<1>10. \A k \in 0..Sigma : words[k] = IF k = 0 THEN {<<>>} ELSE GrownWords(input, words[k - 1], k)
  BY <1>8, <1>9
<1> QED BY <1>1, <1>10

(* What Solutions collects: words of at most Sigma characters without a    *)
(* repetition that are common subsequences; the empty one is among them.   *)
LEMMA SolutionFacts ==
    ASSUME NEW input \in Inputs
    PROVE  /\ <<>> \in Solutions(input)
           /\ \A w \in Solutions(input) :
                 /\ w \in Seq(Characters) /\ Len(w) \in 0..Sigma
                 /\ \A i, j \in 1..Len(w) : w[i] = w[j] => i = j
                 /\ Len(w) > 0 => IsCommon(w, input)
<1> DEFINE K == 0..Sigma
           Grown(X, k) == GrownWords(input, X, k)
<1>2. Sigma \in Nat \ {0}
  BY CharactersFinite
<1>3. \A p \in DOMAIN input[1] : input[1][p] \in Characters
  <2>1. input[1] \in Seq(Characters)
    BY InputAssumption
  <2> QED BY <2>1
<1>7. PICK words : /\ Solutions(input) = UNION {words[k] : k \in 0..Sigma}
                   /\ \A k \in 0..Sigma : words[k] = IF k = 0 THEN {<<>>} ELSE Grown(words[k - 1], k)
  BY WordsUnfold
<1>1. Solutions(input) = UNION {words[k] : k \in 0..Sigma}
  BY <1>7
<1>8. \A k \in K : words[k] = IF k = 0 THEN {<<>>} ELSE Grown(words[k - 1], k)
  BY <1>7
<1> DEFINE Fine(w, k) == /\ w \in Seq(Characters) /\ Len(w) = k
                         /\ \A i, j \in 1..k : w[i] = w[j] => i = j
                         /\ k > 0 => IsCommon(w, input)
           Holds(k) == \A w \in words[k] : Fine(w, k)
           T == {k \in K : ~Holds(k)}
<1>9. T = {}
  <2> SUFFICES ASSUME T # {} PROVE FALSE
    OBVIOUS
  <2>1. T \subseteq Nat
    BY <1>2
  <2> HIDE DEF T
  <2>2. PICK k \in T : \A l \in T : k <= l
    BY <2>1, LeastNumber
  <2>3. PICK w \in words[k] : ~Fine(w, k)
    <3> HIDE DEF Fine
    <3> QED BY <2>2 DEF T
  <2>4. k \in K
    BY <2>2 DEF T
  <2>5. k # 0
    <3> SUFFICES ASSUME k = 0 PROVE FALSE
      OBVIOUS
    <3>1. w = <<>>
      <4> HIDE DEF Grown, Fine
      <4> QED BY <1>8, <2>3, <2>4
    <3>2. Fine(<<>>, 0)
      OBVIOUS
    <3> QED BY <3>1, <3>2, <2>3
  <2>6. k - 1 \in K /\ k \in Nat \ {0}
    BY <2>4, <2>5, <1>2
  <2>7. Holds(k - 1)
    <3>1. k - 1 \notin T
      BY <2>2, <2>6, <2>1
    <3> HIDE DEF Holds
    <3> QED BY <3>1, <2>6 DEF T
  <2>8. w \in Grown(words[k - 1], k)
    <3> HIDE DEF Grown
    <3> QED BY <1>8, <2>3, <2>4, <2>5
  <2>9. PICK v \in words[k - 1], c \in Characters : w = Append(v, c)
    BY <2>8, <1>3 DEF GrownWords
  <2>10. v \in Seq(Characters) /\ Len(v) = k - 1 /\ \A i, j \in 1..(k - 1) : v[i] = v[j] => i = j
    BY <2>7, <2>9
  <2>11. /\ w \in Seq(Characters) /\ Len(w) = k
         /\ \A i \in 1..(k - 1) : w[i] = v[i]
    BY <2>6, <2>9, <2>10
  <2>12. IsCommon(w, input) /\ \A i \in 1..(k - 1) : w[i] # w[k]
    BY <2>8 DEF GrownWords
  <2>13. \A i, j \in 1..k : w[i] = w[j] => i = j
    <3> SUFFICES ASSUME NEW i \in 1..k, NEW j \in 1..k, w[i] = w[j], i # j PROVE FALSE
      OBVIOUS
    <3>1. i \in 1..(k - 1) \/ i = k
      BY <2>6
    <3>2. j \in 1..(k - 1) \/ j = k
      BY <2>6
    <3> QED BY <3>1, <3>2, <2>10, <2>11, <2>12
  <2> QED BY <2>3, <2>11, <2>12, <2>13
<1>10. <<>> \in Solutions(input)
  <2> HIDE DEF Grown
  <2>1. 0 \in K /\ words[0] = {<<>>}
    BY <1>2, <1>8
  <2> QED BY <1>1, <2>1
<1>11. ASSUME NEW w \in Solutions(input)
       PROVE  /\ w \in Seq(Characters) /\ Len(w) \in 0..Sigma
              /\ \A i, j \in 1..Len(w) : w[i] = w[j] => i = j
              /\ Len(w) > 0 => IsCommon(w, input)
  <2>1. PICK k \in K : w \in words[k]
    BY <1>1
  <2>2. Fine(w, k)
    <3> HIDE DEF Fine
    <3> QED BY <1>9, <2>1
  <2> QED BY <2>2
<1> QED BY <1>10, <1>11

(* No two characters of w are the same.                                    *)
Distinct(w) == \A i, j \in 1..Len(w) : w[i] = w[j] => i = j

(* The characters of w.                                                    *)
InWord(w) == {w[i] : i \in 1..Len(w)}

(* A word without a repetition is as long as it has characters, thus not   *)
(* longer than the alphabet.                                               *)
LEMMA DistinctCount ==
    ASSUME NEW w \in Seq(Characters), Distinct(w)
    PROVE  /\ InWord(w) \subseteq Characters /\ IsFiniteSet(InWord(w))
           /\ Cardinality(InWord(w)) = Len(w) /\ Len(w) <= Sigma
<1> DEFINE f == [i \in 1..Len(w) |-> w[i]]
<1>1. Len(w) \in Nat /\ InWord(w) \subseteq Characters
  BY DEF InWord
<1>2. f \in Bijection(1..Len(w), InWord(w))
  BY DEF Distinct, InWord, Bijection, Injection, IsInjective, Surjection
<1>3. Cardinality(InWord(w)) = Len(w)
  BY <1>1, <1>2, FS_CountingElements DEF ExistsBijection
<1>4. IsFiniteSet(InWord(w)) /\ Cardinality(InWord(w)) <= Sigma
  BY <1>1, CharactersFinite, FS_Subset
<1> QED BY <1>1, <1>3, <1>4

(* An embedding of a word is one of what it begins with.                   *)
LEMMA PrefixEmbeds ==
    ASSUME NEW w \in Seq(Characters), NEW s \in Seq(Characters), HasEmbedding(w, s),
           NEW v \in Seq(Characters), Len(v) <= Len(w), \A i \in 1..Len(v) : v[i] = w[i]
    PROVE  HasEmbedding(v, s)
<1>1. Len(v) \in Nat /\ Len(w) \in Nat
  OBVIOUS
<1>2. PICK at \in [1..Len(w) -> 1..Len(s)] : /\ \A i \in 1..Len(w) : s[at[i]] = w[i]
                                             /\ \A i, j \in 1..Len(w) : i < j => at[i] < at[j]
  BY DEF HasEmbedding
<1> DEFINE less == [i \in 1..Len(v) |-> at[i]]
<1>3. \A i \in 1..Len(v) : i \in 1..Len(w) /\ less[i] = at[i]
  BY <1>1
<1>4. less \in [1..Len(v) -> 1..Len(s)]
  BY <1>3
<1> HIDE DEF less
<1>5. /\ \A i \in 1..Len(v) : s[less[i]] = v[i]
      /\ \A i, j \in 1..Len(v) : i < j => less[i] < less[j]
  BY <1>2, <1>3
<1> QED BY <1>4, <1>5 DEF HasEmbedding

(* Every word without a repetition that has its places in both strings is  *)
(* among the solutions: they are built up by what it begins with.          *)
LEMMA WordIsSolution ==
    ASSUME NEW input \in Inputs, NEW w \in Seq(Characters), Distinct(w),
           HasEmbedding(w, input[1]), HasEmbedding(w, input[2])
    PROVE  w \in Solutions(input)
<1> DEFINE n == Len(w)
           Begins(v, k) == v \in Seq(Characters) /\ Len(v) = k /\ \A i \in 1..k : v[i] = w[i]
<1>1. /\ input[1] \in Seq(Characters) /\ input[2] \in Seq(Characters)
      /\ n \in 0..Sigma /\ Sigma \in Nat
  BY InputAssumption, DistinctCount, CharactersFinite
<1>2. PICK words : /\ Solutions(input) = UNION {words[k] : k \in 0..Sigma}
                   /\ \A k \in 0..Sigma : words[k] = IF k = 0 THEN {<<>>} ELSE GrownWords(input, words[k - 1], k)
  BY WordsUnfold
<1> DEFINE T == {k \in 0..n : ~\E v \in words[k] : Begins(v, k)}
<1>3. T = {}
  <2> SUFFICES ASSUME T # {} PROVE FALSE
    OBVIOUS
  <2>1. T \subseteq Nat
    BY <1>1
  <2>2. PICK k \in T : \A l \in T : k <= l
    <3> HIDE DEF T
    <3> QED BY <2>1, LeastNumber
  <2>3. k \in 0..n /\ k \in 0..Sigma /\ k \in Nat
    BY <1>1, <2>2
  <2>4. k # 0
    <3> SUFFICES ASSUME k = 0 PROVE FALSE
      OBVIOUS
    <3>1. <<>> \in words[k]
      BY <1>2, <2>3
    <3>2. Begins(<<>>, k)
      OBVIOUS
    <3> QED BY <3>1, <3>2, <2>2
  <2>5. k - 1 \in 0..n /\ k - 1 \notin T /\ k \in 1..n
    <3>1. k - 1 \in 0..n /\ k \in 1..n
      BY <2>3, <2>4, <1>1
    <3> HIDE DEF T
    <3> QED BY <3>1, <2>1, <2>2
  <2>6. PICK v \in words[k - 1] : Begins(v, k - 1)
    BY <2>5
  <2> DEFINE u == Append(v, w[k])
  <2>7. Begins(u, k)
    <3>1. w[k] \in Characters /\ Len(v) = k - 1 /\ v \in Seq(Characters)
      BY <2>5, <2>6
    <3>2. u \in Seq(Characters) /\ Len(u) = k /\ u[k] = w[k] /\ \A i \in 1..(k - 1) : u[i] = v[i]
      BY <3>1, <2>3
    <3>3. \A i \in 1..k : i \in 1..(k - 1) \/ i = k
      BY <2>3
    <3> HIDE DEF u
    <3> QED BY <3>2, <3>3, <2>6
  <2>8. IsCommon(u, input)
    <3> HIDE DEF u
    <3>1. u \in Seq(Characters) /\ Len(u) <= Len(w) /\ \A i \in 1..Len(u) : u[i] = w[i]
      BY <2>7, <2>5, <1>1
    <3>2. HasEmbedding(u, input[1]) /\ HasEmbedding(u, input[2])
      BY <3>1, <1>1, PrefixEmbeds
    <3> QED BY <3>1, <3>2, <1>1, EmbeddingIsFound DEF IsCommon
  <2>9. \E p \in DOMAIN input[1] : input[1][p] = w[k]
    <3>1. PICK at \in [1..n -> 1..Len(input[1])] : \A i \in 1..n : input[1][at[i]] = w[i]
      BY DEF HasEmbedding
    <3>2. at[k] \in 1..Len(input[1]) /\ input[1][at[k]] = w[k]
      BY <3>1, <2>5
    <3>3. DOMAIN input[1] = 1..Len(input[1])
      BY <1>1
    <3> QED BY <3>2, <3>3
  <2>10. \A i \in 1..(k - 1) : u[i] # u[k]
    <3> HIDE DEF u
    <3> SUFFICES ASSUME NEW i \in 1..(k - 1), u[i] = u[k] PROVE FALSE
      OBVIOUS
    <3>1. i \in 1..k /\ k \in 1..k /\ i \in 1..n /\ i # k
      BY <2>3, <2>5, <1>1
    <3>2. w[i] = w[k]
      BY <3>1, <2>7
    <3> QED BY <3>1, <3>2, <2>5 DEF Distinct
  <2>11. u \in GrownWords(input, words[k - 1], k)
    <3>1. u \in {Append(x, input[1][p]) : x \in words[k - 1], p \in DOMAIN input[1]}
      <4>1. PICK p \in DOMAIN input[1] : input[1][p] = w[k]
        BY <2>9
      <4>2. u = Append(v, input[1][p])
        BY <4>1
      <4> HIDE DEF u
      <4> QED BY <4>2, <2>6
    <3> HIDE DEF u
    <3> QED BY <3>1, <2>8, <2>10 DEF GrownWords
  <2>12. u \in words[k]
    BY <2>11, <2>3, <2>4, <1>2
  <2> HIDE DEF u
  <2> QED BY <2>2, <2>7, <2>12
<1>4. n \in 0..n /\ n \in 0..Sigma
  BY <1>1
<1>5. PICK v \in words[n] : Begins(v, n)
  BY <1>3, <1>4
<1>6. v = w
  <2>1. v \in Seq(Characters) /\ Len(v) = Len(w) /\ \A i \in 1..Len(v) : v[i] = w[i]
    BY <1>5
  <2> QED BY <2>1
<1> QED BY <1>2, <1>4, <1>5, <1>6

(* Matches in order, one for each character of a word, make the word a     *)
(* solution.                                                               *)
LEMMA ThreadIsSolution ==
    ASSUME strings \in Inputs, NEW w \in Seq(Characters), Distinct(w),
           NEW e \in [1..Len(w) -> Inner],
           \A i \in 1..Len(w) : CharacterOf(e[i]) = w[i],
           \A i, j \in 1..Len(w) : i < j => Before("forward", e[i], e[j])
    PROVE  w \in Solutions(strings)
<1>1. /\ strings[1] \in Seq(Characters) /\ DOMAIN strings[1] = 1..Len(strings[1])
      /\ strings[2] \in Seq(Characters) /\ DOMAIN strings[2] = 1..Len(strings[2])
  BY InputFacts DEF Size1, Size2
<1>2. \A i \in 1..Len(w) :
         /\ e[i][1] \in 1..Len(strings[1]) /\ strings[1][e[i][1]] = w[i]
         /\ e[i][2] \in 1..Len(strings[2]) /\ strings[2][e[i][2]] = w[i]
  BY <1>1, InnerFacts DEF Size1, Size2
<1>3. \A i, j \in 1..Len(w) : i < j => e[i][1] < e[j][1] /\ e[i][2] < e[j][2]
  BY DEF Before, Ahead
<1>4. HasEmbedding(w, strings[1])
  <2> DEFINE at == [i \in 1..Len(w) |-> e[i][1]]
  <2>1. at \in [1..Len(w) -> 1..Len(strings[1])]
    BY <1>2
  <2>2. /\ \A i \in 1..Len(w) : strings[1][at[i]] = w[i]
        /\ \A i, j \in 1..Len(w) : i < j => at[i] < at[j]
    BY <1>2, <1>3
  <2> QED BY <2>1, <2>2 DEF HasEmbedding
<1>5. HasEmbedding(w, strings[2])
  <2> DEFINE at == [i \in 1..Len(w) |-> e[i][2]]
  <2>1. at \in [1..Len(w) -> 1..Len(strings[2])]
    BY <1>2
  <2>2. /\ \A i \in 1..Len(w) : strings[2][at[i]] = w[i]
        /\ \A i, j \in 1..Len(w) : i < j => at[i] < at[j]
    BY <1>2, <1>3
  <2> QED BY <2>1, <2>2 DEF HasEmbedding
<1> QED BY <1>4, <1>5, WordIsSolution

(* The i-th character of w, as one goes in direction d.                    *)
LetterIn(d, w, i) == IF d = "forward" THEN w[i] ELSE w[Len(w) + 1 - i]

(* The characters of a solution differ from each other, in either          *)
(* direction.                                                              *)
LEMMA LettersDiffer ==
    ASSUME strings \in Inputs, NEW d \in Directions, NEW w \in Solutions(strings),
           NEW i \in 1..Len(w), NEW j \in 1..Len(w), LetterIn(d, w, i) = LetterIn(d, w, j)
    PROVE  i = j
<1>1. /\ Len(w) \in Nat
      /\ \A k, l \in 1..Len(w) : w[k] = w[l] => k = l
  BY SolutionFacts
<1>2. Len(w) + 1 - i \in 1..Len(w) /\ Len(w) + 1 - j \in 1..Len(w)
  BY <1>1
<1> QED BY <1>1, <1>2 DEF LetterIn

(* There are matches for the characters of a solution, in their order.     *)
LEMMA SolutionEmbeds ==
    ASSUME strings \in Inputs, NEW d \in Directions, NEW w \in Solutions(strings)
    PROVE  \E e \in [1..Len(w) -> Inner] :
              /\ \A i \in 1..Len(w) : CharacterOf(e[i]) = LetterIn(d, w, i)
              /\ \A i, j \in 1..Len(w) : i < j => Before(d, e[i], e[j])
<1> DEFINE n == Len(w)
<1>1. w \in Seq(Characters) /\ n \in Nat /\ (n > 0 => IsCommon(w, strings))
  BY SolutionFacts
<1>2. CASE n = 0
  <2>1. [i \in 1..0 |-> Root] \in [1..0 -> Inner]
    OBVIOUS
  <2> HIDE DEF n
  <2> DEFINE e == [i \in 1..0 |-> Root]
  <2>2. /\ e \in [1..n -> Inner]
        /\ \A i \in 1..n : CharacterOf(e[i]) = LetterIn(d, w, i)
        /\ \A i, j \in 1..n : i < j => Before(d, e[i], e[j])
    BY <1>2, <2>1
  <2> HIDE DEF e
  <2> QED BY <2>2 DEF n
<1>3. CASE n > 0
  <2>1. IsSubsequence(w, strings[1]) /\ IsSubsequence(w, strings[2])
    BY <1>1, <1>3 DEF IsCommon
  <2>2. /\ strings[1] \in Seq(Characters) /\ DOMAIN strings[1] = 1..Size1 /\ Size1 \in Nat
        /\ strings[2] \in Seq(Characters) /\ DOMAIN strings[2] = 1..Size2 /\ Size2 \in Nat
    BY InputFacts
  <2>3. PICK at1 \in [1..n -> 1..Size1] :
           /\ \A i \in 1..n : strings[1][at1[i]] = w[i]
           /\ \A i, j \in 1..n : i < j => at1[i] < at1[j]
    <3>1. HasEmbedding(w, strings[1])
      BY <1>1, <2>1, <2>2, SubsequenceEmbeds
    <3> QED BY <3>1 DEF HasEmbedding, Size1
  <2>4. PICK at2 \in [1..n -> 1..Size2] :
           /\ \A i \in 1..n : strings[2][at2[i]] = w[i]
           /\ \A i, j \in 1..n : i < j => at2[i] < at2[j]
    <3>1. HasEmbedding(w, strings[2])
      BY <1>1, <2>1, <2>2, SubsequenceEmbeds
    <3> QED BY <3>1 DEF HasEmbedding, Size2
  <2> DEFINE place(i) == IF d = "forward" THEN i ELSE n + 1 - i
             e == [i \in 1..n |-> <<at1[place(i)], at2[place(i)]>>]
  <2>5. /\ \A i \in 1..n : place(i) \in 1..n /\ LetterIn(d, w, i) = w[place(i)]
        /\ \A i, j \in 1..n : i < j => IF d = "forward" THEN place(i) < place(j)
                                                        ELSE place(j) < place(i)
    BY <1>1 DEF LetterIn
  <2> HIDE DEF place, n
  <2>6. \A i \in 1..n : /\ e[i] \in Inner /\ e[i][1] = at1[place(i)] /\ e[i][2] = at2[place(i)]
                        /\ CharacterOf(e[i]) = LetterIn(d, w, i)
    <3> SUFFICES ASSUME NEW i \in 1..n
                 PROVE  /\ e[i] \in Inner /\ e[i][1] = at1[place(i)] /\ e[i][2] = at2[place(i)]
                        /\ CharacterOf(e[i]) = LetterIn(d, w, i)
      OBVIOUS
    <3>1. /\ e[i] = <<at1[place(i)], at2[place(i)]>>
          /\ at1[place(i)] \in 1..Size1 /\ at2[place(i)] \in 1..Size2
          /\ strings[1][at1[place(i)]] = LetterIn(d, w, i)
          /\ strings[2][at2[place(i)]] = LetterIn(d, w, i)
      BY <2>3, <2>4, <2>5
    <3> QED BY <3>1, <2>2 DEF Inner, CharacterOf
  <2>7. \A i, j \in 1..n : i < j => Before(d, e[i], e[j])
    <3> SUFFICES ASSUME NEW i \in 1..n, NEW j \in 1..n, i < j PROVE Before(d, e[i], e[j])
      OBVIOUS
    <3> HIDE DEF e
    <3>1. IF d = "forward" THEN /\ at1[place(i)] < at1[place(j)]
                                /\ at2[place(i)] < at2[place(j)]
                           ELSE /\ at1[place(j)] < at1[place(i)]
                                /\ at2[place(j)] < at2[place(i)]
      BY <2>3, <2>4, <2>5
    <3>2. /\ at1[place(i)] \in Int /\ at1[place(j)] \in Int
          /\ at2[place(i)] \in Int /\ at2[place(j)] \in Int
      BY <2>3, <2>4, <2>5
    <3> QED BY <3>1, <3>2, <2>6 DEF Before, Ahead
  <2>8. e \in [1..n -> Inner]
    BY <2>6
  <2> HIDE DEF e
  <2> QED BY <2>6, <2>7, <2>8 DEF n
<1> QED BY <1>1, <1>2, <1>3

(* A path that goes, whenever it can, to a successor with the next         *)
(* character of a solution: it always can, for it is never behind the      *)
(* matches in which the solution is embedded.                              *)
Follows(d, w, f) ==
    /\ f[0] = Source(d)
    /\ \A i \in 1..Len(w) :
          (\E m \in SuccessorMatches(d, f[i - 1]) : CharacterOf(m) = LetterIn(d, w, i))
             => f[i] = CHOOSE m \in SuccessorMatches(d, f[i - 1]) : CharacterOf(m) = LetterIn(d, w, i)

(* What follows a solution finds a match for each of its characters, none  *)
(* of them behind the one in an embedding.                                 *)
LEMMA PathFollows ==
    ASSUME strings \in Inputs, NEW d \in Directions, NEW w \in Solutions(strings),
           NEW f, Follows(d, w, f)
    PROVE  \A i \in 1..Len(w) : /\ f[i - 1] \in Nodes /\ f[i] \in Inner
                                /\ f[i] \in SuccessorMatches(d, f[i - 1])
                                /\ CharacterOf(f[i]) = LetterIn(d, w, i)
<1> DEFINE n == Len(w)
<1>1. n \in Nat
  BY SolutionFacts
<1>2. PICK e \in [1..n -> Inner] :
         /\ \A i \in 1..n : CharacterOf(e[i]) = LetterIn(d, w, i)
         /\ \A i, j \in 1..n : i < j => Before(d, e[i], e[j])
  BY SolutionEmbeds
<1> HIDE DEF n
<1> DEFINE Holds(i) == /\ f[i - 1] \in Nodes /\ f[i] \in Inner
                       /\ f[i] \in SuccessorMatches(d, f[i - 1])
                       /\ CharacterOf(f[i]) = LetterIn(d, w, i)
                       /\ NotAfter(d, f[i], e[i])
           T == {i \in 1..n : ~Holds(i)}
<1>3. T = {}
  <2> SUFFICES ASSUME T # {} PROVE FALSE
    OBVIOUS
  <2>1. T \subseteq Nat
    BY <1>1
  <2> HIDE DEF T
  <2>2. PICK i \in T : \A j \in T : i <= j
    BY <2>1, LeastNumber
  <2>3. i \in 1..n /\ ~Holds(i)
    BY <2>2 DEF T
  <2>4. i # 1 => i - 1 \in 1..n /\ Holds(i - 1)
    <3> SUFFICES ASSUME i # 1 PROVE i - 1 \in 1..n /\ Holds(i - 1)
      OBVIOUS
    <3>1. i - 1 \in 1..n /\ i - 1 \notin T
      BY <1>1, <2>1, <2>2, <2>3
    <3> HIDE DEF Holds
    <3> QED BY <3>1 DEF T
  <2>5. /\ f[i - 1] \in Nodes /\ Before(d, f[i - 1], e[i])
        /\ f[i - 1] \in Inner => CharacterOf(e[i]) # CharacterOf(f[i - 1])
    <3>1. CASE i = 1
      <4>1. f[i - 1] = Source(d)
        BY <3>1 DEF Follows
      <4> QED BY <4>1, <1>2, <2>3, DirectionFacts, EndsFacts, InnerFacts
    <3>2. CASE i # 1
      <4>1. /\ f[i - 1] \in Inner /\ f[i - 1] \in Nodes /\ e[i - 1] \in Nodes /\ e[i] \in Nodes
            /\ NotAfter(d, f[i - 1], e[i - 1])
            /\ CharacterOf(f[i - 1]) = LetterIn(d, w, i - 1)
        BY <3>2, <2>3, <2>4, <1>2 DEF Nodes
      <4>2. Before(d, e[i - 1], e[i])
        BY <3>2, <2>3, <2>4, <1>1, <1>2
      <4>3. LetterIn(d, w, i - 1) # LetterIn(d, w, i)
        BY <3>2, <2>3, <2>4, <1>1, LettersDiffer DEF n
      <4> QED BY <4>1, <4>2, <4>3, <1>2, <2>3, BeforeTransitive
    <3> QED BY <3>1, <3>2
  <2>6. PICK m \in SuccessorMatches(d, f[i - 1]) : CharacterOf(m) = LetterIn(d, w, i)
    BY <2>3, <2>5, <1>2, NearestMatch
  <2>7. f[i] = CHOOSE x \in SuccessorMatches(d, f[i - 1]) : CharacterOf(x) = LetterIn(d, w, i)
    BY <2>3, <2>6 DEF Follows, n
  <2>8. f[i] \in SuccessorMatches(d, f[i - 1]) /\ CharacterOf(f[i]) = LetterIn(d, w, i)
    BY <2>6, <2>7
  <2>9. f[i] \in Inner /\ NotAfter(d, f[i], e[i])
    BY <2>3, <2>5, <2>8, <1>2, SuccessorFacts
  <2> QED BY <2>3, <2>5, <2>8, <2>9
<1> QED BY <1>3 DEF n

(* Passes is such a path.                                                  *)
LEMMA PassesFollows ==
    ASSUME strings \in Inputs, NEW d \in Directions, NEW w \in Solutions(strings)
    PROVE  Follows(d, w, Passes(d, w))
<1> DEFINE n == Len(w)
           letter(i) == IF d = "forward" THEN w[i] ELSE w[Len(w) + 1 - i]
           Can(x, i) == \E m \in SuccessorMatches(d, x) : CharacterOf(m) = LetterIn(d, w, i)
           Pick(x, i) == CHOOSE m \in SuccessorMatches(d, x) : CharacterOf(m) = LetterIn(d, w, i)
           Body(g) == [i \in 0..Len(w) |->
                         IF i = 0 THEN Source(d)
                         ELSE CHOOSE m \in SuccessorMatches(d, g[i - 1]) : CharacterOf(m) = letter(i)]
           D == 0..n
           Total(g) == [i \in D |-> IF i = 0 THEN Source(d)
                                    ELSE IF Can(g[i - 1], i) THEN Pick(g[i - 1], i) ELSE Source(d)]
           F == [g \in [D -> Nodes] |-> Total(g)]
           rank == [i \in D |-> i]
           path == CHOOSE g : g = Body(g)
<1>1. Passes(d, w) = path
  BY DEF Passes
<1>2. n \in Nat /\ Source(d) \in Nodes
  BY SolutionFacts, DirectionFacts
<1>3. \A x \in Nodes : \A i : Can(x, i) => Pick(x, i) \in Nodes
  <2> SUFFICES ASSUME NEW x \in Nodes, NEW i, Can(x, i) PROVE Pick(x, i) \in Nodes
    OBVIOUS
  <2>1. Pick(x, i) \in SuccessorMatches(d, x)
    OBVIOUS
  <2> HIDE DEF Pick
  <2> QED BY <2>1, SuccessorFacts DEF Nodes
<1>4. \A g : Body(g) = [i \in D |-> IF i = 0 THEN Source(d) ELSE Pick(g[i - 1], i)]
  BY DEF LetterIn
<1> HIDE DEF Can, Pick, Body, n
<1>5. Descends(F, D, Nodes, rank, n)
  <2>1. rank \in [D -> 0..n]
    OBVIOUS
  <2>2. \A g \in [D -> Nodes] : Total(g) \in [D -> Nodes]
    <3> SUFFICES ASSUME NEW g \in [D -> Nodes], NEW i \in D
                 PROVE  (IF i = 0 THEN Source(d)
                         ELSE IF Can(g[i - 1], i) THEN Pick(g[i - 1], i) ELSE Source(d)) \in Nodes
      OBVIOUS
    <3>1. i # 0 => g[i - 1] \in Nodes
      BY <1>2
    <3> QED BY <3>1, <1>2, <1>3
  <2>3. F \in [[D -> Nodes] -> [D -> Nodes]]
    <3> HIDE DEF Total, D
    <3> QED BY <2>2
  <2>4. \A g, h \in [D -> Nodes] : \A i \in D :
           (\A t \in D : rank[t] < rank[i] => g[t] = h[t]) => F[g][i] = F[h][i]
    <3> SUFFICES ASSUME NEW g \in [D -> Nodes], NEW h \in [D -> Nodes], NEW i \in D,
                        \A t \in D : rank[t] < rank[i] => g[t] = h[t]
                 PROVE  F[g][i] = F[h][i]
      <4> HIDE DEF F, D, rank
      <4> QED OBVIOUS
    <3>1. i # 0 => g[i - 1] = h[i - 1]
      BY <1>2
    <3> QED BY <3>1
  <2> HIDE DEF F, D, rank
  <2> QED BY <1>2, <2>1, <2>3, <2>4 DEF Descends
<1>6. PICK g \in [D -> Nodes] : F[g] = g
  <2> HIDE DEF F, D, rank
  <2> QED BY <1>2, <1>5, RecursionHasSolution
<1>7. g[0] = Source(d) /\ \A i \in 1..n : Can(g[i - 1], i) => g[i] = Pick(g[i - 1], i)
  BY <1>2, <1>6
<1>8. Follows(d, w, g)
  BY <1>7 DEF Follows, Can, Pick, n
<1>9. \A i \in 1..n : Can(g[i - 1], i)
  BY <1>8, PathFollows DEF Can, n
<1>10. g = Body(g)
  <2>1. \A i \in D : i # 0 => i \in 1..n
    BY <1>2
  <2>2. g = [i \in D |-> IF i = 0 THEN Source(d) ELSE Pick(g[i - 1], i)]
    BY <1>7, <1>9, <2>1
  <2> QED BY <2>2, <1>4
<1>11. path = Body(path)
  BY <1>10
<1> HIDE DEF path
<1>12. path[0] = Source(d) /\ \A i \in 1..n : path[i] = Pick(path[i - 1], i)
  BY <1>2, <1>4, <1>11
<1> QED BY <1>1, <1>12 DEF Follows, Can, Pick, n


(* The matches a solution passes are a chain as long as the solution.      *)
PathChain(d, w) == {Passes(d, w)[i] : i \in 1..Len(w)}

(* The matches that a solution passes lie one before the other.            *)
LEMMA PathInOrder ==
    ASSUME strings \in Inputs, NEW d \in Directions, NEW w \in Solutions(strings)
    PROVE  \A i, j \in 1..Len(w) : i < j => Before(d, Passes(d, w)[i], Passes(d, w)[j])
<1> DEFINE n == Len(w)
           f == Passes(d, w)
           T == {j \in 1..n : \E i \in 1..n : i < j /\ ~Before(d, f[i], f[j])}
<1>1. n \in Nat
  BY SolutionFacts
<1>2. \A i \in 1..n : /\ f[i - 1] \in Nodes /\ f[i] \in Nodes /\ f[i] \in Inner
                      /\ f[i] \in SuccessorMatches(d, f[i - 1])
  BY PassesFollows, PathFollows DEF Nodes
<1> HIDE DEF f, n
<1>3. T = {}
  <2> SUFFICES ASSUME T # {} PROVE FALSE
    OBVIOUS
  <2>1. T \subseteq Nat
    BY <1>1
  <2> HIDE DEF T
  <2>2. PICK j \in T : \A k \in T : j <= k
    BY <2>1, LeastNumber
  <2>3. PICK i \in 1..n : i < j /\ ~Before(d, f[i], f[j])
    BY <2>2 DEF T
  <2>4. j \in 1..n /\ j - 1 \in 1..n
    BY <2>2, <2>3, <1>1 DEF T
  <2>5. Before(d, f[j - 1], f[j])
    BY <2>4, <1>2, SuccessorFacts
  <2>6. i # j - 1 => Before(d, f[i], f[j - 1])
    <3> SUFFICES ASSUME i # j - 1 PROVE Before(d, f[i], f[j - 1])
      OBVIOUS
    <3>1. j - 1 \notin T /\ i < j - 1
      BY <2>1, <2>2, <2>3, <2>4, <1>1
    <3> QED BY <3>1, <2>3, <2>4 DEF T
  <2> QED BY <2>3, <2>4, <2>5, <2>6, <1>2, BeforeTransitive
<1> QED BY <1>3 DEF f, n

(* The matches that a solution passes are a chain of its length, in which  *)
(* each is the next one to its predecessor.                                *)
LEMMA SolutionChain ==
    ASSUME strings \in Inputs, NEW d \in Directions, NEW w \in Solutions(strings)
    PROVE  /\ PathChain(d, w) \in Chains
           /\ Weight(PathChain(d, w)) = Len(w)
           /\ \A i \in 1..Len(w) :
                 /\ Passes(d, w)[i] \in PathChain(d, w)
                 /\ Passes(d, w)[i - 1] \in Places(d, PathChain(d, w))
                 /\ IsNext(d, PathChain(d, w), Passes(d, w)[i - 1], Passes(d, w)[i])
                 /\ Passes(d, w)[i] \in SuccessorMatches(d, Passes(d, w)[i - 1])
                 /\ Weight(From(d, PathChain(d, w), Passes(d, w)[i])) = Len(w) - i + 1
<1> DEFINE n == Len(w)
           f == Passes(d, w)
           C == PathChain(d, w)
<1>1. n \in Nat /\ f[0] = Source(d)
  BY SolutionFacts, PassesFollows DEF Follows
<1>2. \A i \in 1..n : /\ f[i - 1] \in Nodes /\ f[i] \in Nodes /\ f[i] \in Inner
                      /\ f[i] \in SuccessorMatches(d, f[i - 1])
                      /\ CharacterOf(f[i]) = LetterIn(d, w, i)
  BY PassesFollows, PathFollows DEF Nodes
<1>3. \A i, j \in 1..n : i < j => Before(d, f[i], f[j])
  BY PathInOrder
<1>4. C = {f[i] : i \in 1..n}
  BY DEF PathChain
<1>5. \A i, j \in 1..n : i # j => CharacterOf(f[i]) # CharacterOf(f[j])
  BY <1>2, LettersDiffer
<1> HIDE DEF n, f, C
<1>6. C \in Chains
  <2> SUFFICES ASSUME NEW i \in 1..n, NEW j \in 1..n, f[i] # f[j]
               PROVE  /\ CharacterOf(f[i]) # CharacterOf(f[j])
                      /\ Before("forward", f[i], f[j]) \/ Before("forward", f[j], f[i])
    BY <1>2, <1>4 DEF Chains
  <2>1. i < j \/ j < i
    BY <1>1
  <2>2. Before(d, f[i], f[j]) \/ Before(d, f[j], f[i])
    BY <2>1, <1>3
  <2>3. CASE d = "forward"
    BY <2>2, <2>3, <1>5
  <2>4. CASE d = "reverse"
    <3>1. Opposite(d) = "forward" /\ f[i] \in Nodes /\ f[j] \in Nodes
      BY <2>4, <1>2 DEF Opposite
    <3> QED BY <2>2, <3>1, <1>5, BeforeFacts
  <2> QED BY <2>3, <2>4 DEF Directions
<1>7. ASSUME NEW k \in 1..(n + 1)
      PROVE  Weight({f[i] : i \in k..n}) = n - k + 1
  <2> DEFINE L == Letters({f[i] : i \in k..n})
             b == [i \in k..n |-> CharacterOf(f[i])]
  <2>1. k..n \subseteq 1..n /\ k \in Int /\ n \in Int
    BY <1>1
  <2>2. L = {CharacterOf(f[i]) : i \in k..n}
    BY DEF Letters
  <2> HIDE DEF L
  <2>3. b \in Bijection(k..n, L)
    BY <2>1, <2>2, <1>5 DEF Bijection, Injection, IsInjective, Surjection
  <2>4. IsFiniteSet(k..n) /\ Cardinality(k..n) = n - k + 1
    <3>1. IsFiniteSet(k..n) /\ Cardinality(k..n) = IF k > n THEN 0 ELSE n - k + 1
      BY <2>1, FS_Interval
    <3> QED BY <3>1, <1>1
  <2>5. ExistsBijection(k..n, L)
    BY <2>3 DEF ExistsBijection
  <2>6. Cardinality(L) = n - k + 1
    BY <2>4, <2>5, FS_Bijection
  <2> QED BY <2>6 DEF L, Weight
<1>8. Weight(C) = n
  <2>1. 1 \in 1..(n + 1) /\ n - 1 + 1 = n
    BY <1>1
  <2> QED BY <2>1, <1>4, <1>7
<1>9. ASSUME NEW i \in 1..n
      PROVE  /\ f[i] \in C
             /\ f[i - 1] \in Places(d, C)
             /\ IsNext(d, C, f[i - 1], f[i])
             /\ Weight(From(d, C, f[i])) = n - i + 1
  <2>1. f[i] \in C
    BY <1>4
  <2>2. i - 1 \in 1..n \/ i = 1
    BY <1>1
  <2>3. f[i - 1] \in Places(d, C)
    <3>1. CASE i = 1
      BY <3>1, <1>1 DEF Places
    <3>2. CASE i - 1 \in 1..n
      BY <3>2, <1>4 DEF Places
    <3> QED BY <3>1, <3>2, <2>2
  <2>4. Before(d, f[i - 1], f[i])
    BY <1>2, SuccessorFacts
  <2>5. ASSUME NEW j \in 1..n, Before(d, f[i - 1], f[j]) PROVE j = i \/ Before(d, f[i], f[j])
    <3>1. CASE i < j
      BY <3>1, <1>3
    <3>2. CASE j < i
      <4>1. i - 1 \in 1..n /\ j <= i - 1
        BY <3>2, <1>1
      <4>2. f[j] = f[i - 1] \/ Before(d, f[j], f[i - 1])
        BY <4>1, <1>1, <1>3
      <4> QED BY <4>1, <4>2, <2>5, <1>2, BeforeFacts
    <3> QED BY <3>1, <3>2, <1>1
  <2>6. IsNext(d, C, f[i - 1], f[i])
    BY <2>1, <2>4, <2>5, <1>4 DEF IsNext, Rest
  <2>7. From(d, C, f[i]) = {f[j] : j \in i..n}
    <3>1. \A j \in 1..n : f[j] = f[i] \/ Before(d, f[i], f[j]) <=> j \in i..n
      <4> SUFFICES ASSUME NEW j \in 1..n
                   PROVE  f[j] = f[i] \/ Before(d, f[i], f[j]) <=> j \in i..n
        OBVIOUS
      <4>1. CASE j < i
        BY <4>1, <1>1, <1>2, <1>3, BeforeFacts
      <4>2. CASE i <= j
        BY <4>2, <1>1, <1>3
      <4> QED BY <4>1, <4>2, <1>1
    <3>2. \A j \in i..n : j \in 1..n
      BY <1>1
    <3> QED BY <3>1, <3>2, <1>4 DEF From
  <2>8. i \in 1..(n + 1)
    BY <1>1
  <2> QED BY <2>1, <2>3, <2>6, <2>7, <2>8, <1>7
<1> QED BY <1>2, <1>6, <1>8, <1>9 DEF n, f, C

(* opt is the length of some solution, and no chain is worth more than     *)
(* what can be said of all of them: the alphabet.                          *)
LEMMA LongestSolution ==
    ASSUME strings \in Inputs, opt = Max({Len(w) : w \in Solutions(strings)})
    PROVE  opt \in 0..Sigma /\ \E w \in Solutions(strings) : Len(w) = opt
<1> DEFINE S == {Len(w) : w \in Solutions(strings)}
<1>1. S \subseteq 0..Sigma /\ S # {}
  <2>1. \A w \in Solutions(strings) : Len(w) \in 0..Sigma
    BY SolutionFacts
  <2>2. <<>> \in Solutions(strings)
    BY SolutionFacts
  <2> QED BY <2>1, <2>2
<1>2. Sigma \in Int /\ S \subseteq Int /\ \A x \in S : x <= Sigma
  BY <1>1, CharactersFinite
<1> HIDE DEF S
<1>3. Max(S) \in S
  BY <1>1, <1>2, MaxOfBounded
<1> QED BY <1>1, <1>3 DEF S

-----------------------------------------------------------------------------
(* The inductive invariant.                                                *)

Present == {strings[1][p] : p \in DOMAIN strings[1]}

ControlOK ==
    /\ strings \in Inputs
    /\ opt = Max({Len(w) : w \in Solutions(strings)})
    /\ pc \in {"heuristic", "relax", "relaxing", "selecting", "bounds", "deactivate", "reduce", "done"}
    /\ presolving \in BOOLEAN /\ improving \in BOOLEAN /\ still \in BOOLEAN
    /\ lower \in 0..opt /\ upper \in 0..Sigma
    /\ char \in 0..Sigma
    /\ repetitions \subseteq Characters

BoundsOK ==
    /\ up \in [Directions -> [Nodes -> Nat]]
    /\ \A d \in Directions, m \in Nodes : up[d][m] <= Cardinality(Present) \/ up[d][m] = Infinity
    /\ \A d \in Directions : up[d][Sink(d)] = 0
    /\ avail \in [Directions -> [Nodes -> SUBSET Present]]

(* The arcs are some of those there were, and the end has not been pushed  *)
(* out of a list that held nothing else.                                   *)
ArcsOK ==
    /\ active \subseteq Inner
    /\ DOMAIN succ = Directions /\ DOMAIN dom = Directions
    /\ \A d \in Directions :
          /\ DOMAIN succ[d] = Nodes \ {Sink(d)} /\ DOMAIN dom[d] = Nodes \ {Sink(d)}
          /\ \A m \in Nodes \ {Sink(d)} :
                /\ succ[d][m] \subseteq SuccessorMatches(d, m)
                /\ dom[d][m] \subseteq SuccessorMatches(d, m) \cup {Sink(d)}
                /\ SuccessorMatches(d, m) = {} => dom[d][m] = {Sink(d)}

GraphOK == ControlOK /\ BoundsOK /\ ArcsOK

(* The chains that the reductions have to keep.                            *)
Better == {C \in Chains : Weight(C) > lower}

BetterStayActive == \A C \in Better : C \subseteq active

BoundsCover ==
    \A C \in Better, d \in Directions : \A m \in C : up[d][m] >= Weight(From(d, C, m))

(* The available characters are looked at right after they have been       *)
(* computed for all matches.                                               *)
AvailableCover ==
    pc \in {"deactivate", "reduce"} =>
       \A C \in Better, d \in Directions : \A m \in Places(d, C) :
          Letters(From(d, C, m)) \subseteq avail[d][m]

ArcsStay ==
    \A C \in Better, d \in Directions : \A m \in Places(d, C) : \A t \in SuccessorMatches(d, m) :
       IsNext(d, C, m, t) => /\ t \in succ[d][m]
                             /\ t \in Dominating(d, SuccessorMatches(d, m)) => t \in dom[d][m]

IInv ==
    GraphOK /\ BetterStayActive /\ BoundsCover /\ AvailableCover /\ ArcsStay /\ UpperIsBound

-----------------------------------------------------------------------------
(* Facts about the graph as it is.                                         *)

(* The characters of string_1 are finitely many, and those of all matches. *)
LEMMA PresentFacts ==
    ASSUME strings \in Inputs
    PROVE  /\ Present \subseteq Characters /\ IsFiniteSet(Present)
           /\ Cardinality(Present) \in Nat /\ Cardinality(Present) <= Sigma
           /\ \A X \in SUBSET Present : /\ IsFiniteSet(X) /\ Cardinality(X) \in Nat
                                        /\ Cardinality(X) <= Cardinality(Present)
           /\ \A m \in Inner : CharacterOf(m) \in Present
<1>1. Present \subseteq Characters
  BY InputFacts DEF Present
<1>2. IsFiniteSet(Present) /\ Cardinality(Present) \in Nat /\ Cardinality(Present) <= Sigma
  BY <1>1, CharactersFinite, FS_Subset, FS_CardinalityType
<1>3. \A X \in SUBSET Present : /\ IsFiniteSet(X) /\ Cardinality(X) \in Nat
                                /\ Cardinality(X) <= Cardinality(Present)
  BY <1>2, FS_Subset, FS_CardinalityType
<1>4. \A m \in Inner : CharacterOf(m) \in Present
  BY InnerFacts, InputFacts DEF Present
<1> QED BY <1>1, <1>2, <1>3, <1>4

(* The arcs lead on, to matches or to the end.                             *)
LEMMA ArcFacts ==
    ASSUME GraphOK, NEW d \in Directions, NEW m \in Nodes, m # Sink(d)
    PROVE  /\ \A t \in dom[d][m] : /\ t \in Nodes /\ t \in Inner \cup {Sink(d)}
                                   /\ Distance(d)[t] < Distance(d)[m]
           /\ \A t \in ActiveDom(d, m) : /\ t \in Nodes /\ t \in active \cup {Sink(d)}
                                         /\ t \in dom[d][m]
                                         /\ Distance(d)[t] < Distance(d)[m]
           /\ IsFiniteSet(ActiveDom(d, m)) /\ IsFiniteSet(dom[d][m])
<1>1. strings \in Inputs /\ dom[d][m] \subseteq SuccessorMatches(d, m) \cup {Sink(d)}
  BY DEF GraphOK, ControlOK, ArcsOK
<1>2. m \in Inner \/ m = Source(d)
  BY DirectionFacts DEF Nodes, Source, Sink, Opposite, Directions
<1>3. ASSUME NEW t \in dom[d][m]
      PROVE  t \in Nodes /\ t \in Inner \cup {Sink(d)} /\ Before(d, m, t)
  <2>1. CASE t \in SuccessorMatches(d, m)
    BY <1>1, <2>1, SuccessorFacts DEF Nodes
  <2>2. CASE t = Sink(d)
    <3>1. CASE m \in Inner
      BY <3>1, <2>2, <1>1, EndsFacts, DirectionFacts
    <3>2. CASE m = Source(d)
      <4>1. Before(d, Source(d), Sink(d))
        BY <1>1, InputFacts DEF Before, Ahead, Source, Sink, Opposite, Directions, Root, Leaf, Size1, Size2
      <4> QED BY <4>1, <3>2, <2>2, DirectionFacts
    <3> QED BY <3>1, <3>2, <1>2
  <2> QED BY <1>1, <2>1, <2>2
<1>4. \A t \in dom[d][m] : Distance(d)[t] < Distance(d)[m]
  BY <1>1, <1>3, BeforeFacts
<1>5. \A t \in ActiveDom(d, m) : t \in dom[d][m] /\ t \in active \cup {Sink(d)}
  <2> SUFFICES ASSUME NEW t \in dom[d][m], IsActive(t) PROVE t \in active \cup {Sink(d)}
    BY DEF ActiveDom
  <2>1. t \in Inner \/ t = Sink(d)
    BY <1>3
  <2>2. t \in Inner => t # Root /\ t # Leaf
    BY <1>1, InnerFacts
  <2> QED BY <2>1, <2>2 DEF IsActive
<1>6. IsFiniteSet(ActiveDom(d, m)) /\ IsFiniteSet(dom[d][m])
  <2>1. ActiveDom(d, m) \subseteq Nodes /\ dom[d][m] \subseteq Nodes
    BY <1>3, <1>5
  <2> QED BY <2>1, <1>1, NodesFinite, FS_Subset
<1> QED BY <1>3, <1>4, <1>5, <1>6

(* MaxOr of a finite set of integers.                                      *)
LEMMA MaxOrFacts ==
    ASSUME NEW S, S \subseteq Int, IsFiniteSet(S), NEW default \in Int
    PROVE  /\ MaxOr(default, S) \in S \cup {default} /\ MaxOr(default, S) \in Int
           /\ MaxOr(default, S) >= default
           /\ \A x \in S : x <= MaxOr(default, S)
<1>1. IsFiniteSet(S \cup {default}) /\ S \cup {default} \subseteq Int /\ S \cup {default} # {}
  BY FS_AddElement
<1>2. /\ Max(S \cup {default}) \in S \cup {default}
      /\ \A x \in S \cup {default} : x <= Max(S \cup {default})
  BY <1>1, MaxOfFinite
<1> QED BY <1>1, <1>2 DEF MaxOr

-----------------------------------------------------------------------------
(* The available characters.                                               *)

(* AvailableAfter satisfies the equation that defines it.                  *)
LEMMA AvailableUnfold ==
    ASSUME GraphOK, NEW d \in Directions
    PROVE  AvailableAfter(d) =
             [m \in Nodes |->
                IF m = Sink(d) \/ ~IsActive(m) THEN avail[d][m]
                ELSE (IF m \in Inner THEN {CharacterOf(m)} ELSE avail[d][m])
                        \cup UNION {AvailableAfter(d)[t] : t \in ActiveDom(d, m)}]
<1> DEFINE Behind(m) == ActiveDom(d, m)
           V == SUBSET Present
           n == Size1 + 1
           Own(m) == IF m \in Inner THEN {CharacterOf(m)} ELSE avail[d][m]
           Done(m) == m = Sink(d) \/ ~IsActive(m)
           Body(g) == [m \in Nodes |-> IF m = Sink(d) \/ ~IsActive(m) THEN avail[d][m]
                         ELSE (IF m \in Inner THEN {CharacterOf(m)} ELSE avail[d][m])
                                 \cup UNION {g[t] : t \in ActiveDom(d, m)}]
           F == [g \in [Nodes -> V] |-> Body(g)]
           f == CHOOSE g : g = Body(g)
<1>1. AvailableAfter(d) = f
  BY DEF AvailableAfter
<1>2. strings \in Inputs /\ \A m \in Nodes : avail[d][m] \in V
  BY DEF GraphOK, ControlOK, BoundsOK
<1>3. \A m \in Nodes : Own(m) \in V
  BY <1>2, PresentFacts
<1>4. \A m \in Nodes : \A t \in Behind(m) : m # Sink(d) => /\ t \in Nodes
                                                          /\ Distance(d)[t] < Distance(d)[m]
  BY ArcFacts
<1>5. \A g : Body(g) = [m \in Nodes |-> IF Done(m) THEN avail[d][m]
                                        ELSE Own(m) \cup UNION {g[t] : t \in Behind(m)}]
  OBVIOUS
<1>6. \A m : ~Done(m) => m # Sink(d)
  OBVIOUS
<1> HIDE DEF Behind, Own, Done, Body, V
<1>7. \A g \in [Nodes -> V] : Body(g) \in [Nodes -> V]
  <2> SUFFICES ASSUME NEW g \in [Nodes -> V], NEW m \in Nodes, ~Done(m)
               PROVE  Own(m) \cup UNION {g[t] : t \in Behind(m)} \in V
    BY <1>2, <1>5
  <2>1. \A t \in Behind(m) : g[t] \in V
    BY <1>4, <1>6
  <2> QED BY <2>1, <1>3 DEF V
<1>8. Descends(F, Nodes, V, Distance(d), n) /\ V # {}
  <2>1. Distance(d) \in [Nodes -> 0..n] /\ n \in Nat
    BY <1>2, DistanceType
  <2>2. F \in [[Nodes -> V] -> [Nodes -> V]]
    BY <1>7
  <2>3. \A g, h \in [Nodes -> V] : \A m \in Nodes :
           (\A t \in Nodes : Distance(d)[t] < Distance(d)[m] => g[t] = h[t]) => F[g][m] = F[h][m]
    <3> SUFFICES ASSUME NEW g \in [Nodes -> V], NEW h \in [Nodes -> V], NEW m \in Nodes,
                        \A t \in Nodes : Distance(d)[t] < Distance(d)[m] => g[t] = h[t]
                 PROVE  Body(g)[m] = Body(h)[m]
      BY DEF F
    <3>1. ~Done(m) => \A t \in Behind(m) : g[t] = h[t]
      BY <1>4, <1>6
    <3>2. ~Done(m) => {g[t] : t \in Behind(m)} = {h[t] : t \in Behind(m)}
      BY <3>1
    <3> QED BY <3>2, <1>5
  <2>4. V # {}
    BY DEF V
  <2> HIDE DEF F, n
  <2> QED BY <2>1, <2>2, <2>3, <2>4 DEF Descends
<1>9. PICK g \in [Nodes -> V] : F[g] = g
  <2> HIDE DEF F, n
  <2> QED BY <1>8, RecursionHasSolution
<1>10. f = Body(f)
  <2>1. g = Body(g)
    BY <1>9
  <2> QED BY <2>1
<1> HIDE DEF f
<1>11. AvailableAfter(d) = Body(AvailableAfter(d))
  BY <1>1, <1>10
<1> QED BY <1>11 DEF Body

(* The available characters are some of those that occur.                  *)
LEMMA AvailableType ==
    ASSUME GraphOK, NEW d \in Directions
    PROVE  \A m \in Nodes : AvailableAfter(d)[m] \in SUBSET Present
<1> DEFINE f == AvailableAfter(d)
           T == {m \in Nodes : f[m] \notin SUBSET Present}
<1>1. strings \in Inputs /\ \A m \in Nodes : avail[d][m] \in SUBSET Present
  BY DEF GraphOK, ControlOK, BoundsOK
<1>2. \A m \in Nodes : f[m] = IF m = Sink(d) \/ ~IsActive(m) THEN avail[d][m]
                              ELSE (IF m \in Inner THEN {CharacterOf(m)} ELSE avail[d][m])
                                      \cup UNION {f[t] : t \in ActiveDom(d, m)}
  <2> HIDE DEF f
  <2> QED BY AvailableUnfold DEF f
<1> HIDE DEF f
<1>3. T = {}
  <2> SUFFICES ASSUME T # {} PROVE FALSE
    OBVIOUS
  <2>1. Distance(d) \in [Nodes -> Nat] /\ T \subseteq Nodes
    BY <1>1, DistanceType
  <2>2. PICK m \in T : \A x \in T : Distance(d)[m] <= Distance(d)[x]
    BY <2>1, LeastRank
  <2>3. m # Sink(d) /\ IsActive(m)
    BY <1>1, <1>2, <2>2
  <2>4. \A t \in ActiveDom(d, m) : f[t] \in SUBSET Present
    <3> SUFFICES ASSUME NEW t \in ActiveDom(d, m) PROVE f[t] \in SUBSET Present
      OBVIOUS
    <3>1. t \in Nodes /\ Distance(d)[t] < Distance(d)[m]
      BY <2>3, ArcFacts
    <3> QED BY <3>1, <2>1, <2>2
  <2>5. (IF m \in Inner THEN {CharacterOf(m)} ELSE avail[d][m]) \in SUBSET Present
    BY <1>1, PresentFacts
  <2>6. UNION {f[t] : t \in ActiveDom(d, m)} \in SUBSET Present
    BY <2>4
  <2>7. f[m] = (IF m \in Inner THEN {CharacterOf(m)} ELSE avail[d][m])
                  \cup UNION {f[t] : t \in ActiveDom(d, m)}
    BY <1>2, <2>2, <2>3
  <2> HIDE DEF T
  <2>8. f[m] \in SUBSET Present
    BY <2>5, <2>6, <2>7
  <2> QED BY <2>2, <2>8 DEF T
<1> QED BY <1>3 DEF f


-----------------------------------------------------------------------------
(* The simple bounds.                                                      *)

(* SimpleBounds satisfies the equation that defines it.                *)
LEMMA SimpleUnfold ==
    ASSUME GraphOK, NEW d \in Directions
    PROVE  SimpleBounds(d) =
             [m \in Nodes |->
                IF m = Sink(d) \/ ~IsActive(m) THEN up[d][m]
                ELSE Min({up[d][m], 1 + MaxOr(-1, {SimpleBounds(d)[t] : t \in ActiveDom(d, m)}),
                          Cardinality(AvailableAfter(d)[m])})]
<1> DEFINE Behind(m) == ActiveDom(d, m)
           n == Size1 + 1
           Own(m) == up[d][m]
           Count(m) == Cardinality(AvailableAfter(d)[m])
           Done(m) == m = Sink(d) \/ ~IsActive(m)
           Body(g) == [m \in Nodes |->
                         IF m = Sink(d) \/ ~IsActive(m) THEN up[d][m]
                         ELSE Min({up[d][m], 1 + MaxOr(-1, {g[t] : t \in ActiveDom(d, m)}),
                                   Cardinality(AvailableAfter(d)[m])})]
           F == [g \in [Nodes -> Int] |-> Body(g)]
           f == CHOOSE g : g = Body(g)
<1>1. SimpleBounds(d) = f
  BY DEF SimpleBounds
<1>2. strings \in Inputs /\ \A m \in Nodes : Own(m) \in Int
  BY DEF GraphOK, ControlOK, BoundsOK
<1>3. \A m \in Nodes : Count(m) \in Int
  BY <1>2, PresentFacts, AvailableType
<1>4. \A m \in Nodes : \A t \in Behind(m) : m # Sink(d) => /\ t \in Nodes
                                                          /\ Distance(d)[t] < Distance(d)[m]
  BY ArcFacts
<1>5. \A g : Body(g) = [m \in Nodes |-> IF Done(m) THEN Own(m)
                                        ELSE Min({Own(m), 1 + MaxOr(-1, {g[t] : t \in Behind(m)}), Count(m)})]
  OBVIOUS
<1>6. \A m : ~Done(m) => m # Sink(d)
  OBVIOUS
<1>7. \A m \in Nodes : ~Done(m) => IsFiniteSet(Behind(m))
  BY ArcFacts
<1> HIDE DEF Behind, Own, Count, Done, Body
<1>8. \A g \in [Nodes -> Int] : Body(g) \in [Nodes -> Int]
  <2> SUFFICES ASSUME NEW g \in [Nodes -> Int], NEW m \in Nodes, ~Done(m)
               PROVE  Min({Own(m), 1 + MaxOr(-1, {g[t] : t \in Behind(m)}), Count(m)}) \in Int
    BY <1>2, <1>5
  <2> DEFINE S == {g[t] : t \in Behind(m)}
  <2>1. S \subseteq Int
    BY <1>4, <1>6
  <2>2. IsFiniteSet(S)
    BY <1>7, ImageFinite
  <2> HIDE DEF S
  <2>3. -1 \in Int
    OBVIOUS
  <2>4. MaxOr(-1, S) \in Int
    BY <2>1, <2>2, <2>3, MaxOrFacts, Zenon
  <2>5. 1 + MaxOr(-1, S) \in Int
    BY <2>4
  <2>6. Min({Own(m), 1 + MaxOr(-1, S), Count(m)})
          \in {Own(m), 1 + MaxOr(-1, S), Count(m)}
    BY <2>5, <1>2, <1>3, MinOfThree, Zenon
  <2>7. Min({Own(m), 1 + MaxOr(-1, S), Count(m)}) \in Int
    BY <2>5, <2>6, <1>2, <1>3, Zenon
  <2> QED BY <2>7 DEF S
<1>9. Descends(F, Nodes, Int, Distance(d), n)
  <2>1. Distance(d) \in [Nodes -> 0..n] /\ n \in Nat
    BY <1>2, DistanceType
  <2>2. F \in [[Nodes -> Int] -> [Nodes -> Int]]
    BY <1>8
  <2>3. \A g, h \in [Nodes -> Int] : \A m \in Nodes :
           (\A t \in Nodes : Distance(d)[t] < Distance(d)[m] => g[t] = h[t]) => F[g][m] = F[h][m]
    <3> SUFFICES ASSUME NEW g \in [Nodes -> Int], NEW h \in [Nodes -> Int], NEW m \in Nodes,
                        \A t \in Nodes : Distance(d)[t] < Distance(d)[m] => g[t] = h[t]
                 PROVE  Body(g)[m] = Body(h)[m]
      BY DEF F
    <3>1. ~Done(m) => \A t \in Behind(m) : g[t] = h[t]
      BY <1>4, <1>6
    <3>2. ~Done(m) => {g[t] : t \in Behind(m)} = {h[t] : t \in Behind(m)}
      BY <3>1
    <3> QED BY <3>2, <1>5
  <2> HIDE DEF F, n
  <2> QED BY <2>1, <2>2, <2>3 DEF Descends
<1>10. PICK g \in [Nodes -> Int] : F[g] = g
  <2> HIDE DEF F, n
  <2> QED BY <1>9, RecursionHasSolution
<1>11. f = Body(f)
  <2>1. g = Body(g)
    BY <1>10
  <2> QED BY <2>1
<1> HIDE DEF f
<1>12. SimpleBounds(d) = Body(SimpleBounds(d))
  BY <1>1, <1>11
<1> QED BY <1>12 DEF Body


(* The bound of an active match is at most each of the three things it is  *)
(* the least of, and it is one of them.                                    *)
LEMMA SimpleFacts ==
    ASSUME GraphOK, NEW d \in Directions
    PROVE  /\ \A m \in Nodes : SimpleBounds(d)[m] \in Nat
           /\ \A m \in Nodes : m = Sink(d) \/ ~IsActive(m) => SimpleBounds(d)[m] = up[d][m]
           /\ \A m \in Nodes : m # Sink(d) /\ IsActive(m) =>
                 /\ SimpleBounds(d)[m] <= Cardinality(Present)
                 /\ \/ SimpleBounds(d)[m] = up[d][m]
                    \/ SimpleBounds(d)[m] = Cardinality(AvailableAfter(d)[m])
                    \/ \A t \in ActiveDom(d, m) : SimpleBounds(d)[m] >= 1 + SimpleBounds(d)[t]
<1> DEFINE f == SimpleBounds(d)
           Behind(m) == {f[t] : t \in ActiveDom(d, m)}
           Further(m) == 1 + MaxOr(-1, Behind(m))
           Count(m) == Cardinality(AvailableAfter(d)[m])
           T == {m \in Nodes : f[m] \notin Nat}
<1>1. strings \in Inputs /\ \A m \in Nodes : up[d][m] \in Nat
  BY DEF GraphOK, ControlOK, BoundsOK
<1>2. \A m \in Nodes : Count(m) \in Nat /\ Count(m) <= Cardinality(Present)
  BY <1>1, PresentFacts, AvailableType
<1>3. Cardinality(Present) \in Nat
  BY <1>1, PresentFacts
<1>4. \A m \in Nodes : f[m] = IF m = Sink(d) \/ ~IsActive(m) THEN up[d][m]
                              ELSE Min({up[d][m], Further(m), Count(m)})
  <2> HIDE DEF f, Count
  <2> QED BY SimpleUnfold DEF f, Count
<1> HIDE DEF f, Count
<1>5. ASSUME NEW m \in Nodes, m # Sink(d), IsActive(m), \A t \in ActiveDom(d, m) : f[t] \in Nat
      PROVE  /\ Further(m) \in Nat
             /\ \A t \in ActiveDom(d, m) : Further(m) >= 1 + f[t]
             /\ f[m] \in {up[d][m], Further(m), Count(m)}
             /\ f[m] <= Count(m)
  <2>1. Behind(m) \subseteq Int
    BY <1>5
  <2>2. IsFiniteSet(Behind(m))
    <3>1. IsFiniteSet(ActiveDom(d, m))
      BY <1>5, ArcFacts
    <3> QED BY <3>1, ImageFinite
  <2>3. -1 \in Int
    OBVIOUS
  <2>4. \A t \in ActiveDom(d, m) : f[t] \in Behind(m)
    OBVIOUS
  <2> HIDE DEF Behind
  <2>5. /\ MaxOr(-1, Behind(m)) \in Int /\ MaxOr(-1, Behind(m)) >= -1
        /\ \A x \in Behind(m) : x <= MaxOr(-1, Behind(m))
    BY <2>1, <2>2, <2>3, MaxOrFacts, Zenon
  <2>6. Further(m) \in Nat
    BY <2>5
  <2>7. \A t \in ActiveDom(d, m) : Further(m) >= 1 + f[t]
    <3> SUFFICES ASSUME NEW t \in ActiveDom(d, m) PROVE Further(m) >= 1 + f[t]
      OBVIOUS
    <3>1. f[t] <= MaxOr(-1, Behind(m)) /\ f[t] \in Nat
      BY <2>4, <2>5, <1>5
    <3> QED BY <3>1, <2>5
  <2> HIDE DEF Further
  <2>8. up[d][m] \in Int /\ Further(m) \in Int /\ Count(m) \in Int
    BY <2>6, <1>1, <1>2
  <2>9. f[m] = Min({up[d][m], Further(m), Count(m)})
    BY <1>4, <1>5
  <2>10. /\ Min({up[d][m], Further(m), Count(m)}) \in {up[d][m], Further(m), Count(m)}
         /\ Min({up[d][m], Further(m), Count(m)}) <= Count(m)
    BY <2>8, MinOfThree, Zenon
  <2>11. f[m] \in {up[d][m], Further(m), Count(m)} /\ f[m] <= Count(m)
    BY <2>9, <2>10, Zenon
  <2> QED BY <2>6, <2>7, <2>11
<1> HIDE DEF Further
<1>6. T = {}
  <2> SUFFICES ASSUME T # {} PROVE FALSE
    OBVIOUS
  <2>1. Distance(d) \in [Nodes -> Nat] /\ T \subseteq Nodes
    BY <1>1, DistanceType
  <2>2. PICK m \in T : \A x \in T : Distance(d)[m] <= Distance(d)[x]
    BY <2>1, LeastRank
  <2>3. m # Sink(d) /\ IsActive(m) /\ m \in Nodes
    BY <1>1, <1>4, <2>2
  <2>4. \A t \in ActiveDom(d, m) : f[t] \in Nat
    <3> SUFFICES ASSUME NEW t \in ActiveDom(d, m) PROVE f[t] \in Nat
      OBVIOUS
    <3>1. t \in Nodes /\ Distance(d)[t] < Distance(d)[m]
      BY <2>3, ArcFacts
    <3> QED BY <3>1, <2>1, <2>2
  <2>5. Further(m) \in Nat /\ f[m] \in {up[d][m], Further(m), Count(m)}
    BY <2>3, <2>4, <1>5
  <2> QED BY <2>2, <2>5, <1>1, <1>2
<1>7. \A m \in Nodes : f[m] \in Nat
  BY <1>6
<1>8. ASSUME NEW m \in Nodes, m # Sink(d), IsActive(m)
      PROVE  /\ f[m] <= Cardinality(Present)
             /\ \/ f[m] = up[d][m]
                \/ f[m] = Count(m)
                \/ \A t \in ActiveDom(d, m) : f[m] >= 1 + f[t]
  <2>1. \A t \in ActiveDom(d, m) : f[t] \in Nat
    BY <1>7, <1>8, ArcFacts
  <2>2. /\ \A t \in ActiveDom(d, m) : Further(m) >= 1 + f[t]
        /\ f[m] \in {up[d][m], Further(m), Count(m)}
        /\ f[m] <= Count(m)
    BY <1>5, <1>8, <2>1
  <2>3. f[m] <= Cardinality(Present)
    BY <2>2, <1>2, <1>3, <1>7, <1>8
  <2> QED BY <2>2, <2>3
<1> QED BY <1>4, <1>7, <1>8 DEF f, Count


-----------------------------------------------------------------------------
(* What the bounds that are computed cover.                                *)

(* A chain that has to be kept is a chain that holds something.            *)
LEMMA BetterFacts ==
    ASSUME GraphOK, NEW C \in Better
    PROVE  /\ strings \in Inputs /\ C \in Chains /\ C \subseteq Inner /\ C # {}
           /\ Weight(C) > lower /\ Weight(C) \in Nat /\ lower \in Nat
<1>1. strings \in Inputs /\ opt = Max({Len(w) : w \in Solutions(strings)}) /\ lower \in 0..opt
  BY DEF GraphOK, ControlOK
<1>2. C \in Chains /\ Weight(C) > lower
  BY DEF Better
<1>3. C \subseteq Inner
  BY <1>1, <1>2, ChainFacts DEF Directions
<1>4. Weight(C) \in Nat
  BY <1>1, <1>3, LettersFinite
<1>5. lower \in Nat
  BY <1>1, LongestSolution
<1>6. C # {}
  <2> SUFFICES ASSUME C = {} PROVE FALSE
    OBVIOUS
  <2>1. Letters(C) = {}
    BY DEF Letters
  <2> QED BY <2>1, <1>2, <1>5, FS_EmptySet DEF Weight
<1> QED BY <1>1, <1>2, <1>3, <1>4, <1>5, <1>6

(* From a match of a chain that has to be kept, a dominating successor     *)
(* leads on to what the chain has behind the match, unless that is nothing.*)
LEMMA BetterGoesOn ==
    ASSUME GraphOK, BetterStayActive, ArcsStay,
           NEW d \in Directions, NEW C \in Better, NEW m \in Places(d, C)
    PROVE  \/ Rest(d, C, m) = {} /\ Letters(Rest(d, C, m)) = {} /\ ActiveDom(d, m) = {Sink(d)}
           \/ \E s \in ActiveDom(d, m) \cap active, E \in Better :
                 /\ m \in Places(d, E) /\ IsNext(d, E, m, s) /\ Weight(C) <= Weight(E)
                 /\ Letters(Rest(d, C, m)) \subseteq Letters(From(d, E, s))
<1>1. strings \in Inputs /\ C \in Chains /\ Weight(C) > lower /\ Weight(C) \in Nat /\ lower \in Nat
  BY BetterFacts
<1>2. m \in Nodes /\ m # Sink(d)
  BY <1>1, PlaceFacts
<1>3. CASE SuccessorMatches(d, m) = {}
  <2>1. Rest(d, C, m) = {}
    BY <1>1, <1>3, RestHasSuccessor
  <2>2. Letters(Rest(d, C, m)) = {}
    BY <2>1 DEF Letters
  <2>3. dom[d][m] = {Sink(d)}
    BY <1>2, <1>3 DEF GraphOK, ArcsOK
  <2>4. IsActive(Sink(d))
    BY DirectionFacts DEF IsActive
  <2> QED BY <2>1, <2>2, <2>3, <2>4 DEF ActiveDom
<1>4. CASE SuccessorMatches(d, m) # {}
  <2>1. PICK s \in Dominating(d, SuccessorMatches(d, m)), E \in Chains :
              /\ m \in Places(d, E) /\ IsNext(d, E, m, s)
              /\ Weight(C) <= Weight(E)
              /\ Letters(Rest(d, C, m)) \subseteq Letters(From(d, E, s))
    BY <1>1, <1>4, GoesOn
  <2>2. E \in Better
    <3>1. Weight(E) \in Nat
      BY <1>1, ChainFacts, LettersFinite
    <3> QED BY <1>1, <2>1, <3>1 DEF Better
  <2>3. s \in SuccessorMatches(d, m)
    BY <2>1 DEF Dominating
  <2>4. s \in dom[d][m]
    BY <2>1, <2>2, <2>3 DEF ArcsStay
  <2>5. s \in active
    BY <2>1, <2>2 DEF BetterStayActive, IsNext
  <2>6. s \in ActiveDom(d, m) \cap active
    BY <2>4, <2>5 DEF ActiveDom, IsActive
  <2> QED BY <2>1, <2>2, <2>6
<1> QED BY <1>3, <1>4

(* The available characters contain what a chain has from a match on.      *)
LEMMA AvailableCovers ==
    ASSUME GraphOK, BetterStayActive, ArcsStay,
           NEW d \in Directions, NEW C \in Better, NEW m \in Places(d, C)
    PROVE  Letters(From(d, C, m)) \subseteq AvailableAfter(d)[m]
<1> DEFINE f == AvailableAfter(d)
           Covers(x) == \A E \in Better : x \in Places(d, E) => Letters(From(d, E, x)) \subseteq f[x]
           T == {x \in Nodes : ~Covers(x)}
<1>1. strings \in Inputs
  BY BetterFacts
<1>2. \A x \in Nodes : x # Sink(d) /\ IsActive(x) =>
         f[x] = (IF x \in Inner THEN {CharacterOf(x)} ELSE avail[d][x])
                   \cup UNION {f[t] : t \in ActiveDom(d, x)}
  <2> HIDE DEF f
  <2> QED BY AvailableUnfold DEF f
<1> HIDE DEF f
<1>3. T = {}
  <2> SUFFICES ASSUME T # {} PROVE FALSE
    OBVIOUS
  <2>1. Distance(d) \in [Nodes -> Nat] /\ T \subseteq Nodes
    BY <1>1, DistanceType
  <2>2. PICK x \in T : \A y \in T : Distance(d)[x] <= Distance(d)[y]
    BY <2>1, LeastRank
  <2>3. PICK E \in Better : x \in Places(d, E) /\ ~(Letters(From(d, E, x)) \subseteq f[x])
    BY <2>2
  <2>4. E \in Chains /\ E \subseteq active
    BY <2>3, BetterFacts DEF BetterStayActive
  <2>5. x \in Nodes /\ x # Sink(d) /\ (x \in Inner <=> x \in E) /\ IsActive(x)
    <3>1. x \in Nodes /\ x # Sink(d) /\ (x \in Inner <=> x \in E)
      BY <1>1, <2>3, <2>4, PlaceFacts
    <3>2. Source(d) \in {Root, Leaf}
      BY DirectionFacts
    <3> QED BY <3>1, <3>2, <2>3, <2>4 DEF IsActive, Places
  <2>6. Letters(Rest(d, E, x)) \subseteq f[x]
    <3>1. CASE Letters(Rest(d, E, x)) = {}
      BY <3>1
    <3>2. CASE \E s \in ActiveDom(d, x) \cap active, G \in Better :
                 /\ x \in Places(d, G) /\ IsNext(d, G, x, s) /\ Weight(E) <= Weight(G)
                 /\ Letters(Rest(d, E, x)) \subseteq Letters(From(d, G, s))
      <4>1. PICK s \in ActiveDom(d, x) \cap active, G \in Better :
                 /\ x \in Places(d, G) /\ IsNext(d, G, x, s)
                 /\ Letters(Rest(d, E, x)) \subseteq Letters(From(d, G, s))
        BY <3>2
      <4>2. s \in Nodes /\ Distance(d)[s] < Distance(d)[x]
        BY <2>5, <4>1, ArcFacts
      <4>3. s \notin T
        BY <4>2, <2>1, <2>2
      <4>4. s \in Places(d, G)
        BY <4>1 DEF IsNext, Places
      <4>5. Letters(From(d, G, s)) \subseteq f[s]
        BY <4>2, <4>3, <4>4
      <4>6. f[s] \subseteq f[x]
        BY <1>2, <2>5, <4>1
      <4> QED BY <4>1, <4>5, <4>6
    <3> QED BY <3>1, <3>2, <2>3, BetterGoesOn
  <2>7. x \in E => CharacterOf(x) \in f[x]
    BY <1>2, <2>5
  <2>8. CASE x \in E
    BY <1>1, <2>3, <2>4, <2>6, <2>7, <2>8, FromWeight
  <2>9. CASE x \notin E
    BY <1>1, <2>3, <2>4, <2>6, <2>9, PlaceFacts
  <2> QED BY <2>8, <2>9
<1>4. m \in Nodes
  BY <1>1, BetterFacts, PlaceFacts
<1> QED BY <1>3, <1>4 DEF f


(* The simple bound of a match covers what a chain has from the match on.  *)
LEMMA SimpleCovers ==
    ASSUME GraphOK, BetterStayActive, ArcsStay, BoundsCover,
           NEW d \in Directions, NEW C \in Better, NEW m \in C
    PROVE  SimpleBounds(d)[m] >= Weight(From(d, C, m))
<1> DEFINE f == SimpleBounds(d)
           Covers(x) == \A E \in Better : x \in E => f[x] >= Weight(From(d, E, x))
           T == {x \in Nodes : ~Covers(x)}
<1>1. strings \in Inputs /\ C \subseteq Nodes
  BY BetterFacts DEF Nodes
<1>2. /\ \A x \in Nodes : f[x] \in Nat
      /\ f[Sink(d)] = up[d][Sink(d)]
      /\ \A x \in Nodes : x # Sink(d) /\ IsActive(x) =>
            \/ f[x] = up[d][x]
            \/ f[x] = Cardinality(AvailableAfter(d)[x])
            \/ \A t \in ActiveDom(d, x) : f[x] >= 1 + f[t]
  <2>1. Sink(d) \in Nodes
    BY DirectionFacts
  <2> HIDE DEF f
  <2> QED BY <2>1, SimpleFacts DEF f
<1> HIDE DEF f
<1>3. T = {}
  <2> SUFFICES ASSUME T # {} PROVE FALSE
    OBVIOUS
  <2>1. Distance(d) \in [Nodes -> Nat] /\ T \subseteq Nodes
    BY <1>1, DistanceType
  <2>2. PICK x \in T : \A y \in T : Distance(d)[x] <= Distance(d)[y]
    BY <2>1, LeastRank
  <2>3. PICK E \in Better : x \in E /\ ~(f[x] >= Weight(From(d, E, x)))
    BY <2>2
  <2>4. E \in Chains /\ E \subseteq active /\ x \in Places(d, E)
    BY <2>3, BetterFacts DEF BetterStayActive, Places
  <2>5. x \in Nodes /\ x # Sink(d) /\ x \in Inner /\ IsActive(x)
    BY <1>1, <2>3, <2>4, PlaceFacts DEF IsActive
  <2>6. /\ Weight(From(d, E, x)) = Weight(Rest(d, E, x)) + 1
        /\ Weight(Rest(d, E, x)) \in Nat
    BY <1>1, <2>3, <2>4, FromWeight
  <2>7. CASE f[x] = up[d][x]
    BY <2>3, <2>7 DEF BoundsCover
  <2>8. CASE f[x] = Cardinality(AvailableAfter(d)[x])
    <3>1. Letters(From(d, E, x)) \subseteq AvailableAfter(d)[x]
      BY <2>4, AvailableCovers
    <3>2. AvailableAfter(d)[x] \in SUBSET Present
      BY <2>5, AvailableType
    <3>3. IsFiniteSet(AvailableAfter(d)[x]) /\ Cardinality(AvailableAfter(d)[x]) \in Nat
      BY <1>1, <3>2, PresentFacts
    <3>4. Cardinality(Letters(From(d, E, x))) <= Cardinality(AvailableAfter(d)[x])
      BY <3>1, <3>3, FS_Subset
    <3> QED BY <3>3, <3>4, <2>3, <2>6, <2>8 DEF Weight
  <2>9. CASE \A t \in ActiveDom(d, x) : f[x] >= 1 + f[t]
    <3>1. CASE Letters(Rest(d, E, x)) = {} /\ ActiveDom(d, x) = {Sink(d)}
      <4>1. Weight(Rest(d, E, x)) = 0
        BY <3>1, FS_EmptySet DEF Weight
      <4>2. f[x] >= 1
        BY <3>1, <2>9, <1>2 DEF GraphOK, BoundsOK
      <4> QED BY <4>1, <4>2, <2>3, <2>6
    <3>2. CASE \E s \in ActiveDom(d, x) \cap active, G \in Better :
                 /\ x \in Places(d, G) /\ IsNext(d, G, x, s) /\ Weight(E) <= Weight(G)
                 /\ Letters(Rest(d, E, x)) \subseteq Letters(From(d, G, s))
      <4>1. PICK s \in ActiveDom(d, x), G \in Better :
                 /\ IsNext(d, G, x, s)
                 /\ Letters(Rest(d, E, x)) \subseteq Letters(From(d, G, s))
        BY <3>2
      <4>2. s \in Nodes /\ Distance(d)[s] < Distance(d)[x] /\ s \in G
        BY <2>5, <4>1, ArcFacts DEF IsNext
      <4>3. s \notin T
        BY <4>2, <2>1, <2>2
      <4>4. f[s] >= Weight(From(d, G, s)) /\ f[s] \in Nat
        BY <4>2, <4>3, <1>2
      <4>5. From(d, G, s) \subseteq Inner
        BY BetterFacts DEF From
      <4>6. Weight(From(d, G, s)) \in Nat /\ Weight(Rest(d, E, x)) <= Weight(From(d, G, s))
        BY <1>1, <4>1, <4>5, WeightMonotone
      <4>7. f[x] >= 1 + f[s] /\ f[x] \in Nat
        BY <4>1, <2>9, <1>2, <2>5
      <4> QED BY <4>4, <4>6, <4>7, <2>3, <2>6
    <3> QED BY <3>1, <3>2, <2>4, BetterGoesOn
  <2> QED BY <2>5, <2>7, <2>8, <2>9, <1>2
<1>4. m \in Nodes
  BY <1>1
<1> QED BY <1>3, <1>4 DEF f

(* So the bound of the roots' successors is at least opt, unless that is   *)
(* reached.                                                                *)
LEMMA BoundCovers ==
    ASSUME GraphOK, BetterStayActive, ArcsStay, lower < opt,
           NEW new, \A d \in Directions, m \in Nodes : new[d][m] \in Nat,
           \A d \in Directions, C \in Better : \A m \in C : new[d][m] >= Weight(From(d, C, m))
    PROVE  BoundOf(new) >= opt
<1> DEFINE Behind(d) == {new[d][t] : t \in ActiveDom(d, Source(d))}
           best(d) == MaxOr(0, Behind(d))
<1>1. strings \in Inputs /\ opt = Max({Len(w) : w \in Solutions(strings)}) /\ lower \in 0..opt
  BY DEF GraphOK, ControlOK
<1>2. PICK w \in Solutions(strings) : Len(w) = opt
  BY <1>1, LongestSolution
<1>3. lower \in Nat /\ opt \in Nat
  BY <1>1, LongestSolution
<1>4. ASSUME NEW d \in Directions PROVE best(d) \in Int /\ best(d) >= opt
  <2> DEFINE C == PathChain(d, w)
  <2>1. C \in Better /\ C \in Chains /\ Weight(C) = opt
    BY <1>1, <1>2, SolutionChain DEF Better
  <2> HIDE DEF C
  <2>2. Source(d) \in Places(d, C) /\ Source(d) \notin C
    <3>1. C \subseteq Inner
      BY <2>1, BetterFacts
    <3>2. Source(d) \in {Root, Leaf}
      BY DirectionFacts
    <3>3. \A x \in C : x # Root /\ x # Leaf
      BY <1>1, <3>1, InnerFacts
    <3> QED BY <3>2, <3>3 DEF Places
  <2>3. Rest(d, C, Source(d)) = C
    BY <1>1, <2>1, <2>2, PlaceFacts
  <2>4. PICK s \in ActiveDom(d, Source(d)), E \in Better :
                 IsNext(d, E, Source(d), s) /\ Letters(C) \subseteq Letters(From(d, E, s))
    <3>1. C # {}
      BY <2>1, BetterFacts
    <3> QED BY <2>1, <2>2, <2>3, <3>1, BetterGoesOn
  <2>5. Source(d) \in Nodes /\ Source(d) # Sink(d)
    BY <1>1, DirectionFacts
  <2>6. Behind(d) \subseteq Int
    BY <2>5, ArcFacts
  <2>7. IsFiniteSet(Behind(d))
    <3>1. IsFiniteSet(ActiveDom(d, Source(d)))
      BY <2>5, ArcFacts
    <3> QED BY <3>1, ImageFinite
  <2>8. new[d][s] \in Behind(d)
    OBVIOUS
  <2> HIDE DEF Behind
  <2>9. best(d) \in Int /\ new[d][s] <= best(d)
    BY <2>6, <2>7, <2>8, MaxOrFacts
  <2> HIDE DEF best
  <2>10. s \in E /\ From(d, E, s) \subseteq Inner /\ s \in Nodes
    BY <2>4, BetterFacts DEF IsNext, From, Nodes
  <2>11. Weight(From(d, E, s)) \in Nat /\ Weight(C) <= Weight(From(d, E, s))
    BY <1>1, <2>4, <2>10, WeightMonotone
  <2>12. new[d][s] >= Weight(From(d, E, s)) /\ new[d][s] \in Nat
    BY <2>10
  <2> QED BY <2>1, <2>9, <2>11, <2>12, <1>3
<1>5. BoundOf(new) = Min({best("forward"), best("reverse")})
  BY DEF BoundOf
<1> HIDE DEF best
<1>6. Min({best("forward"), best("reverse")}) \in {best("forward"), best("reverse")}
  BY <1>4, MinOfTwo DEF Directions
<1> QED BY <1>4, <1>5, <1>6 DEF Directions


(* The bound of the instance that follows from the simple bounds.          *)
LEMMA BoundType ==
    ASSUME GraphOK
    PROVE  BoundOf([d \in Directions |-> SimpleBounds(d)]) \in 0..Sigma
<1> DEFINE new == [d \in Directions |-> SimpleBounds(d)]
           Behind(d) == {new[d][t] : t \in ActiveDom(d, Source(d))}
           best(d) == MaxOr(0, Behind(d))
<1>1. strings \in Inputs
  BY DEF GraphOK, ControlOK
<1>2. Cardinality(Present) \in Nat /\ Cardinality(Present) <= Sigma /\ Sigma \in Nat
  BY <1>1, PresentFacts, CharactersFinite
<1>3. ASSUME NEW d \in Directions PROVE best(d) \in 0..Sigma
  <2>1. Source(d) \in Nodes /\ Source(d) # Sink(d) /\ new[d] = SimpleBounds(d)
    BY <1>1, DirectionFacts
  <2>2. \A t \in ActiveDom(d, Source(d)) : SimpleBounds(d)[t] \in 0..Sigma
    <3> SUFFICES ASSUME NEW t \in ActiveDom(d, Source(d)) PROVE SimpleBounds(d)[t] \in 0..Sigma
      OBVIOUS
    <3>1. t \in Nodes /\ t \in active \cup {Sink(d)}
      BY <2>1, ArcFacts
    <3>2. SimpleBounds(d)[t] \in Nat
      BY <3>1, SimpleFacts
    <3>3. CASE t = Sink(d)
      <4>1. SimpleBounds(d)[t] = 0
        BY <3>1, <3>3, SimpleFacts DEF GraphOK, BoundsOK
      <4> QED BY <4>1, <1>2
    <3>4. CASE t # Sink(d)
      <4>1. SimpleBounds(d)[t] <= Cardinality(Present)
        BY <3>1, <3>4, SimpleFacts DEF IsActive
      <4> QED BY <4>1, <3>2, <1>2
    <3> QED BY <3>3, <3>4
  <2> HIDE DEF new
  <2>3. Behind(d) \subseteq 0..Sigma
    BY <2>1, <2>2
  <2>4. IsFiniteSet(Behind(d))
    <3>1. IsFiniteSet(ActiveDom(d, Source(d)))
      BY <2>1, ArcFacts
    <3> QED BY <3>1, ImageFinite
  <2> HIDE DEF Behind
  <2>5. Behind(d) \subseteq Int
    BY <2>3
  <2>6. best(d) \in Behind(d) \cup {0}
    BY <2>4, <2>5, MaxOrFacts
  <2> QED BY <2>3, <2>6, <1>2
<1>4. BoundOf(new) = Min({best("forward"), best("reverse")})
  BY DEF BoundOf
<1> HIDE DEF best, new
<1>5. Min({best("forward"), best("reverse")}) \in {best("forward"), best("reverse")}
  <2>1. best("forward") \in Int /\ best("reverse") \in Int
    BY <1>2, <1>3 DEF Directions
  <2> QED BY <2>1, MinOfTwo
<1>6. BoundOf(new) \in 0..Sigma
  BY <1>3, <1>4, <1>5 DEF Directions
<1> QED BY <1>6 DEF new

-----------------------------------------------------------------------------
(* The relaxed bounds.                                                     *)

(* The greater of two integers.                                            *)
LEMMA MaxOfTwo ==
    ASSUME NEW a \in Int, NEW b \in Int
    PROVE  Max({a, b}) \in {a, b} /\ Max({a, b}) >= a /\ Max({a, b}) >= b
<1>1. \E x \in {a, b} : \A y \in {a, b} : x >= y
  OBVIOUS
<1> QED BY <1>1 DEF Max

(* The paths behind each match, by the characters of S that they count.    *)
Relaxation(d, S) ==
    LET f[m \in Nodes] ==
          IF m = Sink(d) THEN [X \in SUBSET S |-> IF X = {} THEN 0 ELSE -Infinity]
          ELSE LET behind == {f[t] : t \in ActiveDom(d, m)}
                   step == [X \in SUBSET S |-> 1 + MaxOr(0, {g[X] : g \in behind})]
               IN  [X \in SUBSET S |->
                      Min({up[d][m], IF CharacterOf(m) \in S THEN Counted(step, X, CharacterOf(m))
                                                              ELSE step[X]})]
    IN  f

(* What is behind m, with m itself, and what m makes of it.                *)
Steps(g, d, S, m) ==
    [X \in SUBSET S |-> 1 + MaxOr(0, {h[X] : h \in {g[t] : t \in ActiveDom(d, m)}})]

OwnCount(step, S, m, X) ==
    IF CharacterOf(m) \in S THEN Counted(step, X, CharacterOf(m)) ELSE step[X]

(* One more than what is behind m, and at least one.                       *)
LEMMA StepsType ==
    ASSUME NEW d, NEW S, NEW m, NEW g, IsFiniteSet(ActiveDom(d, m)),
           \A t \in ActiveDom(d, m) : g[t] \in [SUBSET S -> Int]
    PROVE  /\ Steps(g, d, S, m) \in [SUBSET S -> Int]
           /\ \A X \in SUBSET S : /\ Steps(g, d, S, m)[X] >= 1
                                  /\ \A t \in ActiveDom(d, m) : Steps(g, d, S, m)[X] >= 1 + g[t][X]
<1> DEFINE All(X) == {h[X] : h \in {g[t] : t \in ActiveDom(d, m)}}
<1> SUFFICES ASSUME NEW X \in SUBSET S
             PROVE  /\ 1 + MaxOr(0, All(X)) \in Int /\ 1 + MaxOr(0, All(X)) >= 1
                    /\ \A t \in ActiveDom(d, m) : 1 + MaxOr(0, All(X)) >= 1 + g[t][X]
  BY DEF Steps
<1> DEFINE k == [t \in ActiveDom(d, m) |-> g[t][X]]
           B == All(X)
<1>1. B = {k[t] : t \in ActiveDom(d, m)}
  OBVIOUS
<1>2. \A t \in ActiveDom(d, m) : k[t] = g[t][X] /\ k[t] \in Int
  OBVIOUS
<1> HIDE DEF k, B
<1>3. IsFiniteSet(B) /\ B \subseteq Int
  BY <1>1, <1>2, ImageFinite
<1>4. MaxOr(0, B) \in Int /\ MaxOr(0, B) >= 0 /\ \A x \in B : x <= MaxOr(0, B)
  <2>1. 0 \in Int
    OBVIOUS
  <2> QED BY <2>1, <1>3, MaxOrFacts, Zenon
<1>5. \A t \in ActiveDom(d, m) : 1 + MaxOr(0, B) >= 1 + g[t][X]
  <2> SUFFICES ASSUME NEW t \in ActiveDom(d, m) PROVE 1 + MaxOr(0, B) >= 1 + g[t][X]
    OBVIOUS
  <2>1. g[t][X] \in B /\ g[t][X] \in Int
    BY <1>1, <1>2
  <2> QED BY <2>1, <1>4
<1> QED BY <1>4, <1>5 DEF B

(* What m makes of it: a natural number, and at least what is behind m     *)
(* without the character of m if that is to be counted.                    *)
LEMMA OwnCountFacts ==
    ASSUME NEW S, NEW m, NEW step \in [SUBSET S -> Int], NEW X \in SUBSET S,
           \A Y \in SUBSET S : step[Y] >= 1
    PROVE  /\ OwnCount(step, S, m, X) \in Nat
           /\ CharacterOf(m) \in X => OwnCount(step, S, m, X) >= step[X \ {CharacterOf(m)}]
<1> DEFINE c == CharacterOf(m)
           a == step[X \ {c}]
           b == step[X] - 1
<1>1. a \in Int /\ b \in Int /\ a >= 1 /\ b >= 0 /\ step[X] >= 1 /\ step[X] \in Int
  <2>1. X \ {c} \in SUBSET S
    OBVIOUS
  <2> HIDE DEF c
  <2> QED BY <2>1
<1>2. OwnCount(step, S, m, X) = IF c \in S THEN IF c \in X THEN Max({a, b}) ELSE b ELSE step[X]
  BY DEF OwnCount, Counted
<1> HIDE DEF c, a, b
<1>3. Max({a, b}) \in {a, b} /\ Max({a, b}) >= a
  BY <1>1, MaxOfTwo
<1>4. X \subseteq S
  OBVIOUS
<1>5. OwnCount(step, S, m, X) \in Nat
  BY <1>1, <1>2, <1>3
<1>6. c \in X => OwnCount(step, S, m, X) >= a
  BY <1>2, <1>3, <1>4
<1> QED BY <1>2, <1>5, <1>6 DEF a, b, c


(* Relaxation satisfies the equation that defines it.                      *)
LEMMA RelaxationUnfold ==
    ASSUME GraphOK, NEW d \in Directions, NEW S
    PROVE  Relaxation(d, S) =
             [m \in Nodes |->
                IF m = Sink(d) THEN [X \in SUBSET S |-> IF X = {} THEN 0 ELSE -Infinity]
                ELSE [X \in SUBSET S |->
                        Min({up[d][m], OwnCount(Steps(Relaxation(d, S), d, S, m), S, m, X)})]]
<1> DEFINE Behind(m) == ActiveDom(d, m)
           V == [SUBSET S -> Int]
           n == Size1 + 1
           AtSink == [X \in SUBSET S |-> IF X = {} THEN 0 ELSE -Infinity]
           Inside(g, m) == [X \in SUBSET S |-> Min({up[d][m], OwnCount(Steps(g, d, S, m), S, m, X)})]
           Body(g) == [m \in Nodes |-> IF m = Sink(d) THEN AtSink ELSE Inside(g, m)]
           F == [g \in [Nodes -> V] |-> Body(g)]
           f == CHOOSE g : g = Body(g)
<1>1. Relaxation(d, S) = f
  BY DEF Relaxation, Steps, OwnCount
<1>2. strings \in Inputs /\ \A m \in Nodes : up[d][m] \in Int
  BY DEF GraphOK, ControlOK, BoundsOK
<1>3. AtSink \in V
  <2>1. -Infinity \in Int
    BY CharactersFinite
  <2> QED BY <2>1
<1>4. \A m \in Nodes : \A t \in Behind(m) : m # Sink(d) => /\ t \in Nodes
                                                          /\ Distance(d)[t] < Distance(d)[m]
  BY ArcFacts
<1> HIDE DEF AtSink, Inside, Body
<1>5. ASSUME NEW g \in [Nodes -> V], NEW m \in Nodes, m # Sink(d)
      PROVE  Inside(g, m) \in V
  <2>1. IsFiniteSet(ActiveDom(d, m)) /\ \A t \in ActiveDom(d, m) : g[t] \in [SUBSET S -> Int]
    BY <1>4, <1>5, ArcFacts
  <2>2. /\ Steps(g, d, S, m) \in [SUBSET S -> Int]
        /\ \A X \in SUBSET S : Steps(g, d, S, m)[X] >= 1
    BY <2>1, StepsType
  <2>3. \A X \in SUBSET S : OwnCount(Steps(g, d, S, m), S, m, X) \in Int
    <3> DEFINE step == Steps(g, d, S, m)
    <3>1. step \in [SUBSET S -> Int] /\ \A X \in SUBSET S : step[X] >= 1
      BY <2>2
    <3> HIDE DEF step
    <3>2. \A X \in SUBSET S : OwnCount(step, S, m, X) \in Nat
      BY <3>1, OwnCountFacts
    <3> QED BY <3>2 DEF step
  <2>4. up[d][m] \in Int
    BY <1>2, <1>5
  <2>5. \A X \in SUBSET S : Min({up[d][m], OwnCount(Steps(g, d, S, m), S, m, X)}) \in Int
    <3> SUFFICES ASSUME NEW X \in SUBSET S
                 PROVE  Min({up[d][m], OwnCount(Steps(g, d, S, m), S, m, X)}) \in Int
      OBVIOUS
    <3> DEFINE b == OwnCount(Steps(g, d, S, m), S, m, X)
    <3>1. b \in Int
      BY <2>3
    <3> HIDE DEF b
    <3>2. Min({up[d][m], b}) \in {up[d][m], b}
      BY <2>4, <3>1, MinOfTwo
    <3>3. Min({up[d][m], b}) \in Int
      BY <2>4, <3>1, <3>2
    <3> QED BY <3>3 DEF b
  <2> QED BY <2>5 DEF Inside
<1> HIDE DEF Behind, V
<1>6. \A g \in [Nodes -> V] : Body(g) \in [Nodes -> V]
  BY <1>3, <1>5 DEF Body
<1>7. V # {}
  BY <1>3
<1>8. Descends(F, Nodes, V, Distance(d), n)
  <2>1. Distance(d) \in [Nodes -> 0..n] /\ n \in Nat
    BY <1>2, DistanceType
  <2>2. F \in [[Nodes -> V] -> [Nodes -> V]]
    BY <1>6
  <2>3. \A g, h \in [Nodes -> V] : \A m \in Nodes :
           (\A t \in Nodes : Distance(d)[t] < Distance(d)[m] => g[t] = h[t]) => F[g][m] = F[h][m]
    <3> SUFFICES ASSUME NEW g \in [Nodes -> V], NEW h \in [Nodes -> V], NEW m \in Nodes,
                        \A t \in Nodes : Distance(d)[t] < Distance(d)[m] => g[t] = h[t]
                 PROVE  Body(g)[m] = Body(h)[m]
      BY DEF F
    <3>1. CASE m = Sink(d)
      BY <3>1 DEF Body
    <3>2. CASE m # Sink(d)
      <4>1. \A t \in ActiveDom(d, m) : g[t] = h[t]
        BY <1>4, <3>2 DEF Behind
      <4>2. {g[t] : t \in ActiveDom(d, m)} = {h[t] : t \in ActiveDom(d, m)}
        BY <4>1
      <4>3. Steps(g, d, S, m) = Steps(h, d, S, m)
        BY <4>2 DEF Steps
      <4>4. Inside(g, m) = Inside(h, m)
        BY <4>3 DEF Inside
      <4> QED BY <4>4, <3>2 DEF Body
    <3> QED BY <3>1, <3>2
  <2> HIDE DEF F, n
  <2> QED BY <2>1, <2>2, <2>3 DEF Descends
<1>9. PICK g \in [Nodes -> V] : F[g] = g
  <2> HIDE DEF F, n
  <2> QED BY <1>7, <1>8, RecursionHasSolution
<1>10. f = Body(f)
  <2>1. g = Body(g)
    BY <1>9
  <2> QED BY <2>1
<1> HIDE DEF f
<1>11. Relaxation(d, S) = Body(Relaxation(d, S))
  BY <1>1, <1>10
<1> QED BY <1>11 DEF Body, AtSink, Inside

(* Its values are integers, and natural numbers except at the end.         *)
LEMMA RelaxationFacts ==
    ASSUME GraphOK, NEW d \in Directions, NEW S
    PROVE  /\ \A m \in Nodes : Relaxation(d, S)[m] \in [SUBSET S -> Int]
           /\ Relaxation(d, S)[Sink(d)] = [X \in SUBSET S |-> IF X = {} THEN 0 ELSE -Infinity]
           /\ \A m \in Nodes \ {Sink(d)} : \A X \in SUBSET S :
                 LET step == Steps(Relaxation(d, S), d, S, m)
                 IN  /\ Relaxation(d, S)[m][X] \in Nat
                     /\ step \in [SUBSET S -> Int]
                     /\ step[X] >= 1
                     /\ \A t \in ActiveDom(d, m) : step[X] >= 1 + Relaxation(d, S)[t][X]
                     /\ \/ Relaxation(d, S)[m][X] = up[d][m]
                        \/ Relaxation(d, S)[m][X] = OwnCount(step, S, m, X)
<1> DEFINE f == Relaxation(d, S)
           step(m) == Steps(f, d, S, m)
           AtSink == [X \in SUBSET S |-> IF X = {} THEN 0 ELSE -Infinity]
           T == {m \in Nodes : f[m] \notin [SUBSET S -> Int]}
<1>1. strings \in Inputs /\ \A m \in Nodes : up[d][m] \in Nat
  BY DEF GraphOK, ControlOK, BoundsOK
<1>2. AtSink \in [SUBSET S -> Int]
  <2>1. -Infinity \in Int
    BY CharactersFinite
  <2> QED BY <2>1
<1>3. Sink(d) \in Nodes /\ f = [m \in Nodes |-> IF m = Sink(d) THEN AtSink
                ELSE [X \in SUBSET S |-> Min({up[d][m], OwnCount(step(m), S, m, X)})]]
  BY DirectionFacts, RelaxationUnfold
<1> HIDE DEF f, AtSink
<1>4. ASSUME NEW m \in Nodes, m # Sink(d),
             \A t \in ActiveDom(d, m) : f[t] \in [SUBSET S -> Int]
      PROVE  /\ step(m) \in [SUBSET S -> Int]
             /\ f[m] \in [SUBSET S -> Int]
             /\ \A X \in SUBSET S :
                   /\ f[m][X] \in Nat
                   /\ step(m)[X] >= 1
                   /\ \A t \in ActiveDom(d, m) : step(m)[X] >= 1 + f[t][X]
                   /\ f[m][X] = up[d][m] \/ f[m][X] = OwnCount(step(m), S, m, X)
  <2>1. IsFiniteSet(ActiveDom(d, m))
    BY <1>4, ArcFacts
  <2>2. /\ step(m) \in [SUBSET S -> Int]
        /\ \A X \in SUBSET S : /\ step(m)[X] >= 1
                               /\ \A t \in ActiveDom(d, m) : step(m)[X] >= 1 + f[t][X]
    BY <1>4, <2>1, StepsType
  <2> HIDE DEF step
  <2>3. \A X \in SUBSET S : OwnCount(step(m), S, m, X) \in Nat
    BY <2>2, OwnCountFacts
  <2>4. f[m] = [X \in SUBSET S |-> Min({up[d][m], OwnCount(step(m), S, m, X)})]
    BY <1>3, <1>4
  <2>5. ASSUME NEW X \in SUBSET S
        PROVE  f[m][X] \in Nat /\ (f[m][X] = up[d][m] \/ f[m][X] = OwnCount(step(m), S, m, X))
    <3> DEFINE b == OwnCount(step(m), S, m, X)
    <3>1. b \in Nat /\ up[d][m] \in Nat
      BY <1>1, <1>4, <2>3
    <3>2. f[m][X] = Min({up[d][m], b})
      BY <2>4
    <3> HIDE DEF b
    <3>3. Min({up[d][m], b}) \in {up[d][m], b}
      <4>1. b \in Int /\ up[d][m] \in Int
        BY <3>1
      <4> QED BY <4>1, MinOfTwo
    <3>4. f[m][X] \in Nat /\ (f[m][X] = up[d][m] \/ f[m][X] = b)
      BY <3>1, <3>2, <3>3
    <3> QED BY <3>4 DEF b
  <2>6. f[m] \in [SUBSET S -> Int]
    <3>1. \A X \in SUBSET S : f[m][X] \in Int
      BY <2>5
    <3>2. f[m] = [X \in SUBSET S |-> f[m][X]]
      BY <2>4
    <3> QED BY <3>1, <3>2
  <2> QED BY <2>2, <2>5, <2>6
<1> HIDE DEF step
<1>5. T = {}
  <2> SUFFICES ASSUME T # {} PROVE FALSE
    OBVIOUS
  <2>1. Distance(d) \in [Nodes -> Nat] /\ T \subseteq Nodes
    BY <1>1, DistanceType
  <2>2. PICK m \in T : \A x \in T : Distance(d)[m] <= Distance(d)[x]
    BY <2>1, LeastRank
  <2>3. m # Sink(d) /\ m \in Nodes
    BY <1>2, <1>3, <2>2
  <2>4. \A t \in ActiveDom(d, m) : f[t] \in [SUBSET S -> Int]
    <3> SUFFICES ASSUME NEW t \in ActiveDom(d, m) PROVE f[t] \in [SUBSET S -> Int]
      OBVIOUS
    <3>1. t \in Nodes /\ Distance(d)[t] < Distance(d)[m]
      BY <2>3, ArcFacts
    <3>2. t \notin T
      <4> HIDE DEF T
      <4> QED BY <3>1, <2>1, <2>2
    <3> QED BY <3>1, <3>2
  <2> QED BY <2>2, <2>3, <2>4, <1>4
<1>6. \A m \in Nodes : f[m] \in [SUBSET S -> Int]
  BY <1>5
<1>7. f[Sink(d)] = AtSink
  BY <1>3
<1>8. ASSUME NEW m \in Nodes \ {Sink(d)}, NEW X \in SUBSET S
      PROVE  /\ f[m][X] \in Nat
             /\ step(m) \in [SUBSET S -> Int]
             /\ step(m)[X] >= 1
             /\ \A t \in ActiveDom(d, m) : step(m)[X] >= 1 + f[t][X]
             /\ f[m][X] = up[d][m] \/ f[m][X] = OwnCount(step(m), S, m, X)
  <2>1. \A t \in ActiveDom(d, m) : f[t] \in [SUBSET S -> Int]
    BY <1>6, ArcFacts
  <2> QED BY <1>4, <2>1
<1> QED BY <1>6, <1>7, <1>8 DEF f, step, AtSink


(* On the way of a chain, the characters of S that the chain does not have *)
(* need not be counted: for those it has, the relaxation covers what it    *)
(* has outside S and any of them.                                          *)
LEMMA RelaxationCovers ==
    ASSUME GraphOK, BetterStayActive, ArcsStay, BoundsCover, NEW S,
           NEW d \in Directions, NEW C \in Better, NEW m \in C,
           NEW X, X \subseteq S \cap Letters(From(d, C, m))
    PROVE  Relaxation(d, S)[m][X] >= Cardinality((Letters(From(d, C, m)) \ S) \cup X)
<1> DEFINE f == Relaxation(d, S)
           L(E, x) == Letters(From(d, E, x))
           B(E, x) == Letters(Rest(d, E, x))
           Covers(x) == \A E \in Better : x \in E =>
                           \A Y \in SUBSET (S \cap L(E, x)) : f[x][Y] >= Cardinality((L(E, x) \ S) \cup Y)
           T == {x \in Nodes : ~Covers(x)}
           step(x) == Steps(f, d, S, x)
<1>1. strings \in Inputs /\ C \subseteq Nodes
  BY BetterFacts DEF Nodes
<1>2. \A E \in Better : E \in Chains /\ E \subseteq active /\ E \subseteq Inner
  BY BetterFacts DEF BetterStayActive
<1>3. \A x \in Nodes \ {Sink(d)} : \A Y \in SUBSET S :
         /\ f[x][Y] \in Nat
         /\ step(x) \in [SUBSET S -> Int]
         /\ step(x)[Y] >= 1
         /\ \A t \in ActiveDom(d, x) : step(x)[Y] >= 1 + f[t][Y]
         /\ f[x][Y] = up[d][x] \/ f[x][Y] = OwnCount(step(x), S, x, Y)
  BY RelaxationFacts
<1> HIDE DEF f, step
<1>4. \A X1, Y1 : X1 \subseteq Y1 /\ Y1 \subseteq Characters =>
         /\ IsFiniteSet(X1) /\ Cardinality(X1) \in Nat /\ Cardinality(Y1) \in Nat
         /\ Cardinality(X1) <= Cardinality(Y1)
  BY CharactersFinite, FS_Subset, FS_CardinalityType
<1>5. \A E \in Better, x \in Nodes : L(E, x) \subseteq Characters /\ B(E, x) \subseteq Characters
  <2> SUFFICES ASSUME NEW E \in Better, NEW x \in Nodes
               PROVE  L(E, x) \subseteq Characters /\ B(E, x) \subseteq Characters
    OBVIOUS
  <2>1. From(d, E, x) \subseteq Inner /\ Rest(d, E, x) \subseteq Inner
    BY <1>2 DEF From, Rest
  <2> QED BY <2>1, <1>1, LettersFinite
<1>6. T = {}
  <2> SUFFICES ASSUME T # {} PROVE FALSE
    OBVIOUS
  <2>1. Distance(d) \in [Nodes -> Nat] /\ T \subseteq Nodes
    BY <1>1, DistanceType
  <2> HIDE DEF L, B
  <2>2. PICK x \in T : \A y \in T : Distance(d)[x] <= Distance(d)[y]
    BY <2>1, LeastRank
  <2>3. PICK E \in Better : /\ x \in E
                            /\ \E Y \in SUBSET (S \cap L(E, x)) :
                                  ~(f[x][Y] >= Cardinality((L(E, x) \ S) \cup Y))
    BY <2>2
  <2>4. PICK Y \in SUBSET (S \cap L(E, x)) : ~(f[x][Y] >= Cardinality((L(E, x) \ S) \cup Y))
    BY <2>3
  <2> DEFINE c == CharacterOf(x)
  <2>5. E \in Chains /\ E \subseteq active /\ x \in Places(d, E) /\ Y \in SUBSET S
    BY <2>3, <1>2 DEF Places
  <2>6. x \in Nodes /\ x # Sink(d) /\ x \in Inner
    BY <1>1, <2>3, <2>5, PlaceFacts
  <2>7. L(E, x) = {c} \cup B(E, x) /\ c \notin B(E, x)
    BY <1>1, <2>3, <2>5, FromWeight DEF L, B
  <2>8. L(E, x) \subseteq Characters /\ B(E, x) \subseteq Characters
    BY <2>6, <1>5
  <2>9. \A Z \in SUBSET (S \cap B(E, x)) :
           step(x)[Z] >= 1 + Cardinality((B(E, x) \ S) \cup Z) /\ step(x)[Z] \in Int
    <3> SUFFICES ASSUME NEW Z \in SUBSET (S \cap B(E, x))
                 PROVE  step(x)[Z] >= 1 + Cardinality((B(E, x) \ S) \cup Z) /\ step(x)[Z] \in Int
      OBVIOUS
    <3>1. step(x)[Z] >= 1 /\ step(x)[Z] \in Int /\ Z \in SUBSET S
      BY <1>3, <2>6
    <3>2. CASE B(E, x) = {}
      <4>1. (B(E, x) \ S) \cup Z = {}
        BY <3>2
      <4>2. Cardinality((B(E, x) \ S) \cup Z) = 0
        BY <4>1, FS_EmptySet
      <4> QED BY <3>1, <4>2
    <3>3. CASE \E s \in ActiveDom(d, x) \cap active, G \in Better :
                 /\ x \in Places(d, G) /\ IsNext(d, G, x, s) /\ Weight(E) <= Weight(G)
                 /\ Letters(Rest(d, E, x)) \subseteq Letters(From(d, G, s))
      <4>1. PICK s \in ActiveDom(d, x) \cap active, G \in Better :
                 IsNext(d, G, x, s) /\ B(E, x) \subseteq L(G, s)
        BY <3>3 DEF B, L
      <4>2. s \in Nodes /\ Distance(d)[s] < Distance(d)[x] /\ s \in G /\ s # Sink(d)
        <5>1. s \in Nodes /\ Distance(d)[s] < Distance(d)[x] /\ s \in G
          BY <2>6, <4>1, ArcFacts DEF IsNext
        <5>2. s \in Places(d, G) /\ G \in Chains
          BY <5>1, <1>2 DEF Places
        <5> QED BY <5>1, <5>2, <1>1, PlaceFacts
      <4>3. s \notin T
        BY <4>2, <2>1, <2>2
      <4>4. f[s][Z] >= Cardinality((L(G, s) \ S) \cup Z)
        BY <4>1, <4>2, <4>3
      <4>5. (B(E, x) \ S) \cup Z \subseteq (L(G, s) \ S) \cup Z /\ (L(G, s) \ S) \cup Z \subseteq Characters
        BY <4>1, <4>2, <1>5
      <4>6. /\ Cardinality((B(E, x) \ S) \cup Z) <= Cardinality((L(G, s) \ S) \cup Z)
            /\ Cardinality((B(E, x) \ S) \cup Z) \in Nat /\ Cardinality((L(G, s) \ S) \cup Z) \in Nat
        <5>1. (B(E, x) \ S) \cup Z \subseteq Characters
          BY <4>5
        <5> QED BY <4>5, <5>1, <1>4
      <4>7. step(x)[Z] >= 1 + f[s][Z] /\ f[s][Z] \in Nat
        BY <1>3, <2>6, <3>1, <4>1, <4>2
      <4> QED BY <3>1, <4>4, <4>6, <4>7
    <3> QED BY <3>2, <3>3, <2>5, BetterGoesOn DEF B
  <2>10. CASE f[x][Y] = up[d][x]
    <3>1. up[d][x] >= Cardinality(L(E, x)) /\ up[d][x] \in Nat
      BY <2>3, <2>6 DEF BoundsCover, GraphOK, BoundsOK, Weight, L
    <3>2. (L(E, x) \ S) \cup Y \subseteq L(E, x)
      BY <2>4
    <3>3. /\ Cardinality((L(E, x) \ S) \cup Y) <= Cardinality(L(E, x))
          /\ Cardinality((L(E, x) \ S) \cup Y) \in Nat /\ Cardinality(L(E, x)) \in Nat
      <4>1. (L(E, x) \ S) \cup Y \subseteq Characters
        BY <3>2, <2>8
      <4> QED BY <3>2, <4>1, <2>8, <1>4
    <3> QED BY <3>1, <3>3, <2>4, <2>10
  <2>11. CASE f[x][Y] = OwnCount(step(x), S, x, Y)
    <3>1. \A Z : Z \subseteq Characters => Cardinality(Z \cup {c}) <= Cardinality(Z) + 1
      BY CharactersFinite, FS_Subset, FS_AddElement, FS_CardinalityType
    <3>2. step(x) \in [SUBSET S -> Int] /\ \A Z \in SUBSET S : step(x)[Z] >= 1
      BY <1>3, <2>5, <2>6
    <3>3. /\ c \notin S => f[x][Y] = step(x)[Y]
          /\ c \in S /\ c \notin Y => f[x][Y] = step(x)[Y] - 1
          /\ c \in Y => f[x][Y] >= step(x)[Y \ {c}]
      <4> DEFINE g == step(x)
      <4>1. g \in [SUBSET S -> Int] /\ \A Z \in SUBSET S : g[Z] >= 1
        BY <3>2
      <4>2. f[x][Y] = OwnCount(g, S, x, Y) /\ Y \in SUBSET S
        BY <2>5, <2>11
      <4> HIDE DEF g
      <4>3. c \notin S => f[x][Y] = g[Y]
        BY <4>2 DEF OwnCount
      <4>4. c \in S /\ c \notin Y => f[x][Y] = g[Y] - 1
        BY <4>2 DEF OwnCount, Counted
      <4>5. CharacterOf(x) \in Y => OwnCount(g, S, x, Y) >= g[Y \ {CharacterOf(x)}]
        BY <4>1, <4>2, OwnCountFacts
      <4> QED BY <4>2, <4>3, <4>4, <4>5 DEF g
    <3>4. CASE c \notin S
      <4>1. Y \subseteq S \cap B(E, x) /\ (L(E, x) \ S) \cup Y = ((B(E, x) \ S) \cup Y) \cup {c}
        BY <2>4, <2>7, <3>4
      <4>2. (B(E, x) \ S) \cup Y \subseteq Characters
        BY <4>1, <2>8
      <4>3. /\ Cardinality((L(E, x) \ S) \cup Y) <= Cardinality((B(E, x) \ S) \cup Y) + 1
            /\ Cardinality((B(E, x) \ S) \cup Y) \in Nat
        BY <4>1, <4>2, <3>1, <1>4
      <4>4. Cardinality((L(E, x) \ S) \cup Y) \in Nat
        <5>1. (L(E, x) \ S) \cup Y \subseteq Characters
          BY <2>4, <2>8
        <5> QED BY <5>1, <1>4
      <4>5. /\ step(x)[Y] >= 1 + Cardinality((B(E, x) \ S) \cup Y)
            /\ step(x)[Y] \in Int /\ f[x][Y] = step(x)[Y]
        BY <4>1, <3>3, <3>4, <2>9
      <4> QED BY <4>3, <4>4, <4>5, <2>4
    <3>5. CASE c \in S /\ c \notin Y
      <4>1. Y \subseteq S \cap B(E, x) /\ (L(E, x) \ S) \cup Y = (B(E, x) \ S) \cup Y
        BY <2>4, <2>7, <3>5
      <4>2. (B(E, x) \ S) \cup Y \subseteq Characters
        BY <4>1, <2>8
      <4>3. Cardinality((B(E, x) \ S) \cup Y) \in Nat
        BY <4>2, <1>4
      <4>4. /\ step(x)[Y] >= 1 + Cardinality((B(E, x) \ S) \cup Y)
            /\ step(x)[Y] \in Int /\ f[x][Y] = step(x)[Y] - 1
        BY <4>1, <3>3, <3>5, <2>9
      <4>5. Cardinality((L(E, x) \ S) \cup Y) = Cardinality((B(E, x) \ S) \cup Y)
        BY <4>1
      <4> QED BY <4>3, <4>4, <4>5, <2>4
    <3>6. CASE c \in Y
      <4>1. /\ Y \ {c} \subseteq S \cap B(E, x) /\ c \in S
            /\ (L(E, x) \ S) \cup Y = ((B(E, x) \ S) \cup (Y \ {c})) \cup {c}
        BY <2>4, <2>7, <3>6
      <4>2. (B(E, x) \ S) \cup (Y \ {c}) \subseteq Characters
        BY <4>1, <2>8
      <4>3. /\ Cardinality((L(E, x) \ S) \cup Y) <= Cardinality((B(E, x) \ S) \cup (Y \ {c})) + 1
            /\ Cardinality((B(E, x) \ S) \cup (Y \ {c})) \in Nat
        BY <4>1, <4>2, <3>1, <1>4
      <4>4. Cardinality((L(E, x) \ S) \cup Y) \in Nat
        <5>1. (L(E, x) \ S) \cup Y \subseteq Characters
          BY <2>4, <2>8
        <5> QED BY <5>1, <1>4
      <4>5. f[x][Y] >= step(x)[Y \ {c}] /\ f[x][Y] \in Nat
        BY <3>3, <3>6, <1>3, <2>5, <2>6
      <4>6. /\ step(x)[Y \ {c}] >= 1 + Cardinality((B(E, x) \ S) \cup (Y \ {c}))
            /\ step(x)[Y \ {c}] \in Int
        BY <4>1, <2>9
      <4> QED BY <4>3, <4>4, <4>5, <4>6, <2>4
    <3> QED BY <3>4, <3>5, <3>6
  <2> QED BY <2>5, <2>6, <2>10, <2>11, <1>3
<1>7. m \in Nodes
  BY <1>1
<1> QED BY <1>6, <1>7 DEF f


(* The relaxed bounds are bounds, and cover what a chain has from a match  *)
(* on: its characters of S are one of the sets that the relaxation tries.  *)
LEMMA RelaxedFacts ==
    ASSUME GraphOK, NEW d \in Directions, NEW S, S \subseteq Characters
    PROVE  /\ RelaxedBounds(d, S) \in [Nodes -> Nat]
           /\ \A m \in Nodes : /\ m \in active => RelaxedBounds(d, S)[m] <= Cardinality(Present)
                               /\ m \notin active => RelaxedBounds(d, S)[m] = up[d][m]
           /\ BetterStayActive /\ ArcsStay /\ BoundsCover =>
                 \A C \in Better : \A m \in C : RelaxedBounds(d, S)[m] >= Weight(From(d, C, m))
<1> DEFINE f == Relaxation(d, S)
           Sets(m) == {f[m][X] : X \in SUBSET S}
           Count(m) == Cardinality(AvailableAfter(d)[m])
           new(m) == RelaxedBounds(d, S)[m]
<1>1. strings \in Inputs /\ \A m \in Nodes : up[d][m] \in Nat
  BY DEF GraphOK, ControlOK, BoundsOK
<1>2. RelaxedBounds(d, S) = [m \in Nodes |-> IF m \in active THEN Min({Max(Sets(m)), Count(m)})
                                                              ELSE up[d][m]]
  BY DEF RelaxedBounds, Relaxation
<1>3. IsFiniteSet(SUBSET S)
  BY CharactersFinite, FS_Subset, FS_SUBSET
<1>4. \A m \in Nodes : /\ IsFiniteSet(AvailableAfter(d)[m])
                       /\ Count(m) \in Nat /\ Count(m) <= Cardinality(Present)
  BY <1>1, PresentFacts, AvailableType
<1>5. active \subseteq Inner /\ \A m \in active : m \in Nodes \ {Sink(d)}
  <2>1. active \subseteq Inner
    BY DEF GraphOK, ArcsOK
  <2>2. \A m \in active : m # Root /\ m # Leaf /\ m \in Nodes
    BY <1>1, <2>1, InnerFacts
  <2> QED BY <2>1, <2>2, DirectionFacts
<1>6. Cardinality(Present) \in Nat
  BY <1>1, PresentFacts
<1>7. \A m \in Nodes \ {Sink(d)} : \A X \in SUBSET S : f[m][X] \in Nat
  BY RelaxationFacts
<1> HIDE DEF f, Count
<1>8. ASSUME NEW m \in active
      PROVE  /\ Max(Sets(m)) \in Nat /\ \A X \in SUBSET S : f[m][X] <= Max(Sets(m))
             /\ new(m) = Max(Sets(m)) \/ new(m) = Count(m)
             /\ new(m) <= Count(m) /\ new(m) \in Nat
  <2>1. Sets(m) \subseteq Nat
    BY <1>5, <1>7
  <2>2. IsFiniteSet(Sets(m))
    <3> DEFINE g == f[m]
    <3> HIDE DEF g
    <3>1. IsFiniteSet({g[X] : X \in SUBSET S})
      BY <1>3, ImageFinite
    <3> QED BY <3>1 DEF g
  <2>3. Sets(m) # {}
    OBVIOUS
  <2>4. \A X \in SUBSET S : f[m][X] \in Sets(m)
    OBVIOUS
  <2>5. m \in Nodes /\ new(m) = Min({Max(Sets(m)), Count(m)})
    BY <1>2, <1>5
  <2> HIDE DEF Sets
  <2>6. Sets(m) \subseteq Int
    BY <2>1
  <2>7. Max(Sets(m)) \in Sets(m) /\ \A x \in Sets(m) : x <= Max(Sets(m))
    BY <2>2, <2>3, <2>6, MaxOfFinite
  <2> DEFINE a == Max(Sets(m))
             b == Count(m)
  <2>8. a \in Nat /\ b \in Nat
    BY <2>1, <2>5, <2>7, <1>4
  <2>9. new(m) = Min({a, b})
    BY <2>5
  <2> HIDE DEF a, b, new
  <2>10. a \in Int /\ b \in Int
    BY <2>8
  <2>11. Min({a, b}) \in {a, b} /\ Min({a, b}) <= b
    BY <2>10, MinOfTwo
  <2>12. (new(m) = a \/ new(m) = b) /\ new(m) <= b /\ new(m) \in Nat
    BY <2>8, <2>9, <2>11
  <2> QED BY <2>4, <2>7, <2>8, <2>12 DEF a, b
<1>9. ASSUME NEW m \in Nodes
      PROVE  /\ new(m) \in Nat
             /\ m \in active => new(m) <= Cardinality(Present)
             /\ m \notin active => new(m) = up[d][m]
  <2>1. m \notin active => new(m) = up[d][m]
    BY <1>2
  <2>2. m \in active => new(m) \in Nat /\ new(m) <= Count(m)
    BY <1>8
  <2> HIDE DEF new
  <2> QED BY <2>1, <2>2, <1>1, <1>4, <1>6
<1>10. RelaxedBounds(d, S) \in [Nodes -> Nat]
  <2>1. RelaxedBounds(d, S) = [m \in Nodes |-> new(m)]
    BY <1>2
  <2> HIDE DEF new
  <2> QED BY <2>1, <1>9
<1>11. ASSUME BetterStayActive, ArcsStay, BoundsCover, NEW C \in Better, NEW m \in C
       PROVE  new(m) >= Weight(From(d, C, m))
  <2> DEFINE L == Letters(From(d, C, m))
  <2>1. m \in active /\ m \in Nodes
    BY <1>11, <1>5 DEF BetterStayActive
  <2>2. Weight(From(d, C, m)) \in Nat
    <3>1. From(d, C, m) \subseteq Inner
      BY BetterFacts DEF From
    <3> QED BY <3>1, <1>1, LettersFinite
  <2>3. f[m][S \cap L] >= Weight(From(d, C, m))
    <3>1. f[m][S \cap L] >= Cardinality((L \ S) \cup (S \cap L))
      BY <1>11, RelaxationCovers DEF f
    <3>2. (L \ S) \cup (S \cap L) = L
      OBVIOUS
    <3> QED BY <3>1, <3>2 DEF Weight
  <2>4. S \cap L \in SUBSET S
    OBVIOUS
  <2>5. f[m][S \cap L] \in Nat
    BY <1>5, <1>7, <2>1, <2>4
  <2>6. Count(m) >= Weight(From(d, C, m))
    <3>1. L \subseteq AvailableAfter(d)[m]
      BY <1>11, AvailableCovers DEF Places
    <3> QED BY <3>1, <2>1, <1>4, FS_Subset DEF Weight, Count
  <2> HIDE DEF L, new
  <2>7. /\ Max(Sets(m)) \in Nat /\ f[m][S \cap L] <= Max(Sets(m))
        /\ new(m) = Max(Sets(m)) \/ new(m) = Count(m)
    BY <1>8, <2>1, <2>4 DEF new
  <2> QED BY <2>2, <2>3, <2>5, <2>6, <2>7
<1> QED BY <1>9, <1>10, <1>11


-----------------------------------------------------------------------------
(* The deactivation.                                                       *)

(* What remains are the active matches whose combined bound, with what     *)
(* remains of the matches before them, exceeds the lower bound.            *)
LEMMA RemainingUnfold ==
    ASSUME GraphOK
    PROVE  /\ RemainingActive \subseteq active
           /\ \A m \in Inner :
                 m \in RemainingActive <=>
                    m \in active /\ CombinedBound(m, dom["reverse"][m] \cap RemainingActive) > lower
<1> DEFINE n == Size1 + 1
           rank == [m \in Inner |-> Distance("reverse")[m]]
           Prior(m) == dom["reverse"][m] \cap Inner
           Body(g) == [m \in Inner |->
                          m \in active /\ CombinedBound(m, {p \in dom["reverse"][m] \cap Inner : g[p]}) > lower]
           F == [g \in [Inner -> BOOLEAN] |-> Body(g)]
           f == CHOOSE g : g = Body(g)
<1>1. RemainingActive = {m \in Inner : f[m]}
  BY DEF RemainingActive
<1>2. strings \in Inputs /\ "reverse" \in Directions
  BY DEF GraphOK, ControlOK, Directions
<1>3. Inner \subseteq Nodes
  BY DEF Nodes
<1>4. \A m \in Inner : \A p \in Prior(m) : p \in Inner /\ rank[p] < rank[m]
  <2> SUFFICES ASSUME NEW m \in Inner, NEW p \in Prior(m)
               PROVE  Distance("reverse")[p] < Distance("reverse")[m]
    OBVIOUS
  <2>1. m \in Nodes /\ m # Sink("reverse")
    BY <1>2, InnerFacts, DirectionFacts
  <2> QED BY <1>2, <2>1, ArcFacts
<1>5. \A g : Body(g) = [m \in Inner |-> m \in active /\ CombinedBound(m, {p \in Prior(m) : g[p]}) > lower]
  OBVIOUS
<1> HIDE DEF Prior, Body
<1>6. \A g \in [Inner -> BOOLEAN] : Body(g) \in [Inner -> BOOLEAN]
  BY <1>5
<1>7. Descends(F, Inner, BOOLEAN, rank, n)
  <2>1. rank \in [Inner -> 0..n] /\ n \in Nat
    BY <1>2, <1>3, DistanceType
  <2>2. F \in [[Inner -> BOOLEAN] -> [Inner -> BOOLEAN]]
    BY <1>6
  <2> HIDE DEF rank
  <2>3. \A g, h \in [Inner -> BOOLEAN] : \A m \in Inner :
           (\A t \in Inner : rank[t] < rank[m] => g[t] = h[t]) => F[g][m] = F[h][m]
    <3> SUFFICES ASSUME NEW g \in [Inner -> BOOLEAN], NEW h \in [Inner -> BOOLEAN], NEW m \in Inner,
                        \A t \in Inner : rank[t] < rank[m] => g[t] = h[t]
                 PROVE  Body(g)[m] = Body(h)[m]
      BY DEF F
    <3>1. \A p \in Prior(m) : g[p] = h[p]
      BY <1>4
    <3>2. {p \in Prior(m) : g[p]} = {p \in Prior(m) : h[p]}
      BY <3>1
    <3> QED BY <3>2, <1>5
  <2> HIDE DEF F, n
  <2> QED BY <2>1, <2>2, <2>3 DEF Descends
<1>8. PICK g \in [Inner -> BOOLEAN] : F[g] = g
  <2> HIDE DEF F, n, rank
  <2> QED BY <1>7, RecursionHasSolution
<1>9. f = Body(f)
  <2>1. g = Body(g)
    BY <1>8
  <2> QED BY <2>1
<1> HIDE DEF f
<1>10. ASSUME NEW m \in Inner
       PROVE  m \in RemainingActive <=>
                 m \in active /\ CombinedBound(m, dom["reverse"][m] \cap RemainingActive) > lower
  <2>1. {p \in Prior(m) : f[p]} = dom["reverse"][m] \cap RemainingActive
    BY <1>1 DEF Prior
  <2>2. f[m] = (m \in active /\ CombinedBound(m, {p \in Prior(m) : f[p]}) > lower)
    BY <1>5, <1>9
  <2> QED BY <1>1, <2>1, <2>2
<1>11. RemainingActive \subseteq Inner
  BY <1>1
<1> QED BY <1>10, <1>11

(* Next to a match of a chain, a dominating successor has the bound and    *)
(* the characters for what the chain has on that side.                     *)
LEMMA SideCovers ==
    ASSUME GraphOK, BetterStayActive, BoundsCover, AvailableCover, ArcsStay, pc = "deactivate",
           NEW d \in Directions, NEW C \in Better, NEW m \in C
    PROVE  \E t \in ActiveDom(d, m) :
              /\ t = Sink(d) \/ \E G \in Better : t \in G
              /\ up[d][t] >= Weight(Rest(d, C, m))
              /\ Letters(Rest(d, C, m)) \subseteq avail[d][t]
<1>1. strings \in Inputs /\ C \subseteq Inner /\ m \in Places(d, C)
  BY BetterFacts DEF Places
<1>2. CASE Letters(Rest(d, C, m)) = {} /\ ActiveDom(d, m) = {Sink(d)}
  <2>1. Weight(Rest(d, C, m)) = 0
    BY <1>2, FS_EmptySet DEF Weight
  <2>2. up[d][Sink(d)] = 0
    BY DEF GraphOK, BoundsOK
  <2> QED BY <1>2, <2>1, <2>2
<1>3. CASE \E s \in ActiveDom(d, m) \cap active, E \in Better :
              /\ m \in Places(d, E) /\ IsNext(d, E, m, s) /\ Weight(C) <= Weight(E)
              /\ Letters(Rest(d, C, m)) \subseteq Letters(From(d, E, s))
  <2>1. PICK s \in ActiveDom(d, m), E \in Better :
              s \in E /\ Letters(Rest(d, C, m)) \subseteq Letters(From(d, E, s))
    BY <1>3 DEF IsNext
  <2>2. From(d, E, s) \subseteq Inner
    BY BetterFacts DEF From
  <2>3. /\ Weight(From(d, E, s)) \in Nat /\ Weight(Rest(d, C, m)) \in Nat
        /\ Weight(Rest(d, C, m)) <= Weight(From(d, E, s))
    BY <1>1, <2>1, <2>2, WeightMonotone
  <2>4. up[d][s] >= Weight(From(d, E, s)) /\ up[d][s] \in Nat
    <3>1. s \in Nodes
      BY <2>1, BetterFacts DEF Nodes
    <3> QED BY <2>1, <3>1 DEF BoundsCover, GraphOK, BoundsOK
  <2>5. Letters(From(d, E, s)) \subseteq avail[d][s]
    BY <2>1 DEF AvailableCover, Places
  <2> QED BY <2>1, <2>3, <2>4, <2>5
<1> QED BY <1>1, <1>2, <1>3, BetterGoesOn


(* The matches of the chains that have to be kept remain: each of them has *)
(* a pair of dominating neighbours, which are on such chains too, through  *)
(* which the combined bound covers the whole chain.                        *)
LEMMA RemainingCovers ==
    ASSUME GraphOK, BetterStayActive, BoundsCover, AvailableCover, ArcsStay, pc = "deactivate",
           NEW C \in Better
    PROVE  C \subseteq RemainingActive
<1> DEFINE T == {m \in Nodes : \E E \in Better : m \in E /\ m \notin RemainingActive}
           through(m, t, p) ==
              Min({Cardinality(avail["forward"][t] \cup avail["reverse"][p] \cup {CharacterOf(m)}),
                   up["forward"][t] + up["reverse"][p] + 1})
<1>1. strings \in Inputs /\ C \subseteq Nodes
  BY BetterFacts DEF Nodes
<1>2. /\ "forward" \in Directions /\ "reverse" \in Directions /\ Sink("reverse") = Root
      /\ Opposite("forward") = "reverse" /\ Opposite("reverse") = "forward"
  BY DEF Directions, Sink, Opposite, Source
<1>3. \A X : X \subseteq Present => /\ IsFiniteSet(X) /\ Cardinality(X) \in Nat
  BY <1>1, PresentFacts
<1>4. \A X, Y : X \subseteq Y /\ Y \subseteq Present => /\ Cardinality(X) <= Cardinality(Y)
                                                       /\ Cardinality(X) \in Nat /\ Cardinality(Y) \in Nat
  BY <1>3, FS_Subset
<1>5. \A d \in Directions, x \in Nodes : up[d][x] \in Nat /\ avail[d][x] \subseteq Present
  BY DEF GraphOK, BoundsOK
<1>6. T = {}
  <2> SUFFICES ASSUME T # {} PROVE FALSE
    OBVIOUS
  <2>1. Distance("reverse") \in [Nodes -> Nat] /\ T \subseteq Nodes
    BY <1>1, <1>2, DistanceType
  <2>2. PICK m \in T : \A y \in T : Distance("reverse")[m] <= Distance("reverse")[y]
    BY <2>1, LeastRank
  <2>3. PICK E \in Better : m \in E /\ m \notin RemainingActive
    BY <2>2
  <2>4. /\ E \in Chains /\ E \subseteq active /\ m \in Inner /\ m \in Nodes /\ CharacterOf(m) \in Present
        /\ Weight(E) > lower /\ Weight(E) \in Nat /\ lower \in Nat
        /\ m # Sink("forward") /\ m # Sink("reverse")
    <3>1. /\ E \in Chains /\ E \subseteq active /\ m \in Inner /\ m \in Nodes
          /\ Weight(E) > lower /\ Weight(E) \in Nat /\ lower \in Nat
      BY <1>1, <2>3, BetterFacts DEF BetterStayActive, Nodes
    <3>2. m # Root /\ m # Leaf /\ CharacterOf(m) \in Present
      BY <3>1, <1>1, InnerFacts, PresentFacts
    <3> QED BY <3>1, <3>2, <1>2, DirectionFacts
  <2> DEFINE A == dom["reverse"][m] \cap RemainingActive
             pairs == ActiveDom("forward", m) \X (dom["reverse"][m] \cap (A \cup {Root}))
             Through == {through(m, x[1], x[2]) : x \in pairs}
             F == Letters(Rest("forward", E, m))
             R == Letters(Rest("reverse", E, m))
             one == MaxOr(0, Through)
             two == up["forward"][m] + up["reverse"][m] - 1
             three == Cardinality(avail["forward"][m] \cup avail["reverse"][m])
  <2>5. CombinedBound(m, A) = Min({one, two, three})
    BY DEF CombinedBound
  <2>6. /\ Letters(E) = F \cup R \cup {CharacterOf(m)}
        /\ Weight(E) <= Cardinality(F) + Cardinality(R) + 1
        /\ Weight(E) <= Weight(From("forward", E, m)) + Weight(From("reverse", E, m)) - 1
    BY <1>1, <2>3, <2>4, SplitAt DEF Weight
  <2>7. /\ F \subseteq Letters(From("forward", E, m)) /\ R \subseteq Letters(From("reverse", E, m))
        /\ CharacterOf(m) \in Letters(From("forward", E, m))
        /\ Weight(From("forward", E, m)) \in Nat /\ Weight(From("reverse", E, m)) \in Nat
        /\ Cardinality(F) \in Nat /\ Cardinality(R) \in Nat
    <3>1. \A d \in Directions : /\ Letters(From(d, E, m)) = {CharacterOf(m)} \cup Letters(Rest(d, E, m))
                                /\ Weight(From(d, E, m)) = Weight(Rest(d, E, m)) + 1
                                /\ Weight(Rest(d, E, m)) \in Nat
      BY <1>1, <2>3, <2>4, FromWeight
    <3> QED BY <3>1, <1>2 DEF Weight
  <2>8. two \in Int /\ two >= Weight(E)
    <3>1. /\ up["forward"][m] >= Weight(From("forward", E, m))
          /\ up["reverse"][m] >= Weight(From("reverse", E, m))
      BY <1>2, <2>3 DEF BoundsCover
    <3>2. up["forward"][m] \in Nat /\ up["reverse"][m] \in Nat
      BY <1>2, <1>5, <2>4
    <3> QED BY <3>1, <3>2, <2>4, <2>6, <2>7
  <2>9. three \in Int /\ three >= Weight(E)
    <3>1. /\ Letters(From("forward", E, m)) \subseteq avail["forward"][m]
          /\ Letters(From("reverse", E, m)) \subseteq avail["reverse"][m]
      BY <1>2, <2>3 DEF AvailableCover, Places
    <3>2. Letters(E) \subseteq avail["forward"][m] \cup avail["reverse"][m]
      BY <3>1, <2>6, <2>7
    <3>3. avail["forward"][m] \cup avail["reverse"][m] \subseteq Present
      BY <1>2, <1>5, <2>4
    <3>4. Weight(E) <= three /\ three \in Nat
      BY <3>2, <3>3, <1>4 DEF Weight
    <3> QED BY <3>4, <2>4
  <2> HIDE DEF F, R
  <2>10. PICK t \in ActiveDom("forward", m) :
              up["forward"][t] >= Cardinality(F) /\ F \subseteq avail["forward"][t]
    BY <1>2, <2>3, SideCovers DEF F, Weight
  <2>11. PICK p \in ActiveDom("reverse", m) :
              /\ p = Sink("reverse") \/ \E G \in Better : p \in G
              /\ up["reverse"][p] >= Cardinality(R) /\ R \subseteq avail["reverse"][p]
    BY <1>2, <2>3, SideCovers DEF R, Weight
  <2>12. t \in Nodes /\ p \in Nodes /\ p \in dom["reverse"][m]
         /\ Distance("reverse")[p] < Distance("reverse")[m]
    BY <1>2, <2>4, ArcFacts
  <2>13. p \in A \cup {Root}
    <3>1. CASE p = Sink("reverse")
      BY <3>1, <1>2
    <3>2. CASE \E G \in Better : p \in G
      <4>1. p \notin T
        <5> HIDE DEF T
        <5> QED BY <2>1, <2>2, <2>12
      <4> QED BY <3>2, <4>1, <2>12
    <3> QED BY <3>1, <3>2, <2>11
  <2>14. <<t, p>> \in pairs
    BY <2>12, <2>13
  <2>15. IsFiniteSet(pairs)
    <3>1. IsFiniteSet(ActiveDom("forward", m)) /\ IsFiniteSet(dom["reverse"][m])
      BY <1>2, <2>4, ArcFacts
    <3>2. IsFiniteSet(dom["reverse"][m] \cap (A \cup {Root}))
      BY <3>1, FS_Subset
    <3> HIDE DEF A
    <3> QED BY <3>1, <3>2, FS_Product
  <2>16. \A x \in pairs : through(m, x[1], x[2]) \in Int
    <3> SUFFICES ASSUME NEW x1 \in ActiveDom("forward", m), NEW x2 \in dom["reverse"][m]
                 PROVE  through(m, x1, x2) \in Int
      BY Zenon
    <3> DEFINE a == Cardinality(avail["forward"][x1] \cup avail["reverse"][x2] \cup {CharacterOf(m)})
               b == up["forward"][x1] + up["reverse"][x2] + 1
    <3>1. x1 \in Nodes /\ x2 \in Nodes
      BY <1>2, <2>4, ArcFacts
    <3>2. avail["forward"][x1] \cup avail["reverse"][x2] \cup {CharacterOf(m)} \subseteq Present
      BY <3>1, <1>2, <1>5, <2>4
    <3>3. a \in Int
      BY <3>2, <1>3
    <3>4. b \in Int
      BY <3>1, <1>2, <1>5
    <3> HIDE DEF a, b
    <3>5. Min({a, b}) \in {a, b}
      BY <3>3, <3>4, MinOfTwo
    <3>6. Min({a, b}) \in Int
      BY <3>3, <3>4, <3>5
    <3> QED BY <3>6 DEF a, b
  <2>17. through(m, t, p) \in Int /\ through(m, t, p) >= Weight(E)
    <3> DEFINE a == Cardinality(avail["forward"][t] \cup avail["reverse"][p] \cup {CharacterOf(m)})
               b == up["forward"][t] + up["reverse"][p] + 1
    <3>1. a \in Int /\ a >= Weight(E)
      <4>1. avail["forward"][t] \cup avail["reverse"][p] \cup {CharacterOf(m)} \subseteq Present
        BY <1>2, <1>5, <2>4, <2>12
      <4>2. Letters(E) \subseteq avail["forward"][t] \cup avail["reverse"][p] \cup {CharacterOf(m)}
        BY <2>6, <2>10, <2>11
      <4>3. Weight(E) <= a /\ a \in Nat
        BY <4>1, <4>2, <1>4 DEF Weight
      <4> QED BY <4>3, <2>4
    <3>2. b \in Int /\ b >= Weight(E)
      <4>1. up["forward"][t] \in Nat /\ up["reverse"][p] \in Nat
        BY <1>2, <1>5, <2>12
      <4> QED BY <4>1, <2>4, <2>6, <2>7, <2>10, <2>11
    <3> HIDE DEF a, b
    <3>3. Min({a, b}) \in {a, b}
      BY <3>1, <3>2, MinOfTwo
    <3>4. Min({a, b}) \in Int /\ Min({a, b}) >= Weight(E)
      BY <3>1, <3>2, <3>3
    <3> QED BY <3>4 DEF a, b
  <2> HIDE DEF through, pairs
  <2>18. one \in Int /\ one >= Weight(E)
    <3> DEFINE k == [x \in pairs |-> through(m, x[1], x[2])]
    <3>1. Through = {k[x] : x \in pairs}
      OBVIOUS
    <3>2. IsFiniteSet(Through)
      <4> HIDE DEF k, Through
      <4> QED BY <3>1, <2>15, ImageFinite
    <3>3. Through \subseteq Int
      BY <2>16
    <3>4. through(m, t, p) \in Through
      BY <2>14
    <3>5. 0 \in Int
      OBVIOUS
    <3> HIDE DEF Through
    <3>6. one \in Int /\ \A x \in Through : x <= one
      BY <3>2, <3>3, <3>5, MaxOrFacts, Zenon
    <3>7. through(m, t, p) <= one
      BY <3>4, <3>6
    <3> HIDE DEF one
    <3> QED BY <3>6, <3>7, <2>17, <2>4
  <2> HIDE DEF one, two, three, A
  <2>19. Min({one, two, three}) \in {one, two, three}
    BY <2>8, <2>9, <2>18, MinOfThree
  <2>20. CombinedBound(m, A) > lower
    BY <2>4, <2>5, <2>8, <2>9, <2>18, <2>19
  <2>21. m \in RemainingActive
    BY <2>3, <2>4, <2>20, RemainingUnfold DEF A
  <2> QED BY <2>3, <2>21
<1> QED BY <1>1, <1>6


-----------------------------------------------------------------------------
(* The reduction of the arcs.                                              *)

(* An arc that a chain to be kept takes is not bad: the bounds and the     *)
(* characters of its two ends cover the chain.                             *)
LEMMA NextIsKept ==
    ASSUME GraphOK, BetterStayActive, BoundsCover, AvailableCover, pc = "reduce",
           NEW d \in Directions, NEW C \in Better, NEW m \in Places(d, C), NEW t, IsNext(d, C, m, t)
    PROVE  ~BadEdge(d, m, t) /\ IsActive(m)
<1> DEFINE o == Opposite(d)
           L == Letters(From(d, C, t))
           P == Letters(From(o, C, m))
<1>1. /\ strings \in Inputs /\ C \in Chains /\ C \subseteq Inner
      /\ Weight(C) > lower /\ Weight(C) \in Nat /\ lower \in Nat
  BY BetterFacts
<1>2. o \in Directions /\ Sink(o) = Source(d) /\ Source(d) \in {Root, Leaf}
  BY DirectionFacts
<1>3. t \in C /\ t \in active /\ t \in Nodes /\ m \in Nodes /\ t \in Places(d, C)
  BY <1>1, PlaceFacts DEF IsNext, BetterStayActive, Places, Nodes
<1>4. IsActive(t)
  BY <1>3 DEF IsActive
<1>5. IsActive(m)
  BY <1>2 DEF IsActive, BetterStayActive, Places
<1>6. up[o][m] \in Nat /\ up[d][t] \in Nat /\ avail[o][m] \subseteq Present /\ avail[d][t] \subseteq Present
  BY <1>2, <1>3 DEF GraphOK, BoundsOK
<1>7. up[d][t] >= Weight(From(d, C, t)) /\ L \subseteq avail[d][t]
  BY <1>3 DEF BoundsCover, AvailableCover
<1>8. From(d, C, t) \subseteq Inner /\ From(o, C, m) \subseteq Inner
  BY <1>1 DEF From
<1>9. Weight(From(d, C, t)) \in Nat /\ Weight(From(o, C, m)) \in Nat
  BY <1>1, <1>8, LettersFinite
<1>10. up[o][m] + up[d][t] >= Weight(C) /\ Letters(C) \subseteq avail[o][m] \cup avail[d][t]
  <2>1. CASE m \in C
    <3>1. up[o][m] >= Weight(From(o, C, m)) /\ P \subseteq avail[o][m]
      BY <1>2, <2>1 DEF BoundsCover, AvailableCover, Places
    <3>2. Letters(C) = P \cup L /\ Weight(C) <= Weight(From(o, C, m)) + Weight(From(d, C, t))
      BY <1>1, <2>1, SplitWeight
    <3>3. up[o][m] + up[d][t] >= Weight(C)
      BY <3>1, <3>2, <1>1, <1>6, <1>7, <1>9
    <3> QED BY <3>1, <3>2, <3>3, <1>7
  <2>2. CASE m \notin C
    <3>1. Letters(C) = L
      BY <1>1, <2>2, SplitWeight
    <3>2. Weight(C) = Weight(From(d, C, t))
      BY <3>1 DEF Weight
    <3> QED BY <3>1, <3>2, <1>1, <1>6, <1>7, <1>9
  <2> QED BY <2>1, <2>2
<1>11. Cardinality(avail[o][m] \cup avail[d][t]) >= Weight(C)
       /\ Cardinality(avail[o][m] \cup avail[d][t]) \in Nat
  <2>1. /\ avail[o][m] \cup avail[d][t] \in SUBSET Present
        /\ IsFiniteSet(avail[o][m] \cup avail[d][t])
        /\ Cardinality(avail[o][m] \cup avail[d][t]) \in Nat
    BY <1>1, <1>6, PresentFacts
  <2>2. Cardinality(Letters(C)) <= Cardinality(avail[o][m] \cup avail[d][t])
    BY <2>1, <1>10, FS_Subset
  <2> QED BY <2>1, <2>2, <1>1 DEF Weight
<1>12. up[o][m] + up[d][t] > lower
  BY <1>1, <1>6, <1>10
<1>13. Cardinality(avail[o][m] \cup avail[d][t]) > lower
  BY <1>1, <1>11
<1>14. ~(up[o][m] + up[d][t] <= lower) /\ ~(Cardinality(avail[o][m] \cup avail[d][t]) <= lower)
  BY <1>1, <1>6, <1>11, <1>12, <1>13
<1> QED BY <1>4, <1>5, <1>14 DEF BadEdge

-----------------------------------------------------------------------------
(* The steps.  What depends on the strings alone does not change.          *)

(* The matches, their arcs at the start and the chains depend on the       *)
(* strings alone.                                                          *)
LEMMA StringsUnchanged ==
    ASSUME strings' = strings
    PROVE  /\ Inner' = Inner /\ Nodes' = Nodes /\ Chains' = Chains /\ Present' = Present
           /\ \A d \in Directions : Source(d)' = Source(d) /\ Sink(d)' = Sink(d)
           /\ \A d \in Directions, m \in Nodes : SuccessorMatches(d, m)' = SuccessorMatches(d, m)
           /\ \A d \in Directions, C \in Chains : Places(d, C)' = Places(d, C)
           /\ \A X : Letters(X)' = Letters(X) /\ Weight(X)' = Weight(X)
<1>1. Inner' = Inner
  BY DEF Inner
<1>2. Root' = Root /\ Leaf' = Leaf
  BY DEF Root, Leaf
<1>3. Nodes' = Nodes
  BY <1>1, <1>2 DEF Nodes
<1>4. \A m : CharacterOf(m)' = CharacterOf(m)
  BY DEF CharacterOf
<1>5. \A X : Letters(X)' = Letters(X)
  BY <1>4 DEF Letters
<1>6. \A X : Weight(X)' = Weight(X)
  BY <1>5 DEF Weight
<1>7. Chains' = Chains
  BY <1>1, <1>4 DEF Chains
<1>8. \A d \in Directions : Source(d)' = Source(d) /\ Sink(d)' = Sink(d)
  BY <1>2 DEF Source, Sink
<1>9. \A d \in Directions, m \in Nodes : SuccessorMatches(d, m)' = SuccessorMatches(d, m)
  BY <1>1, <1>4 DEF SuccessorMatches
<1>10. \A d \in Directions, C \in Chains : Places(d, C)' = Places(d, C)
  BY <1>8 DEF Places
<1>11. Present' = Present
  BY DEF Present
<1> QED BY <1>1, <1>3, <1>5, <1>6, <1>7, <1>8, <1>9, <1>10, <1>11


(* A better lower bound leaves fewer chains to be kept.                    *)
LEMMA BetterShrinks ==
    ASSUME GraphOK, strings' = strings, lower' \in Nat, lower' >= lower
    PROVE  Better' \subseteq Better
<1>1. strings \in Inputs /\ opt = Max({Len(w) : w \in Solutions(strings)}) /\ lower \in 0..opt
  BY DEF GraphOK, ControlOK
<1>2. lower \in Nat
  BY <1>1, LongestSolution
<1>3. Chains' = Chains /\ \A X : Weight(X)' = Weight(X)
  BY StringsUnchanged
<1>4. \A C \in Chains : Weight(C) \in Nat
  <2>1. \A C \in Chains : C \subseteq Inner
    BY <1>1, ChainFacts DEF Directions
  <2> QED BY <1>1, <2>1, LettersFinite
<1>5. Better' = {C \in Chains : Weight(C) > lower'}
  BY <1>3 DEF Better
<1> QED BY <1>2, <1>4, <1>5 DEF Better

(* What is kept stays kept when the graph does not change, unless it is    *)
(* only now that the available characters are relied on.                   *)
LEMMA GraphUnchanged ==
    ASSUME IInv, UNCHANGED <<strings, graphVars, upper, opt>>,
           lower' \in Nat, lower' >= lower,
           pc' \in {"deactivate", "reduce"} => pc' = pc
    PROVE  /\ BoundsOK' /\ ArcsOK'
           /\ BetterStayActive' /\ BoundsCover' /\ AvailableCover' /\ ArcsStay' /\ UpperIsBound'
<1>1. /\ GraphOK /\ BetterStayActive /\ BoundsCover /\ ArcsStay /\ UpperIsBound
      /\ strings' = strings /\ active' = active /\ up' = up /\ avail' = avail
      /\ succ' = succ /\ dom' = dom /\ upper' = upper /\ opt' = opt
  BY DEF IInv, graphVars
<1>2. Better' \subseteq Better
  BY <1>1, BetterShrinks
<1>3. /\ Inner' = Inner /\ Nodes' = Nodes /\ Chains' = Chains /\ Present' = Present
      /\ \A d \in Directions : Source(d)' = Source(d) /\ Sink(d)' = Sink(d)
      /\ \A d \in Directions, m \in Nodes : SuccessorMatches(d, m)' = SuccessorMatches(d, m)
      /\ \A d \in Directions, C \in Chains : Places(d, C)' = Places(d, C)
      /\ \A X : Letters(X)' = Letters(X) /\ Weight(X)' = Weight(X)
  BY <1>1, StringsUnchanged
<1>4. BoundsOK'
  BY <1>1, <1>3 DEF BoundsOK, GraphOK
<1>5. ArcsOK'
  BY <1>1, <1>3 DEF ArcsOK, GraphOK
<1>6. BetterStayActive'
  BY <1>1, <1>2 DEF BetterStayActive
<1>7. BoundsCover'
  BY <1>1, <1>2, <1>3 DEF BoundsCover
<1>8. \A C \in Better : C \in Chains /\ \A d \in Directions : Places(d, C) \subseteq Nodes
  <2> SUFFICES ASSUME NEW C \in Better PROVE C \in Chains /\ \A d \in Directions : Places(d, C) \subseteq Nodes
    OBVIOUS
  <2> QED BY <1>1, BetterFacts, DirectionFacts DEF Places, Nodes
<1>9. AvailableCover'
  <2>1. AvailableCover
    BY DEF IInv
  <2> QED BY <1>1, <1>2, <1>3, <1>8, <2>1 DEF AvailableCover
<1>10. ArcsStay'
  BY <1>1, <1>2, <1>3, <1>8 DEF ArcsStay
<1>11. UpperIsBound'
  <2>1. lower \in Nat /\ opt \in Nat
    BY <1>1, LongestSolution DEF GraphOK, ControlOK
  <2> QED BY <1>1, <2>1 DEF UpperIsBound
<1> QED BY <1>4, <1>5, <1>6, <1>7, <1>9, <1>10, <1>11


(* The relaxation by the characters of S keeps the bounds valid.           *)
LEMMA RelaxKeeps ==
    ASSUME IInv, NEW S, S \subseteq Characters, Relax(S), pc \in {"relaxing", "selecting"},
           UNCHANGED <<strings, pc, lower, upper, active, succ, dom, opt>>
    PROVE  /\ BoundsOK' /\ ArcsOK'
           /\ BetterStayActive' /\ BoundsCover' /\ AvailableCover' /\ ArcsStay' /\ UpperIsBound'
           /\ still \in BOOLEAN /\ improving \in BOOLEAN => still' \in BOOLEAN /\ improving' \in BOOLEAN
<1>1. /\ GraphOK /\ BetterStayActive /\ BoundsCover /\ ArcsStay /\ UpperIsBound
      /\ strings' = strings /\ active' = active /\ lower' = lower
      /\ succ' = succ /\ dom' = dom /\ upper' = upper /\ opt' = opt
  BY DEF IInv
<1>2. /\ up' = [d \in Directions |-> RelaxedBounds(d, S)]
      /\ avail' = [d \in Directions |-> [m \in Nodes |->
                        IF m \in active THEN AvailableAfter(d)[m] ELSE avail[d][m]]]
      /\ still' = (still \/ Improves([d \in Directions |-> RelaxedBounds(d, S)]))
      /\ improving' = (improving \/ still')
  BY DEF Relax
<1>3. lower \in Nat
  BY <1>1, LongestSolution DEF GraphOK, ControlOK
<1>4. Better' \subseteq Better
  BY <1>1, <1>3, BetterShrinks
<1>5. /\ Inner' = Inner /\ Nodes' = Nodes /\ Chains' = Chains /\ Present' = Present
      /\ \A d \in Directions : Source(d)' = Source(d) /\ Sink(d)' = Sink(d)
      /\ \A d \in Directions, m \in Nodes : SuccessorMatches(d, m)' = SuccessorMatches(d, m)
      /\ \A d \in Directions, C \in Chains : Places(d, C)' = Places(d, C)
      /\ \A X : Letters(X)' = Letters(X) /\ Weight(X)' = Weight(X)
  BY <1>1, StringsUnchanged
<1>6. /\ strings \in Inputs /\ active \subseteq Inner
      /\ \A d \in Directions : Sink(d) \in Nodes /\ Sink(d) \notin active
  <2>1. strings \in Inputs /\ active \subseteq Inner
    BY <1>1 DEF GraphOK, ControlOK, ArcsOK
  <2>2. \A m \in active : m # Root /\ m # Leaf
    BY <2>1, InnerFacts
  <2> QED BY <2>1, <2>2, DirectionFacts
<1>7. BoundsOK'
  <2>1. up' \in [Directions -> [Nodes -> Nat]]
    BY <1>1, <1>2, RelaxedFacts
  <2>2. ASSUME NEW d \in Directions, NEW m \in Nodes
        PROVE  up'[d][m] <= Cardinality(Present) \/ up'[d][m] = Infinity
    <3>1. up'[d][m] = RelaxedBounds(d, S)[m]
      BY <1>2
    <3>2. up[d][m] <= Cardinality(Present) \/ up[d][m] = Infinity
      BY <1>1 DEF GraphOK, BoundsOK
    <3>3. /\ m \in active => RelaxedBounds(d, S)[m] <= Cardinality(Present)
          /\ m \notin active => RelaxedBounds(d, S)[m] = up[d][m]
      BY <1>1, RelaxedFacts
    <3> QED BY <3>1, <3>2, <3>3
  <2>3. \A d \in Directions : up'[d][Sink(d)] = 0
    BY <1>1, <1>2, <1>6, RelaxedFacts DEF GraphOK, BoundsOK
  <2>4. avail' \in [Directions -> [Nodes -> SUBSET Present]]
    <3>1. \A d \in Directions, m \in Nodes : avail[d][m] \in SUBSET Present
      BY <1>1 DEF GraphOK, BoundsOK
    <3>2. \A d \in Directions, m \in Nodes : AvailableAfter(d)[m] \in SUBSET Present
      BY <1>1, AvailableType
    <3> QED BY <1>2, <3>1, <3>2
  <2> QED BY <1>5, <2>1, <2>2, <2>3, <2>4 DEF BoundsOK
<1>8. ArcsOK'
  BY <1>1, <1>5 DEF ArcsOK, GraphOK
<1>9. BetterStayActive'
  BY <1>1, <1>4 DEF BetterStayActive
<1>10. BoundsCover'
  <2>1. \A C \in Better, d \in Directions : \A m \in C : up'[d][m] >= Weight(From(d, C, m))
    BY <1>1, <1>2, RelaxedFacts
  <2> QED BY <1>4, <1>5, <2>1 DEF BoundsCover
<1>11. AvailableCover'
  BY DEF AvailableCover
<1>12. ArcsStay'
  <2>1. \A C \in Better : C \in Chains /\ \A d \in Directions : Places(d, C) \subseteq Nodes
    <3> SUFFICES ASSUME NEW C \in Better PROVE C \in Chains /\ \A d \in Directions : Places(d, C) \subseteq Nodes
      OBVIOUS
    <3> QED BY <1>1, BetterFacts, DirectionFacts DEF Places, Nodes
  <2> QED BY <1>1, <1>4, <1>5, <2>1 DEF ArcsStay
<1>13. UpperIsBound'
  BY <1>1 DEF UpperIsBound
<1>14. still \in BOOLEAN /\ improving \in BOOLEAN => still' \in BOOLEAN /\ improving' \in BOOLEAN
  BY <1>2
<1> QED BY <1>7, <1>8, <1>9, <1>10, <1>11, <1>12, <1>13, <1>14

(* The simple bounds are valid too, and so is the bound of the instance    *)
(* that they imply; the characters are now available at every match.       *)
LEMMA CalculateKeeps ==
    ASSUME IInv, CalculateSimpleUpperBounds
    PROVE  /\ BoundsOK' /\ ArcsOK'
           /\ BetterStayActive' /\ BoundsCover' /\ AvailableCover' /\ ArcsStay' /\ UpperIsBound'
           /\ upper' \in 0..Sigma
<1> DEFINE new == [d \in Directions |-> SimpleBounds(d)]
<1>1. /\ GraphOK /\ BetterStayActive /\ BoundsCover /\ ArcsStay
      /\ strings' = strings /\ active' = active /\ lower' = lower
      /\ succ' = succ /\ dom' = dom /\ opt' = opt
      /\ up' = new /\ upper' = BoundOf(new)
      /\ avail' = [d \in Directions |-> AvailableAfter(d)]
  BY DEF IInv, CalculateSimpleUpperBounds
<1>2. lower \in Nat
  BY <1>1, LongestSolution DEF GraphOK, ControlOK
<1>3. Better' \subseteq Better
  BY <1>1, <1>2, BetterShrinks
<1>4. /\ Inner' = Inner /\ Nodes' = Nodes /\ Chains' = Chains /\ Present' = Present
      /\ \A d \in Directions : Source(d)' = Source(d) /\ Sink(d)' = Sink(d)
      /\ \A d \in Directions, m \in Nodes : SuccessorMatches(d, m)' = SuccessorMatches(d, m)
      /\ \A d \in Directions, C \in Chains : Places(d, C)' = Places(d, C)
      /\ \A X : Letters(X)' = Letters(X) /\ Weight(X)' = Weight(X)
  BY <1>1, StringsUnchanged
<1>5. \A C \in Better : C \in Chains /\ \A d \in Directions : Places(d, C) \subseteq Nodes
  <2> SUFFICES ASSUME NEW C \in Better PROVE C \in Chains /\ \A d \in Directions : Places(d, C) \subseteq Nodes
    OBVIOUS
  <2> QED BY <1>1, BetterFacts, DirectionFacts DEF Places, Nodes
<1>6. \A d \in Directions, C \in Better : \A m \in C : new[d][m] >= Weight(From(d, C, m))
  BY <1>1, SimpleCovers
<1>7. \A d \in Directions, m \in Nodes : new[d][m] \in Nat
  BY <1>1, SimpleFacts
<1>8. BoundsOK'
  <2>1. up' \in [Directions -> [Nodes -> Nat]]
    <3>1. \A d \in Directions : SimpleBounds(d) = [m \in Nodes |-> SimpleBounds(d)[m]]
      <4> TAKE d \in Directions
      <4> DEFINE f == SimpleBounds(d)
      <4>1. f = [m \in Nodes |->
                   IF m = Sink(d) \/ ~IsActive(m) THEN up[d][m]
                   ELSE Min({up[d][m], 1 + MaxOr(-1, {f[t] : t \in ActiveDom(d, m)}),
                             Cardinality(AvailableAfter(d)[m])})]
        BY <1>1, SimpleUnfold
      <4> HIDE DEF f
      <4>2. f = [m \in Nodes |-> f[m]]
        BY <4>1
      <4> QED BY <4>2 DEF f
    <3>2. \A d \in Directions : SimpleBounds(d) \in [Nodes -> Nat]
      BY <1>1, <3>1, SimpleFacts
    <3> QED BY <1>1, <3>2
  <2>2. \A d \in Directions, m \in Nodes : up'[d][m] <= Cardinality(Present) \/ up'[d][m] = Infinity
    BY <1>1, SimpleFacts DEF GraphOK, BoundsOK
  <2>3. \A d \in Directions : up'[d][Sink(d)] = 0
    BY <1>1, SimpleFacts, DirectionFacts DEF GraphOK, BoundsOK
  <2>4. avail' \in [Directions -> [Nodes -> SUBSET Present]]
    <3>1. \A d \in Directions : AvailableAfter(d) = [m \in Nodes |-> AvailableAfter(d)[m]]
      <4> TAKE d \in Directions
      <4> DEFINE f == AvailableAfter(d)
      <4>1. f = [m \in Nodes |->
                   IF m = Sink(d) \/ ~IsActive(m) THEN avail[d][m]
                   ELSE (IF m \in Inner THEN {CharacterOf(m)} ELSE avail[d][m])
                           \cup UNION {f[t] : t \in ActiveDom(d, m)}]
        BY <1>1, AvailableUnfold
      <4> HIDE DEF f
      <4>2. f = [m \in Nodes |-> f[m]]
        BY <4>1
      <4> QED BY <4>2 DEF f
    <3>2. \A d \in Directions, m \in Nodes : AvailableAfter(d)[m] \in SUBSET Present
      BY <1>1, AvailableType
    <3>3. \A d \in Directions : AvailableAfter(d) \in [Nodes -> SUBSET Present]
      BY <3>1, <3>2
    <3> QED BY <1>1, <3>3
  <2> QED BY <1>4, <2>1, <2>2, <2>3, <2>4 DEF BoundsOK
<1>9. ArcsOK'
  BY <1>1, <1>4 DEF ArcsOK, GraphOK
<1>10. BetterStayActive'
  BY <1>1, <1>3 DEF BetterStayActive
<1>11. BoundsCover'
  BY <1>1, <1>3, <1>4, <1>6 DEF BoundsCover
<1>12. AvailableCover'
  <2>1. \A C \in Better, d \in Directions : \A m \in Places(d, C) :
           Letters(From(d, C, m)) \subseteq avail'[d][m]
    BY <1>1, AvailableCovers
  <2> QED BY <1>3, <1>4, <1>5, <2>1 DEF AvailableCover
<1>13. ArcsStay'
  BY <1>1, <1>3, <1>4, <1>5 DEF ArcsStay
<1>14. UpperIsBound'
  <2>1. lower < opt => BoundOf(new) >= opt
    <3> HIDE DEF new
    <3> QED BY <1>1, <1>6, <1>7, BoundCovers
  <2> QED BY <1>1, <2>1 DEF UpperIsBound
<1>15. upper' \in 0..Sigma
  BY <1>1, BoundType
<1> QED BY <1>8, <1>9, <1>10, <1>11, <1>12, <1>13, <1>14, <1>15


(* The matches that remain include those of every chain to be kept.        *)
LEMMA DeactivateKeeps ==
    ASSUME IInv, DeactivateMatches
    PROVE  /\ BoundsOK' /\ ArcsOK'
           /\ BetterStayActive' /\ BoundsCover' /\ AvailableCover' /\ ArcsStay' /\ UpperIsBound'
<1>1. /\ GraphOK /\ BetterStayActive /\ BoundsCover /\ AvailableCover /\ ArcsStay /\ UpperIsBound
      /\ pc = "deactivate" /\ active' = RemainingActive
      /\ strings' = strings /\ lower' = lower /\ upper' = upper /\ up' = up /\ avail' = avail
      /\ succ' = succ /\ dom' = dom /\ opt' = opt
  BY DEF IInv, DeactivateMatches
<1>2. lower \in Nat
  BY <1>1, LongestSolution DEF GraphOK, ControlOK
<1>3. Better' \subseteq Better
  BY <1>1, <1>2, BetterShrinks
<1>4. /\ Inner' = Inner /\ Nodes' = Nodes /\ Chains' = Chains /\ Present' = Present
      /\ \A d \in Directions : Source(d)' = Source(d) /\ Sink(d)' = Sink(d)
      /\ \A d \in Directions, m \in Nodes : SuccessorMatches(d, m)' = SuccessorMatches(d, m)
      /\ \A d \in Directions, C \in Chains : Places(d, C)' = Places(d, C)
      /\ \A X : Letters(X)' = Letters(X) /\ Weight(X)' = Weight(X)
  BY <1>1, StringsUnchanged
<1>5. \A C \in Better : C \in Chains /\ \A d \in Directions : Places(d, C) \subseteq Nodes
  <2> SUFFICES ASSUME NEW C \in Better PROVE C \in Chains /\ \A d \in Directions : Places(d, C) \subseteq Nodes
    OBVIOUS
  <2> QED BY <1>1, BetterFacts, DirectionFacts DEF Places, Nodes
<1>6. BoundsOK'
  BY <1>1, <1>4 DEF BoundsOK, GraphOK
<1>7. ArcsOK'
  <2>1. active' \subseteq Inner
    BY <1>1, RemainingUnfold DEF GraphOK, ArcsOK
  <2> QED BY <1>1, <1>4, <2>1 DEF ArcsOK, GraphOK
<1>8. BetterStayActive'
  <2>1. \A C \in Better : C \subseteq RemainingActive
    BY <1>1, RemainingCovers
  <2> QED BY <1>1, <1>3, <2>1 DEF BetterStayActive
<1>9. BoundsCover'
  BY <1>1, <1>3, <1>4 DEF BoundsCover
<1>10. AvailableCover'
  BY <1>1, <1>3, <1>4, <1>5 DEF AvailableCover
<1>11. ArcsStay'
  BY <1>1, <1>3, <1>4, <1>5 DEF ArcsStay
<1>12. UpperIsBound'
  BY <1>1 DEF UpperIsBound
<1> QED BY <1>6, <1>7, <1>8, <1>9, <1>10, <1>11, <1>12

(* The arcs that are erased are on the way of no chain to be kept, and an  *)
(* arc to the end is erased only where a match follows.                    *)
LEMMA ReduceKeeps ==
    ASSUME IInv, ReduceGraph
    PROVE  /\ BoundsOK' /\ ArcsOK'
           /\ BetterStayActive' /\ BoundsCover' /\ AvailableCover' /\ ArcsStay' /\ UpperIsBound'
<1>1. /\ GraphOK /\ BetterStayActive /\ BoundsCover /\ AvailableCover /\ ArcsStay /\ UpperIsBound
      /\ pc = "reduce" /\ active' = active
      /\ strings' = strings /\ lower' = lower /\ upper' = upper /\ up' = up /\ avail' = avail
      /\ opt' = opt /\ ArcsOK /\ BoundsOK
  BY DEF IInv, ReduceGraph, GraphOK
<1>2. /\ succ' = [d \in Directions |-> [m \in DOMAIN succ[d] |->
                     IF IsActive(m) THEN KeptSuccessors(d, m) ELSE succ[d][m]]]
      /\ dom' = [d \in Directions |-> [m \in DOMAIN dom[d] |->
                     IF IsActive(m) THEN KeptDominating(d, m) ELSE dom[d][m]]]
      /\ pc' \notin {"deactivate", "reduce"}
  BY DEF ReduceGraph, Enter
<1>3. lower \in Nat
  BY <1>1, LongestSolution DEF GraphOK, ControlOK
<1>4. Better' \subseteq Better
  BY <1>1, <1>3, BetterShrinks
<1>5. /\ Inner' = Inner /\ Nodes' = Nodes /\ Chains' = Chains /\ Present' = Present
      /\ \A d \in Directions : Source(d)' = Source(d) /\ Sink(d)' = Sink(d)
      /\ \A d \in Directions, m \in Nodes : SuccessorMatches(d, m)' = SuccessorMatches(d, m)
      /\ \A d \in Directions, C \in Chains : Places(d, C)' = Places(d, C)
      /\ \A X : Letters(X)' = Letters(X) /\ Weight(X)' = Weight(X)
  BY <1>1, StringsUnchanged
<1>6. /\ \A C \in Better : C \in Chains
      /\ \A C \in Better, d \in Directions : \A m \in Places(d, C) : m \in Nodes \ {Sink(d)}
  <2>1. strings \in Inputs /\ \A C \in Better : C \in Chains
    BY <1>1, BetterFacts DEF GraphOK, ControlOK
  <2> QED BY <2>1, PlaceFacts
<1>7. \A d \in Directions : \A m \in Nodes \ {Sink(d)} :
         /\ succ'[d][m] = IF IsActive(m) THEN KeptSuccessors(d, m) ELSE succ[d][m]
         /\ dom'[d][m] = IF IsActive(m) THEN KeptDominating(d, m) ELSE dom[d][m]
  BY <1>1, <1>2 DEF ArcsOK
<1>8. ArcsOK'
  <2>1. /\ DOMAIN succ' = Directions /\ DOMAIN dom' = Directions
        /\ \A d \in Directions : /\ DOMAIN succ'[d] = Nodes \ {Sink(d)}
                                 /\ DOMAIN dom'[d] = Nodes \ {Sink(d)}
    BY <1>1, <1>2 DEF ArcsOK
  <2>2. ASSUME NEW d \in Directions, NEW m \in Nodes \ {Sink(d)}
        PROVE  /\ succ'[d][m] \subseteq SuccessorMatches(d, m)
               /\ dom'[d][m] \subseteq SuccessorMatches(d, m) \cup {Sink(d)}
               /\ SuccessorMatches(d, m) = {} => dom'[d][m] = {Sink(d)}
    <3>1. /\ succ[d][m] \subseteq SuccessorMatches(d, m)
          /\ dom[d][m] \subseteq SuccessorMatches(d, m) \cup {Sink(d)}
          /\ SuccessorMatches(d, m) = {} => dom[d][m] = {Sink(d)}
      BY <1>1 DEF ArcsOK
    <3>2. KeptSuccessors(d, m) \subseteq succ[d][m]
      BY DEF KeptSuccessors
    <3>3. KeptDominating(d, m) \subseteq dom[d][m] \cup {Sink(d)}
      BY DEF KeptDominating, OrSink
    <3>4. dom[d][m] = {Sink(d)} => KeptDominating(d, m) = {Sink(d)}
      BY DEF KeptDominating, OrSink
    <3> QED BY <1>7, <3>1, <3>2, <3>3, <3>4
  <2>3. active' \subseteq Inner
    BY <1>1 DEF ArcsOK
  <2> QED BY <1>5, <2>1, <2>2, <2>3 DEF ArcsOK
<1>9. BoundsOK'
  BY <1>1, <1>5 DEF BoundsOK
<1>10. BetterStayActive'
  BY <1>1, <1>4 DEF BetterStayActive
<1>11. BoundsCover'
  BY <1>1, <1>4, <1>5 DEF BoundsCover
<1>12. AvailableCover'
  BY <1>2 DEF AvailableCover
<1>13. ArcsStay'
  <2>1. ASSUME NEW C \in Better, NEW d \in Directions, NEW m \in Places(d, C),
               NEW t \in SuccessorMatches(d, m), IsNext(d, C, m, t)
        PROVE  /\ t \in succ'[d][m]
               /\ t \in Dominating(d, SuccessorMatches(d, m)) => t \in dom'[d][m]
    <3>1. t \in succ[d][m] /\ (t \in Dominating(d, SuccessorMatches(d, m)) => t \in dom[d][m])
      BY <1>1, <2>1 DEF ArcsStay
    <3>2. ~BadEdge(d, m, t) /\ IsActive(m)
      BY <1>1, <2>1, NextIsKept
    <3>3. m \in Nodes \ {Sink(d)}
      BY <1>6
    <3>4. t \in KeptSuccessors(d, m)
      BY <3>1, <3>2 DEF KeptSuccessors
    <3>5. t \in dom[d][m] => t \in KeptDominating(d, m)
      BY <3>2 DEF KeptDominating, OrSink
    <3> QED BY <1>7, <3>1, <3>2, <3>3, <3>4, <3>5
  <2> QED BY <1>4, <1>5, <1>6, <2>1 DEF ArcsStay
<1>14. UpperIsBound'
  BY <1>1 DEF UpperIsBound
<1> QED BY <1>8, <1>9, <1>10, <1>11, <1>12, <1>13, <1>14


-----------------------------------------------------------------------------
(* The theorems.                                                           *)

(* The invariant holds initially: all matches are active and no bound has  *)
(* been computed.                                                          *)
LEMMA Initially == Init => IInv
<1> SUFFICES ASSUME Init PROVE IInv
  OBVIOUS
<1>1. /\ strings \in Inputs /\ pc = "heuristic" /\ presolving = FALSE /\ lower = 0 /\ upper = Sigma
      /\ active = Inner /\ improving = FALSE /\ char = 0 /\ still = FALSE /\ repetitions = {}
      /\ up = [d \in Directions |-> [m \in Nodes |-> IF m = Sink(d) THEN 0 ELSE Infinity]]
      /\ avail = [d \in Directions |-> [m \in Nodes |-> {}]]
      /\ succ = [d \in Directions |-> [m \in Nodes \ {Sink(d)} |-> SuccessorMatches(d, m)]]
      /\ dom = [d \in Directions |-> [m \in Nodes \ {Sink(d)} |->
                                       OrSink(d, Dominating(d, SuccessorMatches(d, m)))]]
      /\ opt = Max({Len(w) : w \in Solutions(strings)})
  BY DEF Init
<1>2. Sigma \in Nat \ {0} /\ Sigma <= Infinity /\ Infinity \in Nat
  BY CharactersFinite
<1>3. opt \in 0..Sigma
  BY <1>1, LongestSolution
<1>4. ControlOK
  <2>1. presolving \in BOOLEAN /\ improving \in BOOLEAN /\ still \in BOOLEAN
    BY <1>1
  <2>2. 0 \in 0..opt /\ Sigma \in 0..Sigma /\ 0 \in 0..Sigma
    BY <1>2, <1>3
  <2>3. lower \in 0..opt /\ upper \in 0..Sigma /\ char \in 0..Sigma
    BY <1>1, <2>2
  <2>4. /\ repetitions \subseteq Characters
        /\ pc \in {"heuristic", "relax", "relaxing", "selecting", "bounds", "deactivate", "reduce", "done"}
    BY <1>1
  <2> QED BY <1>1, <2>1, <2>3, <2>4 DEF ControlOK
<1>5. BoundsOK
  <2>1. up \in [Directions -> [Nodes -> Nat]]
    BY <1>1, <1>2
  <2>2. \A d \in Directions, m \in Nodes : up[d][m] = 0 \/ up[d][m] = Infinity
    BY <1>1
  <2>3. Cardinality(Present) \in Nat
    BY <1>1, PresentFacts
  <2>4. \A d \in Directions, m \in Nodes : up[d][m] <= Cardinality(Present) \/ up[d][m] = Infinity
    BY <2>2, <2>3
  <2>5. \A d \in Directions : up[d][Sink(d)] = 0
    BY <1>1, DirectionFacts
  <2>6. avail \in [Directions -> [Nodes -> SUBSET Present]]
    BY <1>1
  <2> QED BY <2>1, <2>4, <2>5, <2>6 DEF BoundsOK
<1>6. ArcsOK
  <2>1. \A d \in Directions : \A m \in Nodes \ {Sink(d)} :
           /\ succ[d][m] = SuccessorMatches(d, m)
           /\ dom[d][m] = OrSink(d, Dominating(d, SuccessorMatches(d, m)))
    BY <1>1
  <2>2. \A d, S : /\ OrSink(d, Dominating(d, S)) \subseteq S \cup {Sink(d)}
                  /\ S = {} => OrSink(d, Dominating(d, S)) = {Sink(d)}
    BY DEF OrSink, Dominating
  <2>3. /\ DOMAIN succ = Directions /\ DOMAIN dom = Directions
        /\ \A d \in Directions : DOMAIN succ[d] = Nodes \ {Sink(d)} /\ DOMAIN dom[d] = Nodes \ {Sink(d)}
    BY <1>1
  <2> QED BY <1>1, <2>1, <2>2, <2>3 DEF ArcsOK
<1>7. GraphOK
  BY <1>4, <1>5, <1>6 DEF GraphOK
<1>8. BetterStayActive
  BY <1>1, <1>7, BetterFacts DEF BetterStayActive
<1>9. BoundsCover
  <2> SUFFICES ASSUME NEW C \in Better, NEW d \in Directions, NEW m \in C
               PROVE  up[d][m] >= Weight(From(d, C, m))
    BY DEF BoundsCover
  <2>1. C \subseteq Inner /\ C \in Chains
    BY <1>7, BetterFacts
  <2>2. Weight(From(d, C, m)) \in Nat /\ Weight(From(d, C, m)) <= Sigma
    <3>1. From(d, C, m) \subseteq Inner
      BY <2>1 DEF From
    <3> QED BY <3>1, <1>1, LettersFinite
  <2>3. m \in Nodes /\ m # Sink(d)
    BY <1>1, <2>1, PlaceFacts DEF Places
  <2>4. up[d][m] = Infinity
    BY <1>1, <2>3
  <2> QED BY <1>2, <2>2, <2>4
<1>10. AvailableCover
  BY <1>1 DEF AvailableCover
<1>11. ArcsStay
  <2> SUFFICES ASSUME NEW C \in Better, NEW d \in Directions, NEW m \in Places(d, C),
                      NEW t \in SuccessorMatches(d, m)
               PROVE  /\ t \in succ[d][m]
                      /\ t \in Dominating(d, SuccessorMatches(d, m)) => t \in dom[d][m]
    BY DEF ArcsStay
  <2>1. m \in Nodes \ {Sink(d)}
    BY <1>1, <1>7, BetterFacts, PlaceFacts
  <2> QED BY <1>1, <2>1 DEF OrSink
<1>12. UpperIsBound
  BY <1>1, <1>2, <1>3 DEF UpperIsBound
<1> QED BY <1>7, <1>8, <1>9, <1>10, <1>11, <1>12 DEF IInv

(* What a step has to show of the control variables.                       *)
LEMMA ControlStep ==
    ASSUME IInv, strings' = strings, opt' = opt, lower' \in 0..opt, upper' \in 0..Sigma,
           char' \in 0..Sigma, repetitions' \subseteq Characters,
           presolving' \in BOOLEAN, improving' \in BOOLEAN, still' \in BOOLEAN,
           pc' \in {"heuristic", "relax", "relaxing", "selecting", "bounds", "deactivate", "reduce", "done"}
    PROVE  ControlOK'
  BY DEF IInv, GraphOK, ControlOK

(* Every step keeps the invariant.                                         *)
LEMMA EveryStep == IInv /\ [Next]_vars => IInv'
<1> SUFFICES ASSUME IInv, [Next]_vars PROVE IInv'
  OBVIOUS
<1> DEFINE PCs == {"heuristic", "relax", "relaxing", "selecting", "bounds", "deactivate", "reduce", "done"}
           Keeps == /\ BoundsOK' /\ ArcsOK' /\ BetterStayActive' /\ BoundsCover'
                    /\ AvailableCover' /\ ArcsStay' /\ UpperIsBound'
<1>1. /\ strings \in Inputs /\ opt = Max({Len(w) : w \in Solutions(strings)})
      /\ pc \in PCs /\ lower \in 0..opt /\ upper \in 0..Sigma /\ char \in 0..Sigma
      /\ repetitions \subseteq Characters
      /\ presolving \in BOOLEAN /\ improving \in BOOLEAN /\ still \in BOOLEAN
  BY DEF IInv, GraphOK, ControlOK
<1>2. Sigma \in Nat \ {0} /\ opt \in Nat /\ lower \in Nat
  BY <1>1, CharactersFinite, LongestSolution
<1>3. 0 \in 0..Sigma /\ \A c \in Characters : c + 1 \in 0..Sigma
  BY <1>2 DEF Characters
<1>4. \A ps : Enter(ps) \in {"done", "heuristic", "relax", "bounds"}
  BY DEF Enter
<1> HIDE DEF Keeps
<1>5. Keeps /\ ControlOK' => IInv'
  BY DEF Keeps, IInv, GraphOK
<1>6. CASE HeuristicImproves
  <2>1. /\ lower' \in 0..opt /\ lower' >= lower /\ lower' \in Nat
        /\ UNCHANGED <<strings, graphVars, upper, opt, char, repetitions, still, presolving>>
        /\ improving' = FALSE /\ pc' \in {"done", "heuristic", "relax", "bounds"}
    <3>1. PICK l \in (lower + 1)..opt : lower' = l
      BY <1>6 DEF HeuristicImproves
    <3>2. lower' \in 0..opt /\ lower' >= lower /\ lower' \in Nat
      BY <1>2, <3>1
    <3> QED BY <1>4, <1>6, <3>2 DEF HeuristicImproves, relaxVars
  <2>2. Keeps
    BY <2>1, GraphUnchanged DEF Keeps
  <2>3. ControlOK'
    BY <1>1, <2>1, ControlStep
  <2> QED BY <1>5, <2>2, <2>3
<1>7. CASE HeuristicStops
  <2>1. /\ UNCHANGED <<strings, lower, graphVars, upper, opt, char, repetitions, still>>
        /\ presolving' = TRUE /\ improving' = FALSE /\ pc' \in {"done", "heuristic", "relax", "bounds"}
    BY <1>4, <1>7 DEF HeuristicStops, relaxVars
  <2>2. Keeps
    BY <1>2, <2>1, GraphUnchanged DEF Keeps
  <2>3. ControlOK'
    BY <1>1, <2>1, ControlStep
  <2> QED BY <1>5, <2>2, <2>3
<1>8. CASE StartRelaxation
  <2>1. /\ UNCHANGED <<strings, lower, graphVars, upper, opt, presolving, improving>>
        /\ char' = 0 /\ repetitions' \subseteq Characters /\ still' = FALSE /\ pc' = "relaxing"
    BY <1>8 DEF StartRelaxation
  <2>2. Keeps
    BY <1>2, <2>1, GraphUnchanged DEF Keeps
  <2>3. ControlOK'
    BY <1>1, <1>3, <2>1, ControlStep
  <2> QED BY <1>5, <2>2, <2>3
<1>9. CASE RelaxCharacter
  <2>1. /\ Relax({char}) /\ char \in Characters /\ pc \in {"relaxing", "selecting"}
        /\ UNCHANGED <<strings, pc, lower, upper, active, succ, dom, opt, presolving, repetitions>>
        /\ char' \in 0..Sigma
    BY <1>1, <1>3, <1>9 DEF RelaxCharacter
  <2>2. Keeps /\ still' \in BOOLEAN /\ improving' \in BOOLEAN
    BY <1>1, <2>1, RelaxKeeps DEF Keeps
  <2>3. ControlOK'
    BY <1>1, <2>1, <2>2, ControlStep
  <2> QED BY <1>5, <2>2, <2>3
<1>10. CASE SkipCharacter
  <2>1. /\ UNCHANGED <<strings, pc, lower, graphVars, upper, opt, presolving, improving, still, repetitions>>
        /\ pc = "relaxing" /\ char' \in 0..Sigma
    BY <1>3, <1>10 DEF SkipCharacter
  <2>2. Keeps
    BY <1>2, <2>1, GraphUnchanged DEF Keeps
  <2>3. ControlOK'
    BY <1>1, <2>1, ControlStep
  <2> QED BY <1>5, <2>2, <2>3
<1>11. CASE EndRelaxationRound
  <2>1. /\ UNCHANGED <<strings, lower, graphVars, upper, opt, presolving, improving, repetitions>>
        /\ pc' \in {"relaxing", "selecting"} /\ char' = 0 /\ still' = FALSE
    BY <1>11 DEF EndRelaxationRound
  <2>2. Keeps
    BY <1>2, <2>1, GraphUnchanged DEF Keeps
  <2>3. ControlOK'
    BY <1>1, <1>3, <2>1, ControlStep
  <2> QED BY <1>5, <2>2, <2>3
<1>12. CASE RelaxSelected
  <2>1. PICK S \in SUBSET repetitions : Relax(S)
    BY <1>12 DEF RelaxSelected
  <2>2. /\ pc \in {"relaxing", "selecting"} /\ S \subseteq Characters
        /\ UNCHANGED <<strings, pc, lower, upper, active, succ, dom, opt, presolving, repetitions, char>>
    BY <1>1, <1>12 DEF RelaxSelected
  <2>3. Keeps /\ still' \in BOOLEAN /\ improving' \in BOOLEAN
    BY <1>1, <2>1, <2>2, RelaxKeeps DEF Keeps
  <2>4. ControlOK'
    BY <1>1, <2>2, <2>3, ControlStep
  <2> QED BY <1>5, <2>3, <2>4
<1>13. CASE EndRelaxation
  <2>1. /\ UNCHANGED <<strings, lower, graphVars, upper, opt, presolving, improving, char, repetitions>>
        /\ pc' = "bounds" /\ still' = FALSE
    BY <1>13 DEF EndRelaxation
  <2>2. Keeps
    BY <1>2, <2>1, GraphUnchanged DEF Keeps
  <2>3. ControlOK'
    BY <1>1, <2>1, ControlStep
  <2> QED BY <1>5, <2>2, <2>3
<1>14. CASE CalculateSimpleUpperBounds
  <2>1. /\ UNCHANGED <<strings, lower, opt, presolving, char, repetitions, still>>
        /\ pc' = "deactivate" /\ improving' \in BOOLEAN
    BY <1>1, <1>14 DEF CalculateSimpleUpperBounds, relaxVars
  <2>2. Keeps /\ upper' \in 0..Sigma
    BY <1>14, CalculateKeeps DEF Keeps
  <2>3. ControlOK'
    BY <1>1, <2>1, <2>2, ControlStep
  <2> QED BY <1>5, <2>2, <2>3
<1>15. CASE DeactivateMatches
  <2>1. /\ UNCHANGED <<strings, lower, upper, opt, presolving, char, repetitions, still>>
        /\ pc' = "reduce" /\ improving' \in BOOLEAN
    BY <1>1, <1>15 DEF DeactivateMatches, relaxVars
  <2>2. Keeps
    BY <1>15, DeactivateKeeps DEF Keeps
  <2>3. ControlOK'
    BY <1>1, <2>1, ControlStep
  <2> QED BY <1>5, <2>2, <2>3
<1>16. CASE ReduceGraph
  <2>1. /\ UNCHANGED <<strings, lower, upper, opt, presolving, char, repetitions, still>>
        /\ pc' \in {"done", "heuristic", "relax", "bounds"} /\ improving' = FALSE
    BY <1>4, <1>16 DEF ReduceGraph, relaxVars
  <2>2. Keeps
    BY <1>16, ReduceKeeps DEF Keeps
  <2>3. ControlOK'
    BY <1>1, <2>1, ControlStep
  <2> QED BY <1>5, <2>2, <2>3
<1>17. CASE UNCHANGED vars
  <2>1. UNCHANGED <<strings, pc, lower, upper, graphVars, opt, presolving, improving, char,
                    repetitions, still>>
    BY <1>17 DEF vars, relaxVars
  <2>2. Keeps
    BY <1>2, <2>1, GraphUnchanged DEF Keeps
  <2>3. ControlOK'
    BY <1>1, <2>1, ControlStep
  <2> QED BY <1>5, <2>2, <2>3
<1> QED BY <1>6, <1>7, <1>8, <1>9, <1>10, <1>11, <1>12, <1>13, <1>14, <1>15, <1>16, <1>17 DEF Next


(* IInv is invariant: no chain that exceeds the lower bound loses a match  *)
(* or an arc, and the bounds cover it, whatever the steps come to.         *)
THEOREM Invariance == Spec => []IInv
<1>1. Init => IInv
  BY Initially
<1>2. IInv /\ [Next]_vars => IInv'
  BY EveryStep
<1> QED BY <1>1, <1>2, PTL DEF Spec

(* Every variable keeps its type; a bound that has been computed is at     *)
(* most the number of characters that occur (graph_creation.cpp,           *)
(* simple_upper_bounds.cpp).                                               *)
THEOREM TypeCorrect == Spec => []TypeOK
<1>1. IInv => TypeOK
  <2> SUFFICES ASSUME IInv PROVE TypeOK
    OBVIOUS
  <2>1. /\ strings \in Inputs /\ opt = Max({Len(w) : w \in Solutions(strings)})
        /\ lower \in 0..opt /\ upper \in 0..Sigma /\ char \in 0..Sigma
        /\ pc \in {"heuristic", "relax", "relaxing", "selecting", "bounds", "deactivate", "reduce", "done"}
        /\ presolving \in BOOLEAN /\ improving \in BOOLEAN /\ still \in BOOLEAN
    BY DEF IInv, GraphOK, ControlOK
  <2>2. lower \in 0..Sigma
    <3>1. opt \in 0..Sigma /\ lower \in 0..opt
      BY <2>1, LongestSolution
    <3>2. Sigma \in Nat
      BY CharactersFinite
    <3> QED BY <3>1, <3>2
  <2>3. active \subseteq Inner
    BY DEF IInv, GraphOK, ArcsOK
  <2>4. Cardinality(Present) \in Nat
    BY <2>1, PresentFacts
  <2>5. ASSUME NEW d \in Directions, NEW m \in Nodes
        PROVE  up[d][m] \in 0..Cardinality(Present) \cup {Infinity} /\ avail[d][m] \subseteq Present
    <3>1. /\ up[d][m] \in Nat /\ avail[d][m] \subseteq Present
          /\ up[d][m] <= Cardinality(Present) \/ up[d][m] = Infinity
      BY DEF IInv, GraphOK, BoundsOK
    <3> QED BY <2>4, <3>1
  <2> QED BY <2>1, <2>2, <2>3, <2>5 DEF TypeOK, Present
<1> QED BY <1>1, Invariance, PTL

(* The upper bound of the instance is at least the length of every         *)
(* repetition-free common subsequence, until the lower bound has reached   *)
(* the longest (set_simple_upper_bounds, DynamicSharedVariables).          *)
THEOREM UpperBoundIsValid == Spec => []UpperIsBound
<1>1. IInv => UpperIsBound
  BY DEF IInv
<1> QED BY <1>1, Invariance, PTL

(* No reduction deactivates a match or erases an arc of a solution longer  *)
(* than the lower bound, in either of the two graphs (deactivate_matches,  *)
(* reduce_graph).                                                          *)
THEOREM ReductionsAreSafe == Spec => []NoBetterSolutionIsLost
<1>1. IInv => NoBetterSolutionIsLost
  <2> SUFFICES ASSUME IInv, NEW w \in Solutions(strings), Len(w) > lower, NEW d \in Directions,
                      NEW i \in 1..Len(w)
               PROVE  /\ Passes(d, w)[i] \in active
                      /\ Passes(d, w)[i] \in succ[d][Passes(d, w)[i - 1]]
    BY DEF NoBetterSolutionIsLost
  <2>1. strings \in Inputs
    BY DEF IInv, GraphOK, ControlOK
  <2> DEFINE C == PathChain(d, w)
             f == Passes(d, w)
  <2>2. /\ C \in Better /\ f[i] \in C /\ f[i - 1] \in Places(d, C)
        /\ IsNext(d, C, f[i - 1], f[i])
        /\ f[i] \in SuccessorMatches(d, f[i - 1])
    BY <2>1, SolutionChain DEF Better
  <2> HIDE DEF C, f
  <2>3. f[i] \in active /\ f[i] \in succ[d][f[i - 1]]
    BY <2>2 DEF IInv, BetterStayActive, ArcsStay
  <2> QED BY <2>3 DEF f
<1> QED BY <1>1, Invariance, PTL

(* The upper bound of a match covers what a solution longer than the lower *)
(* bound still has ahead of it (set_simple_upper_bounds,                   *)
(* set_rf_relaxed_upper_bounds).                                           *)
THEOREM MatchBoundsAreValid == Spec => []MatchBoundsHold
<1>1. IInv => MatchBoundsHold
  <2> SUFFICES ASSUME IInv, NEW w \in Solutions(strings), Len(w) > lower, NEW d \in Directions,
                      NEW i \in 1..Len(w)
               PROVE  up[d][Passes(d, w)[i]] >= Len(w) - i + 1
    BY DEF MatchBoundsHold
  <2>1. strings \in Inputs
    BY DEF IInv, GraphOK, ControlOK
  <2> DEFINE C == PathChain(d, w)
             f == Passes(d, w)
  <2>2. C \in Better /\ f[i] \in C /\ Weight(From(d, C, f[i])) = Len(w) - i + 1
    BY <2>1, SolutionChain DEF Better
  <2> HIDE DEF C, f
  <2>3. up[d][f[i]] >= Weight(From(d, C, f[i]))
    BY <2>2 DEF IInv, BoundsCover
  <2> QED BY <2>2, <2>3 DEF f
<1> QED BY <1>1, Invariance, PTL
================================================================================
