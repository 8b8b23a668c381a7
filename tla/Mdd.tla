---------------------------------- MODULE Mdd ----------------------------------
(***************************************************************************)
(* The multivalued decision diagram as a data structure: how it is built   *)
(* from the match graph (initial_mdd.cpp), what a node learns from its     *)
(* relatives (mdd_node.hpp), what the filter drops (mdd_filter.cpp) and    *)
(* how a level is split on a character (mdd_refinement.cpp).  MddReduction *)
(* says when each of these happens.                                        *)
(*                                                                         *)
(* A node is <<depth, match, copies>>, where copies are the characters on  *)
(* which it was split off another node of that match: this names it        *)
(* uniquely within its MDD.  The nodes of a level read only the levels     *)
(* beside it, so that a loop over them is one operator.                    *)
(***************************************************************************)
EXTENDS GraphReduction

DepthOf(n) == n[1]
MatchOf(n) == n[2]
Letter(n) == CharacterOf(MatchOf(n))

RootNode(d) == <<0, Source(d), {}>>

Preds(M, n) == {a[1] : a \in {b \in M.arcs : b[2] = n}}
Succs(M, n) == {a[2] : a \in {b \in M.arcs : b[1] = n}}

(* position_1 or position_2 of a match, counted in direction d.            *)
Position(d, m, i) == IF d = "forward" THEN m[i] ELSE Leaf[i] - m[i]

Nearer(d, s, t) == Position(d, s, 1) < Position(d, t, 1) /\ Position(d, s, 2) < Position(d, t, 2)

NoMdd == [side |-> "forward", levels |-> <<>>, arcs |-> {}, facts |-> <<>>]

-----------------------------------------------------------------------------
(* create_initial_mdd.                                                     *)

EnoughCharactersAvailable(depth, P, S) ==
    LET overlap == Max({0, depth - Cardinality(P \ S)})
    IN  Cardinality(S) - overlap > lower - depth

(* dominated_by_some_available_but_unused_character: more characters than  *)
(* a path of this depth can have used come before it.                      *)
Dominated(d, S, depth) ==
    depth > 0 /\ Cardinality({Position(d, s, 2) : s \in S}) >= depth

(* The matches a node for m on this depth gets arcs to.  Inactive matches  *)
(* get none, but they dominate.                                            *)
LinkedMatches(d, depth, m) ==
    LET taken == avail[Opposite(d)][m]
        own == IF m \in Inner THEN {CharacterOf(m)} ELSE {}
        candidates ==
            {s \in succ[d][m] \cap Inner :
                /\ depth + 1 <= up[Opposite(d)][s]
                /\ CharacterOf(s) \in avail[d][m] \ own
                /\ depth + 1 + up[d][s] > lower
                /\ EnoughCharactersAvailable(depth + 1, taken, avail[d][s])}
        passes[s \in candidates] ==
            LET before == {t \in candidates : Nearer(d, t, s) /\ passes[t]}
            IN  /\ \A t \in before : CharacterOf(t) \in taken
                /\ ~Dominated(d, before, depth)
    IN  {s \in candidates : passes[s] /\ s \in active}

NewFacts(d, m) ==
    [toRoot |-> avail[Opposite(d)][m] \cup {CharacterOf(m)}, allRoot |-> {CharacterOf(m)},
     sink |-> avail[d][m] \ {CharacterOf(m)}, allSink |-> {}, ub |-> up[d][m],
     needPred |-> TRUE, needSucc |-> TRUE, active |-> TRUE]

(* A root that comes from the cache of cleared nodes has no updates        *)
(* pending, a new one has.                                                 *)
RootFacts(d, fresh) ==
    [toRoot |-> {}, allRoot |-> {}, sink |-> avail[d][Source(d)], allSink |-> {}, ub |-> upper,
     needPred |-> fresh, needSucc |-> fresh, active |-> TRUE]

InitialMdd(d, fresh) ==
    LET matches[k \in 0..upper] ==
          IF k = 0 THEN {Source(d)}
          ELSE UNION {LinkedMatches(d, k - 1, m) : m \in matches[k - 1]}
        depths == {k \in 0..upper : matches[k] # {}}
        nodes(k) == {<<k, m, {}>> : m \in matches[k]}
        links(n) == {<<n, <<DepthOf(n) + 1, s, {}>>>> : s \in LinkedMatches(d, DepthOf(n), MatchOf(n))}
        inner == UNION {nodes(k) : k \in depths \ {0}}
    IN  [side |-> d,
         levels |-> [i \in 1..Cardinality(depths) |-> nodes(i - 1)],
         arcs |-> UNION {links(n) : n \in UNION {nodes(k) : k \in depths \ {upper}}},
         facts |-> [n \in inner \cup {RootNode(d)} |->
                       IF n \in inner THEN NewFacts(d, MatchOf(n)) ELSE RootFacts(d, fresh)]]

(* copy_mdd: nothing is pending in a copy.                                 *)
CopyOf(M) ==
    [M EXCEPT !.facts = [n \in DOMAIN M.facts |->
        [M.facts[n] EXCEPT !.needPred = FALSE, !.needSucc = FALSE, !.active = TRUE]]]

-----------------------------------------------------------------------------
(* The end of nodes and arcs.  Those at the other end of a lost arc have   *)
(* to update.                                                              *)
Flagged(facts, fromSucc, fromPred) ==
    [n \in DOMAIN facts |-> [facts[n] EXCEPT !.needSucc = @ \/ n \in fromSucc,
                                             !.needPred = @ \/ n \in fromPred]]

DetachedNodes(M, gone, cut) ==   \* mutant: the arcs of the nodes stay
    LET left == [n \in DOMAIN M.facts \ gone |-> M.facts[n]]
    IN  [M EXCEPT !.levels = [i \in DOMAIN @ |-> M.levels[i] \ gone],
                  !.arcs = @ \ cut,
                  !.facts = Flagged(left, {a[1] : a \in cut}, {a[2] : a \in cut})]

Detached(M, gone, cut) ==
    LET lost == cut \cup {a \in M.arcs : a[1] \in gone \/ a[2] \in gone}
        left == [n \in DOMAIN M.facts \ gone |-> M.facts[n]]
    IN  [M EXCEPT !.levels = [i \in DOMAIN @ |-> M.levels[i] \ gone],
                  !.arcs = @ \ lost,
                  !.facts = Flagged(left, {a[1] : a \in lost}, {a[2] : a \in lost})]

(* prune_by_flat_mdd: the nodes and arcs whose flags are still set.        *)
PrunedByFlat(M, flat) ==
    LET matches(k) == IF k < Len(flat) THEN flat[k + 1].matches ELSE {}
        gone == {n \in DOMAIN M.facts : MatchOf(n) \notin matches(DepthOf(n))}
        cut == {a \in M.arcs : a[1] \notin gone
                                 => <<MatchOf(a[1]), MatchOf(a[2])>> \notin flat[DepthOf(a[1]) + 1].arcs}
    IN  Detached(M, gone, cut)

-----------------------------------------------------------------------------
(* What a node learns.                                                     *)

CommonToSome(S) == UNION S   \* mutant

Common(S) == {c \in UNION S : \A X \in S : c \in X}

UpdatedFromPreds(M, n) ==
    LET f == M.facts[n]
        toRoot == (f.toRoot \cap UNION {M.facts[p].toRoot : p \in Preds(M, n)}) \cup {Letter(n)}
        allRoot == IF Cardinality(toRoot) = DepthOf(n) THEN toRoot
                   ELSE Common({M.facts[p].allRoot : p \in Preds(M, n)}) \cup {Letter(n)}
    IN  [f EXCEPT !.toRoot = toRoot, !.allRoot = allRoot, !.sink = @ \ allRoot, !.needPred = FALSE]

(* Only the characters up to the level behind the lower bound are known to *)
(* be on all paths.                                                        *)
UpdatedFromSuccsAnyDepth(M, n) ==   \* mutant: beyond that level, too
    LET f == M.facts[n]
        sink == f.sink \cap UNION {M.facts[s].sink \cup {Letter(s)} : s \in Succs(M, n)}
        longest == MaxOr(0, {M.facts[s].ub : s \in Succs(M, n)})
    IN  [f EXCEPT !.sink = sink,
                  !.allSink = Common({M.facts[s].allSink \cup {Letter(s)} : s \in Succs(M, n)}),
                  !.ub = Min({@, longest + 1, Cardinality(sink)}), !.needSucc = FALSE]

UpdatedFromSuccs(M, n) ==
    LET f == M.facts[n]
        counted(s) == IF DepthOf(n) \in 1..lower THEN {Letter(s)} ELSE {}
        sink == f.sink \cap UNION {M.facts[s].sink \cup {Letter(s)} : s \in Succs(M, n)}
        longest == MaxOr(0, {M.facts[s].ub : s \in Succs(M, n)})
    IN  [f EXCEPT !.sink = sink,
                  !.allSink = Common({M.facts[s].allSink \cup counted(s) : s \in Succs(M, n)}),
                  !.ub = Min({@, longest + 1, Cardinality(sink)}), !.needSucc = FALSE]

-----------------------------------------------------------------------------
(* What the filter drops.                                                  *)

(* filter_succ_edges_of_node: the successors of n that stay, if f is what  *)
(* n knows.                                                                *)
KeptSuccs(M, n, f) ==
    LET behind(s) == M.facts[s].sink \cup {Letter(s)}
        allowed == {s \in Succs(M, n) :
            /\ Letter(s) \in f.sink \ f.allRoot
            /\ DepthOf(n) + 1 + M.facts[s].ub > lower
            /\ Cardinality(f.toRoot \cup behind(s)) > lower
            /\ DepthOf(n) + Cardinality(behind(s) \ f.allRoot) > lower
            /\ f.allRoot \cap M.facts[s].allSink = {}}
        kept[s \in allowed] ==
            LET before == {t \in allowed : Nearer(M.side, MatchOf(t), MatchOf(s)) /\ kept[t]}
            IN  /\ \A t \in before : Letter(t) \in f.toRoot
                /\ ~Dominated(M.side, {MatchOf(t) : t \in before},
                              DepthOf(n) - Cardinality(f.allRoot) + 1)
    IN  {s \in allowed : kept[s]}

(* prune_node_from_level.                                                  *)
Prunable(M, n, f) ==
    \/ Preds(M, n) = {}
    \/ DepthOf(n) + f.ub <= lower
    \/ Cardinality(f.toRoot \cup f.sink) <= lower
    \/ f.allRoot \cap f.allSink # {}

(* One level is visited: its nodes have come to know new, the arcs out of  *)
(* some are filtered, nodes that had updates pending are pruned, and with  *)
(* them those that were inactive already (clear_level).                    *)
Visited(M, i, new, filtered) ==
    LET nodes == M.levels[i]
        cut == UNION {{<<n, s>> : s \in Succs(M, n) \ KeptSuccs(M, n, new[n])} : n \in filtered}
        pruned == {n \in nodes : /\ i > 1
                                 /\ M.facts[n].needPred \/ M.facts[n].needSucc
                                 /\ Prunable(M, n, new[n])}
        gone == IF pruned = {} THEN {} ELSE pruned \cup {n \in nodes : ~M.facts[n].active}
        shorter == {n \in nodes : new[n].ub # M.facts[n].ub}
        below == shorter \cup {n \in nodes : new[n].sink # M.facts[n].sink
                                               \/ new[n].allSink # M.facts[n].allSink}
        above == shorter \cup {n \in nodes : new[n].toRoot # M.facts[n].toRoot
                                               \/ new[n].allRoot # M.facts[n].allRoot}
        facts == Flagged([n \in DOMAIN M.facts |-> IF n \in nodes THEN new[n] ELSE M.facts[n]],
                         UNION {Preds(M, n) : n \in below}, UNION {Succs(M, n) : n \in above})
    IN  [mdd |-> Detached([M EXCEPT !.facts = facts], gone, cut),
         changed |-> below \cup above \cup pruned # {} \/ cut # {}]

(* The visit on the way down, on the way up, and that of the root.  On the *)
(* way down arcs are filtered where something is new.                      *)
DownVisit(M, i) ==
    LET updating == {n \in M.levels[i] : M.facts[n].needPred /\ Preds(M, n) # {}}
        new == [n \in M.levels[i] |->
                   IF n \in updating THEN UpdatedFromPreds(M, n) ELSE M.facts[n]]
        learnt == {n \in updating : [M.facts[n] EXCEPT !.needPred = FALSE] # new[n]}
    IN  Visited(M, i, new, learnt)

UpVisit(M, i) ==
    LET updating == {n \in M.levels[i] : M.facts[n].needSucc}
    IN  Visited(M, i, [n \in M.levels[i] |->
                          IF n \in updating THEN UpdatedFromSuccs(M, n) ELSE M.facts[n]],
                updating)

(* The end of a round: empty levels vanish, and those beyond the bound u   *)
(* are cut off.  Picked keeps the elements of s at the indices kept.       *)
Nth(kept, k) == CHOOSE i \in kept : Cardinality({j \in kept : j < i}) = k - 1

Picked(s, kept) == [k \in 1..Cardinality(kept) |-> s[Nth(kept, k)]]

NonEmpty(levels) == Picked(levels, {i \in DOMAIN levels : levels[i] # {}})

BoundBy(M) == Min({upper, Len(NonEmpty(M.levels)) - 1, M.facts[RootNode(M.side)].ub})

CutOneMore(M, u) ==   \* mutant: one level more is taken off
    LET levels == NonEmpty(M.levels)
        gone == UNION {levels[i] : i \in (u + 2)..Len(levels)}
    IN  [Detached(M, gone, {}) EXCEPT !.levels = SubSeq(levels, 1, u)]

CutOff(M, u) ==
    LET levels == NonEmpty(M.levels)
        gone == UNION {levels[i] : i \in (u + 2)..Len(levels)}
    IN  [Detached(M, gone, {}) EXCEPT !.levels = SubSeq(levels, 1, u + 1)]

-----------------------------------------------------------------------------
(* split_node on the character c, for all nodes of a level.                *)

SplitWhereCertain(M, i, c) == {n \in M.levels[i] : c \in M.facts[n].allRoot \cap M.facts[n].sink}   \* mutant

SplitNodes(M, i, c) == {n \in M.levels[i] : c \in M.facts[n].toRoot \cap M.facts[n].sink}

NoMaybe(n, c) == <<n[1], n[2], n[3] \cup {c}>>

(* The predecessors that go to the copy: not every path to them has c.     *)
MovedPreds(M, n, c) == {p \in Preds(M, n) : c \notin M.facts[p].allRoot}

LostSuccs(M, n, c) == {s \in Succs(M, n) : c \in M.facts[s].allSink \/ Letter(s) = c}

(* The nodes that are deactivated, and the arcs they should lose.  As the  *)
(* loops of deactivate erase from what they iterate over, they skip arcs:  *)
(* of k in either direction (k-1) \div 2 are left.                         *)
Deactivated(M, i, c) ==
    {n \in SplitNodes(M, i, c) :
        \/ Preds(M, n) \ MovedPreds(M, n, c) = {}
        \/ Succs(M, n) \ LostSuccs(M, n, c) = {} /\ DepthOf(n) <= lower
        \/ Cardinality(M.facts[n].allRoot \cup {c}) > DepthOf(n)}

LeftIn(M, n, c) == {<<p, n>> : p \in Preds(M, n) \ MovedPreds(M, n, c)}
LeftOut(M, n, c) == {<<n, s>> : s \in Succs(M, n) \ LostSuccs(M, n, c)}

SkippedArcs(M, i, c) ==
    LET dead == Deactivated(M, i, c)
        arcs == UNION {LeftIn(M, n, c) \cup LeftOut(M, n, c) : n \in dead}
    IN  {A \in SUBSET arcs : \A n \in dead : \A X \in {LeftIn(M, n, c), LeftOut(M, n, c)} :
            Cardinality(A \cap X) = IF X = {} THEN 0 ELSE (Cardinality(X) - 1) \div 2}

(* The level with c split, the arcs of skipped having survived.            *)
SplitLevel(M, i, c, skipped) ==
    LET split == SplitNodes(M, i, c)
        dead == Deactivated(M, i, c)
        useful == {n \in split : /\ MovedPreds(M, n, c) # {}
                                 /\ Succs(M, n) # {} \/ DepthOf(n) > lower}
        cut == UNION {{<<p, n>> : p \in MovedPreds(M, n, c)}
                        \cup {<<n, s>> : s \in LostSuccs(M, n, c)} : n \in split}
        freed == UNION {LeftIn(M, n, c) \cup LeftOut(M, n, c) : n \in dead} \ skipped
        added == UNION {{<<p, NoMaybe(n, c)>> : p \in MovedPreds(M, n, c)}
                          \cup {<<NoMaybe(n, c), s>> : s \in Succs(M, n)} : n \in useful}
        copies == {NoMaybe(n, c) : n \in useful}
        original(n) == CHOOSE o \in useful : NoMaybe(o, c) = n
        facts == [n \in DOMAIN M.facts \cup copies |->
            IF n \in copies
            THEN [M.facts[original(n)] EXCEPT !.toRoot = @ \ {c}, !.allRoot = @ \ {c}, !.active = TRUE,
                                              !.needPred = TRUE, !.needSucc = TRUE]
            ELSE IF n \in split
            THEN [M.facts[n] EXCEPT !.sink = @ \ {c}, !.allRoot = @ \cup {c}, !.active = @ /\ n \notin dead,
                                    !.needPred = TRUE, !.needSucc = TRUE]
            ELSE M.facts[n]]
    IN  [M EXCEPT !.levels[i] = @ \cup copies,
                  !.arcs = (@ \ (cut \cup freed)) \cup added,
                  !.facts = Flagged(facts, UNION {Preds(M, n) : n \in split},
                                           UNION {Succs(M, n) : n \in split})]

-----------------------------------------------------------------------------
(* chaining_numbers: how often each character can be on a path.  A node of *)
(* the last level counts itself once more.                                 *)
ChainingNumbers(M) ==
    LET count[n \in DOMAIN M.facts] ==
          IF n \in M.levels[Len(M.levels)]
          THEN [c \in Characters |-> IF c = Letter(n) THEN 1 ELSE 0]
          ELSE [c \in Characters |->
                  MaxOr(0, {count[s][c] + (IF c = Letter(s) THEN 1 ELSE 0) : s \in Succs(M, n)})]
    IN  count[RootNode(M.side)]

(* The repetition-free paths of k arcs from the root.                      *)
FreePaths(M) ==
    LET paths[k \in 0..Sigma] ==
          IF k = 0 THEN {<<RootNode(M.side)>>}
          ELSE UNION {{Append(q, s) : s \in {t \in Succs(M, q[k]) :
                                               \A i \in 2..k : Letter(q[i]) # Letter(t)}} :
                         q \in paths[k - 1]}
    IN  paths
=============================================================================
