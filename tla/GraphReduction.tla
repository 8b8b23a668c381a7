---------------------------- MODULE GraphReduction ----------------------------
(***************************************************************************)
(* The match graph and its reduction: graph_creation.cpp builds it, and as *)
(* often as something improves, upper bounds are computed for its matches  *)
(* (rf_subset_lcs_relaxation.cpp, simple_upper_bounds.cpp), matches are    *)
(* deactivated (match_deactivation.cpp) and arcs erased (reduce_graph.cpp).*)
(* The heuristic enters as what it promises: better and better lower       *)
(* bounds.  Orchestration assumes of all this only that it keeps the upper *)
(* bound valid; this module says why.                                      *)
(*                                                                         *)
(* A match is a pair of positions, counted from 1.  The program keeps two  *)
(* graphs, the second one for the reversed strings; the match at the same  *)
(* place in it is called "reversed".  Here they are the two directions of  *)
(* one graph between <<0, 0>> and the pair behind both ends.               *)
(***************************************************************************)
EXTENDS Integers, Sequences, FiniteSets, FiniteSetsExt

CONSTANTS
    Sigma,      \* alphabet_size
    Inputs      \* the pairs of strings that may be given

Infinity == 2147483647   \* INT_MAX; alphabet_size is an int

ASSUME GraphReductionAssumption == Sigma \in 1..Infinity

Characters == 0..(Sigma - 1)

ASSUME InputAssumption ==
    \A input \in Inputs : /\ input[1] \in Seq(Characters) /\ input[1] # <<>>
                          /\ input[2] \in Seq(Characters) /\ input[2] # <<>>

VARIABLES
    strings,    \* string_1 and string_2
    pc,         \* what is called next
    presolving, \* reduce_graph_pre_solver runs, the heuristic is over
    lower,      \* lower_bound
    upper,      \* upper_bound
    active,     \* the matches with is_active
    up,         \* upper_bound of each match, in both directions
    avail,      \* available_characters of each match
    succ,       \* succ_matches of each match
    dom,        \* dom_succ_matches of each match
    improving,  \* is_improving
    char,       \* the character the relaxation is at
    selecting,  \* number_of_selected_characters
    still,      \* still_improving of the relaxation
    repetitions,\* the characters that can occur more than once on a path
    opt         \* the length of a longest solution

graphVars == <<active, up, avail, succ, dom>>
relaxVars == <<char, selecting, still, repetitions>>
vars == <<strings, pc, presolving, lower, upper, graphVars, improving, relaxVars, opt>>

-----------------------------------------------------------------------------
(* The reference: what a repetition-free common subsequence is.            *)

(* The longest prefix of w that is a subsequence of the first j of s.      *)
IsSubsequence(w, s) ==
    LET prefix[j \in 0..Len(s)] ==
          IF j = 0 THEN 0
          ELSE LET k == prefix[j - 1]
               IN  IF k < Len(w) /\ w[k + 1] = s[j] THEN k + 1 ELSE k
    IN  prefix[Len(s)] = Len(w)

IsCommon(w, input) == IsSubsequence(w, input[1]) /\ IsSubsequence(w, input[2])

(* Built up character by character: what a solution begins with is one.    *)
Solutions(input) ==
    LET words[k \in 0..Sigma] ==
          IF k = 0 THEN {<<>>}
          ELSE {w \in {Append(v, input[1][p]) : v \in words[k - 1], p \in DOMAIN input[1]} :
                   (\A i \in 1..(k - 1) : w[i] # w[k]) /\ IsCommon(w, input)}
    IN  UNION {words[k] : k \in 0..Sigma}

-----------------------------------------------------------------------------
(* The two directions of the graph.                                        *)

Directions == {"forward", "reverse"}
Opposite(d) == IF d = "forward" THEN "reverse" ELSE "forward"

Root == <<0, 0>>
Leaf == <<Len(strings[1]) + 1, Len(strings[2]) + 1>>
Source(d) == IF d = "forward" THEN Root ELSE Leaf
Sink(d) == Source(Opposite(d))

Inner == {m \in (DOMAIN strings[1]) \X (DOMAIN strings[2]) :
             strings[1][m[1]] = strings[2][m[2]]}
Nodes == Inner \cup {Root, Leaf}
CharacterOf(m) == strings[1][m[1]]

Ahead(d, p, q) == IF d = "forward" THEN p < q ELSE p > q

(* create_next_occurrences: the positions of c nearest to p, if any.       *)
NextOccurrences(d, s, p, c) ==
    LET later == {q \in DOMAIN s : s[q] = c /\ Ahead(d, p, q)}
    IN  {q \in later : \A r \in later : ~Ahead(d, r, q)}

(* set_successor_matches: the nearest match of each other character ...    *)
SuccessorMatches(d, m) ==
    UNION {NextOccurrences(d, strings[1], m[1], c) \X NextOccurrences(d, strings[2], m[2], c) :
              c \in Characters \ (IF m \in Inner THEN {CharacterOf(m)} ELSE {})}

(* ... of which the dominating ones have none before them in both strings. *)
FirstSuccessor(d, S) ==   \* mutant: only the nearest one in string_1
    {t \in S : \A s \in S : ~Ahead(d, s[1], t[1])}

Dominating(d, S) ==
    {t \in S : ~\E s \in S : Ahead(d, s[1], t[1]) /\ Ahead(d, s[2], t[2])}

OrNothing(d, S) == S   \* mutant: the end is not pushed

OrSink(d, S) == IF S = {} THEN {Sink(d)} ELSE S

Init ==
    /\ strings \in Inputs
    /\ pc = "heuristic"
    /\ presolving = FALSE
    /\ lower = 0
    /\ upper = Sigma
    /\ active = Inner
    /\ up = [d \in Directions |-> [m \in Nodes |-> IF m = Sink(d) THEN 0 ELSE Infinity]]
    /\ avail = [d \in Directions |-> [m \in Nodes |-> {}]]
    /\ succ = [d \in Directions |-> [m \in Nodes \ {Sink(d)} |-> SuccessorMatches(d, m)]]
    /\ dom = [d \in Directions |-> [m \in Nodes \ {Sink(d)} |->
                                       OrSink(d, Dominating(d, SuccessorMatches(d, m)))]]
    /\ improving = FALSE
    /\ char = 0 /\ selecting = 1
    /\ still = FALSE
    /\ repetitions = {}
    /\ opt = Max({Len(w) : w \in Solutions(strings)})

IsActive(m) == m \in active \cup {Root, Leaf}

ActiveDom(d, m) == {t \in dom[d][m] : IsActive(t)}

MaxOr(default, S) == Max(S \cup {default})

-----------------------------------------------------------------------------
(* The bounds of the matches.                                              *)

(* The characters on the paths behind each match.  What the source has     *)
(* once is never taken away from it.                                       *)
AvailableAfter(d) ==
    LET f[m \in Nodes] ==
          IF m = Sink(d) \/ ~IsActive(m) THEN avail[d][m]
          ELSE (IF m \in Inner THEN {CharacterOf(m)} ELSE avail[d][m])
                  \cup UNION {f[t] : t \in ActiveDom(d, m)}
    IN  f

(* set_simple_upper_bounds.                                                *)
PathBounds(d) ==   \* mutant: the number of characters is no bound
    LET f[m \in Nodes] ==
          IF m = Sink(d) \/ ~IsActive(m) THEN up[d][m]
          ELSE Min({up[d][m], 1 + MaxOr(-1, {f[t] : t \in ActiveDom(d, m)})})
    IN  f

SimpleBounds(d) ==
    LET available == AvailableAfter(d)
        f[m \in Nodes] ==
          IF m = Sink(d) \/ ~IsActive(m) THEN up[d][m]
          ELSE Min({up[d][m], 1 + MaxOr(-1, {f[t] : t \in ActiveDom(d, m)}),
                    Cardinality(available[m])})
    IN  f

(* set_rf_relaxed_upper_bounds for a set S of characters: for each subset  *)
(* X of it, the longest path on which each character of X counts once and  *)
(* the others of S do not count.                                           *)
StepDecrementsFirst(step, X, c) ==   \* mutant: c is taken off too early
    IF c \in X THEN Max({step[X \ {c}], step[X]}) - 1 ELSE step[X] - 1

Counted(step, X, c) ==
    IF c \in X THEN Max({step[X \ {c}], step[X] - 1}) ELSE step[X] - 1

RelaxedBounds(d, S) ==
    LET available == AvailableAfter(d)
        f[m \in Nodes] ==
          IF m = Sink(d) THEN [X \in SUBSET S |-> IF X = {} THEN 0 ELSE -Infinity]
          ELSE LET behind == {f[t] : t \in ActiveDom(d, m)}
                   step == [X \in SUBSET S |-> 1 + MaxOr(0, {g[X] : g \in behind})]
               IN  [X \in SUBSET S |->
                      Min({up[d][m], IF CharacterOf(m) \in S THEN Counted(step, X, CharacterOf(m))
                                                              ELSE step[X]})]
    IN  [m \in Nodes |-> IF m \in active
                         THEN Min({Max({f[m][X] : X \in SUBSET S}), Cardinality(available[m])})
                         ELSE up[d][m]]

ImprovesOrNot(new) == \E d \in Directions, m \in Nodes : new[d][m] <= up[d][m]   \* mutant

Improves(new) == \E d \in Directions, m \in Nodes : new[d][m] < up[d][m]

(* The bound of the instance is the worse of the two roots' successors.    *)
BoundOf(new) ==
    LET best(d) == MaxOr(0, {new[d][t] : t \in ActiveDom(d, Source(d))})
    IN  Min({best("forward"), best("reverse")})

-----------------------------------------------------------------------------
(* The deactivation of matches.                                            *)

(* combined_upper_bound of m, when only the matches of A are left before it*)
CombinedBound(m, A) ==
    LET pairs == ActiveDom("forward", m) \X (dom["reverse"][m] \cap (A \cup {Root}))
        through(t, p) ==
            Min({Cardinality(avail["forward"][t] \cup avail["reverse"][p] \cup {CharacterOf(m)}),
                 up["forward"][t] + up["reverse"][p] + 1})
    IN  Min({MaxOr(0, {through(x[1], x[2]) : x \in pairs}),
             up["forward"][m] + up["reverse"][m] - 1,
             Cardinality(avail["forward"][m] \cup avail["reverse"][m])})

(* The loop goes from the root to the leaf, so that it has decided about   *)
(* the matches before m when it comes to m, and about none of those behind.*)
RemainingActive ==
    LET stays[m \in Inner] ==
          m \in active /\ CombinedBound(m, {p \in dom["reverse"][m] \cap Inner : stays[p]}) > lower
    IN  {m \in Inner : stays[m]}

-----------------------------------------------------------------------------
(* The reduction of the arcs.  An arc is bad if nothing longer than the    *)
(* lower bound can lead over it.                                           *)
BadEdgeOffByOne(d, m, t) ==   \* mutant: the bounds counted as if they overlapped
    \/ ~IsActive(t)
    \/ up[Opposite(d)][m] + up[d][t] - 1 <= lower
    \/ Cardinality(avail[Opposite(d)][m] \cup avail[d][t]) <= lower

BadEdge(d, m, t) ==
    \/ ~IsActive(t)
    \/ up[Opposite(d)][m] + up[d][t] <= lower
    \/ Cardinality(avail[Opposite(d)][m] \cup avail[d][t]) <= lower

KeptSuccessors(d, m) == {t \in succ[d][m] : ~BadEdge(d, m, t)}
KeptDominating(d, m) == OrSink(d, {t \in dom[d][m] : t = Sink(d) \/ ~BadEdge(d, m, t)})

-----------------------------------------------------------------------------
(* The steps of reduce_graph_while_heuristic and reduce_graph_pre_solver.  *)

(* The first thing in the loop; what follows depends on who has called.    *)
Enter(ps) == IF lower' >= upper THEN IF ps THEN "done" ELSE "heuristic"
             ELSE IF ps THEN "relax" ELSE "bounds"

(* The heuristic finds a longer solution, but only while the gap is open.  *)
HeuristicImproves ==
    /\ pc = "heuristic" /\ lower < upper
    /\ \E l \in (lower + 1)..opt : lower' = l
    /\ improving' = FALSE
    /\ pc' = Enter(FALSE)
    /\ UNCHANGED <<strings, presolving, upper, graphVars, relaxVars, opt>>

HeuristicStops ==
    /\ pc = "heuristic"
    /\ UNCHANGED lower
    /\ presolving' = TRUE
    /\ improving' = FALSE
    /\ pc' = Enter(TRUE)
    /\ UNCHANGED <<strings, upper, graphVars, relaxVars, opt>>

(* get_single_character_repetitions: the characters that occur twice on a  *)
(* path of dominating active matches.                                      *)
OnSomePath(m) ==
    LET f[t \in Nodes] == IF t = Leaf THEN {}
                          ELSE UNION {{s} \cup f[s] : s \in ActiveDom("forward", t) \ {Leaf}}
    IN  f[m]

StartRelaxation ==
    /\ pc = "relax"
    /\ repetitions' = {c \in Characters : \E m \in OnSomePath(Root) :
                          CharacterOf(m) = c /\ \E t \in OnSomePath(m) : CharacterOf(t) = c}
    /\ char' = 0 /\ selecting' = 1
    /\ still' = FALSE
    /\ pc' = "relaxing"
    /\ UNCHANGED <<strings, presolving, lower, upper, graphVars, improving, opt>>

(* The bounds are relaxed by the characters of S, in both directions.      *)
Relax(S) ==
    LET new == [d \in Directions |-> RelaxedBounds(d, S)]
    IN  /\ up' = new
        /\ avail' = [d \in Directions |-> [m \in Nodes |->
                        IF m \in active THEN AvailableAfter(d)[m] ELSE avail[d][m]]]
        /\ still' = (still \/ Improves(new))
        /\ improving' = (improving \/ still')

RelaxCharacter ==
    /\ pc = "relaxing" /\ char \in repetitions
    /\ Relax({char})
    /\ char' = char + 1
    /\ UNCHANGED <<strings, pc, presolving, lower, upper, active, succ, dom, selecting, repetitions, opt>>

SkipCharacter ==
    /\ pc = "relaxing" /\ char \in Characters \ repetitions
    /\ char' = char + 1
    /\ UNCHANGED <<strings, pc, presolving, lower, upper, graphVars, improving, still,
                   selecting, repetitions, opt>>

(* The relaxation goes round until a whole round improves nothing ...      *)
EndRelaxationRound ==
    /\ pc = "relaxing" /\ char = Sigma
    /\ IF still THEN UNCHANGED <<pc, selecting>> ELSE selecting' = 2 /\ pc' = "selecting"
    /\ char' = 0
    /\ still' = FALSE
    /\ UNCHANGED <<strings, presolving, lower, upper, graphVars, improving, repetitions, opt>>

(* ... and then does the same with two characters at once, and more if the *)
(* alphabet has sixteen: fewer than its logarithm.  The scores by which    *)
(* they are chosen among those that repeat are not modelled.               *)
SelectsMore == selecting < Sigma /\ 2^(selecting + 1) <= Sigma

RelaxSelected ==
    /\ pc = "selecting" /\ SelectsMore
    /\ \E S \in SUBSET repetitions :
          /\ Cardinality(S) = Min({selecting, Cardinality(repetitions)})
          /\ LET new == [d \in Directions |-> RelaxedBounds(d, S)]
             IN  selecting' = IF Improves(new) THEN selecting ELSE selecting + 1
          /\ Relax(S)
    /\ UNCHANGED <<strings, pc, presolving, lower, upper, active, succ, dom, char, repetitions, opt>>

EndRelaxation ==
    /\ pc = "selecting" /\ ~SelectsMore
    /\ pc' = "bounds"
    /\ still' = FALSE
    /\ UNCHANGED <<strings, presolving, lower, upper, graphVars, improving, char, selecting,
                   repetitions, opt>>

CalculateSimpleUpperBounds ==
    /\ pc = "bounds"
    /\ LET new == [d \in Directions |-> SimpleBounds(d)]
       IN  /\ up' = new
           /\ avail' = [d \in Directions |-> AvailableAfter(d)]
           /\ upper' = BoundOf(new)
           /\ improving' = (improving \/ Improves(new))
    /\ pc' = "deactivate"
    /\ UNCHANGED <<strings, presolving, lower, active, succ, dom, relaxVars, opt>>

DeactivateMatches ==
    /\ pc = "deactivate"
    /\ active' = RemainingActive
    /\ improving' = (improving \/ active' # active)
    /\ pc' = "reduce"
    /\ UNCHANGED <<strings, presolving, lower, upper, up, avail, succ, dom, relaxVars, opt>>

(* Arcs are erased in both directions, and the loop goes on if the bounds  *)
(* or the deactivation have improved anything.                             *)
ReduceGraph ==
    /\ pc = "reduce"
    /\ succ' = [d \in Directions |-> [m \in DOMAIN succ[d] |->
                   IF IsActive(m) THEN KeptSuccessors(d, m) ELSE succ[d][m]]]
    /\ dom' = [d \in Directions |-> [m \in DOMAIN dom[d] |->
                   IF IsActive(m) THEN KeptDominating(d, m) ELSE dom[d][m]]]
    /\ UNCHANGED lower
    /\ pc' = IF improving THEN Enter(presolving)
             ELSE IF presolving THEN "done" ELSE "heuristic"
    /\ improving' = FALSE
    /\ UNCHANGED <<strings, presolving, upper, active, up, avail, relaxVars, opt>>

Next ==
    \/ HeuristicImproves \/ HeuristicStops
    \/ StartRelaxation \/ RelaxCharacter \/ SkipCharacter \/ EndRelaxationRound
    \/ RelaxSelected \/ EndRelaxation
    \/ CalculateSimpleUpperBounds \/ DeactivateMatches \/ ReduceGraph

Spec == Init /\ [][Next]_vars

-----------------------------------------------------------------------------
TypeOK ==
    /\ pc \in {"heuristic", "relax", "relaxing", "selecting", "bounds", "deactivate", "reduce", "done"}
    /\ presolving \in BOOLEAN /\ improving \in BOOLEAN /\ still \in BOOLEAN
    /\ lower \in 0..Sigma /\ upper \in 0..Sigma
    /\ active \subseteq Inner
    /\ char \in 0..Sigma
    /\ LET present == {strings[1][p] : p \in DOMAIN strings[1]}
       IN  \A d \in Directions, m \in Nodes :
              /\ up[d][m] \in 0..Cardinality(present) \cup {Infinity}
              /\ avail[d][m] \subseteq present

(* The matches a solution w passes in direction d: after each one comes    *)
(* the nearest match of the next character.                                *)
Passes(d, w) ==
    LET letter(i) == IF d = "forward" THEN w[i] ELSE w[Len(w) + 1 - i]
        f[i \in 0..Len(w)] ==
          IF i = 0 THEN Source(d)
          ELSE CHOOSE m \in SuccessorMatches(d, f[i - 1]) : CharacterOf(m) = letter(i)
    IN  f

(* In neither direction do the reductions lose a solution that is longer   *)
(* than the lower bound: its matches stay active and its arcs in place.    *)
NoBetterSolutionIsLost ==
    \A w \in Solutions(strings) : Len(w) > lower =>
       \A d \in Directions :
          LET path == Passes(d, w)
          IN  \A i \in 1..Len(w) : path[i] \in active /\ path[i] \in succ[d][path[i - 1]]

(* The bound of a match, in either direction, covers what such a solution  *)
(* still has ahead of it there.                                            *)
MatchBoundsHold ==
    \A w \in Solutions(strings) : Len(w) > lower =>
       \A d \in Directions, i \in 1..Len(w) : up[d][Passes(d, w)[i]] >= Len(w) - i + 1

(* The upper bound is one, unless the lower bound is optimal already.      *)
UpperIsBound == lower < opt => upper >= opt

(* The loops end: what improves, improves only so often.                   *)
ReductionEnds == <>(pc = "done")
=============================================================================
