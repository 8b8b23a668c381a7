------------------------------ MODULE Heuristic ------------------------------
(***************************************************************************)
(* The heuristic (heuristic.cpp) on top of GraphReduction, which knows of  *)
(* it only that it comes up with better and better lower bounds.  A round  *)
(* goes through the active matches of either direction and lets each one   *)
(* follow one of its best successors; a better solution is put together    *)
(* from the chains that start in a match in the two directions.            *)
(*                                                                         *)
(* The random choices are nondeterministic.  HEURISTIC_SOLUTION_DECREMENTER*)
(* is 0, as in config.hpp.                                                 *)
(***************************************************************************)
EXTENDS GraphReduction, SequencesExt

None == <<-1, -1>>   \* the null pointer

VARIABLES
    found,          \* lower_bound; "lower" is lower_bound_before_round
    solution,       \* solution
    heurChars,      \* heuristic_characters of each match, in both directions
    previous,       \* heuristic_previous_match of each match
    pass,           \* the call of combine the round is at
    visited,        \* the matches it has been through
    badRuns,        \* number_of_bad_runs
    resetCounter    \* reset_counter

heurVars == <<found, solution, heurChars, previous, pass, visited, badRuns, resetCounter>>
reductionVars == <<strings, pc, presolving, lower, upper, graphVars, improving, relaxVars, opt>>

BadRunsLimit == (Len(strings[1]) * Len(strings[2])) \div Sigma

(* round(sqrt(number_of_bad_runs_limit))                                   *)
ResetLimit == CHOOSE r \in 0..BadRunsLimit :
                 (r = 0 \/ (2 * r - 1)^2 <= 4 * BadRunsLimit) /\ 4 * BadRunsLimit < (2 * r + 1)^2

OwnCharacter(m) == IF m \in Inner THEN {CharacterOf(m)} ELSE {}

HeuristicInit ==
    /\ Init
    /\ found = 0
    /\ solution = <<>>
    /\ heurChars = [d \in Directions |-> [m \in Nodes |-> OwnCharacter(m)]]
    /\ previous = [d \in Directions |-> [m \in Nodes |-> None]]
    /\ pass = "forward"
    /\ visited = {}
    /\ badRuns = 0
    /\ resetCounter = 0

-----------------------------------------------------------------------------
(* combine goes through the active matches from the far end: they are      *)
(* sorted by manhattan_distance_comparator.                                *)
FartherThan(d, a, b) ==
    IF d = "forward" THEN \/ a[1] + a[2] > b[1] + b[2]
                          \/ a[1] + a[2] = b[1] + b[2] /\ a[1] > b[1]
                     ELSE \/ a[1] + a[2] < b[1] + b[2]
                          \/ a[1] + a[2] = b[1] + b[2] /\ a[1] < b[1]

ToVisit(d) == ((active \cup {Root, Leaf}) \ {Sink(d)}) \ visited

ScoreWithRepetitions(d, m, t) ==   \* mutant: what occurs in both chains counts twice
    Cardinality(heurChars[Opposite(d)][m]) + Cardinality(heurChars[d][t])

Score(d, m, t) == Cardinality(heurChars[Opposite(d)][m] \cup heurChars[d][t])

Candidates(d, m) ==
    {t \in ActiveDom(d, m) : \A s \in ActiveDom(d, m) : Score(d, m, s) <= Score(d, m, t)}

(* The characters on the chain of heuristic_previous_match, m included.    *)
Chain(prev, m) ==
    LET f[n \in Nodes \cup {None}] ==
          IF n \notin Inner THEN <<>> ELSE <<CharacterOf(n)>> \o f[prev[n]]
    IN  f[m]

FirstOccurrences(s) ==
    LET kept[i \in 0..Len(s)] ==
          IF i = 0 THEN <<>>
          ELSE IF Contains(kept[i - 1], s[i]) THEN kept[i - 1] ELSE Append(kept[i - 1], s[i])
    IN  kept[Len(s)]

(* set_heuristic_solution: the chain ahead is put in front and the one     *)
(* behind at the end, each without what is there already.                  *)
SolutionAlwaysReversed(d, m, prev) ==   \* mutant: in the other direction as well
    LET ahead == FirstOccurrences(Chain(prev[d], m))
        both == FirstOccurrences(ahead \o Chain(prev[Opposite(d)], m))
    IN  Reverse(Reverse(ahead) \o SubSeq(both, Len(ahead) + 1, Len(both)))

SolutionThrough(d, m, prev) ==
    LET ahead == FirstOccurrences(Chain(prev[d], m))
        both == FirstOccurrences(ahead \o Chain(prev[Opposite(d)], m))
        built == Reverse(ahead) \o SubSeq(both, Len(ahead) + 1, Len(both))
    IN  IF d = "forward" THEN Reverse(built) ELSE built

-----------------------------------------------------------------------------
RoundGoesOn == lower < upper /\ badRuns < BadRunsLimit

(* The next match in the order follows one of its best successors.         *)
CombineMatch ==
    /\ pc = "heuristic" /\ RoundGoesOn
    /\ pass \in Directions
    /\ \E m \in ToVisit(pass), t \in Nodes :
          /\ \A n \in ToVisit(pass) \ {m} : FartherThan(pass, m, n)
          /\ t \in Candidates(pass, m)
          /\ previous' = [previous EXCEPT ![pass][m] = t]
          /\ heurChars' = [heurChars EXCEPT ![pass][m] = heurChars[pass][t] \cup OwnCharacter(m)]
          /\ IF found < Score(pass, m, t)
             THEN /\ found' = Score(pass, m, t)
                  /\ solution' = SolutionThrough(pass, m, previous')
             ELSE UNCHANGED <<found, solution>>
          /\ visited' = visited \cup {m}
    /\ UNCHANGED <<reductionVars, pass, badRuns, resetCounter>>

EndPass ==
    /\ pc = "heuristic" /\ pass \in Directions /\ ToVisit(pass) = {}
    /\ pass' = IF pass = "forward" THEN "reverse" ELSE "over"
    /\ visited' = {}
    /\ UNCHANGED <<reductionVars, found, solution, heurChars, previous, badRuns, resetCounter>>

(* A round that has found something: the graph is reduced with it.         *)
EndGoodRound ==
    /\ pc = "heuristic" /\ pass = "over" /\ lower < found
    /\ lower' = found
    /\ pc' = Enter(FALSE)
    /\ improving' = FALSE
    /\ badRuns' = 0
    /\ resetCounter' = 0
    /\ pass' = "forward"
    /\ UNCHANGED <<strings, presolving, upper, graphVars, relaxVars, opt, found, solution,
                   heurChars, previous, visited>>

(* clear forgets the characters of the active matches, not their chains.   *)
Cleared(chars) ==
    [d \in Directions |-> [m \in Nodes |-> IF IsActive(m) THEN OwnCharacter(m) ELSE chars[d][m]]]

EndBadRound ==
    /\ pc = "heuristic" /\ pass = "over" /\ lower = found
    /\ badRuns' = badRuns + 1
    /\ IF resetCounter + 1 > ResetLimit
       THEN resetCounter' = 0 /\ heurChars' = Cleared(heurChars)
       ELSE resetCounter' = resetCounter + 1 /\ UNCHANGED heurChars
    /\ pass' = "forward"
    /\ UNCHANGED <<reductionVars, found, solution, previous, visited>>

EndHeuristic == ~RoundGoesOn /\ HeuristicStops /\ UNCHANGED heurVars

Reduce ==
    /\ \/ StartRelaxation \/ RelaxCharacter \/ SkipCharacter \/ EndRelaxationRound
       \/ RelaxSelected \/ EndRelaxation \/ CalculateSimpleUpperBounds \/ DeactivateMatches \/ ReduceGraph
    /\ UNCHANGED heurVars

HeuristicNext ==
    CombineMatch \/ EndPass \/ EndGoodRound \/ EndBadRound \/ EndHeuristic \/ Reduce

HeuristicSpec == HeuristicInit /\ [][HeuristicNext]_<<vars, heurVars>>

-----------------------------------------------------------------------------
(* main.cpp:210-244.  What the heuristic holds is a solution, and at least *)
(* as long as its lower bound, although the chains it is put together from *)
(* may lead through matches that have been deactivated or cleared since.   *)
LowerIsWitnessed == solution \in Solutions(strings) /\ Len(solution) >= found

(* heuristic.cpp:112.  There is always a successor to choose from: an      *)
(* active match never loses all of its active successors.                  *)
AlwaysACandidate ==
    pc = "heuristic" => \A d \in Directions : \A m \in Nodes \ {Sink(d)} :
                           IsActive(m) => ActiveDom(d, m) # {}

(* What GraphReduction assumes of the heuristic is what the heuristic does.*)
ImplementsGraphReduction == Spec
=============================================================================
