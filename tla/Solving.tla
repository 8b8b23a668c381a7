-------------------------------- MODULE Solving --------------------------------
(***************************************************************************)
(* What comes behind the reduction: solve in main.cpp, which enumerates    *)
(* the paths of the layout in the shared memory                            *)
(* (sequence_enumeration_solver.cpp) or has an integer program solved over *)
(* the active matches (gurobi_graph_ilp.cpp).                              *)
(*                                                                         *)
(* Together with the modules below it this is the whole program from the   *)
(* graph to the solution, but for torn layouts and the clock, which        *)
(* Orchestration adds.                                                     *)
(***************************************************************************)
EXTENDS MddReduction, SequencesExt

CONSTANT SOLVER    \* of config.hpp

ASSUME SolvingAssumption == SOLVER \in {"GUROBI_GRAPH", "ENUMERATION"}

VARIABLES
    stack,      \* flat nodes, each a pair <<index of its level, match>>
    entered,    \* the nodes with is_active
    used,       \* used_characters
    solution,   \* what the enumeration has found so far
    valid,      \* is_valid_solution
    boundLost   \* history: the integer program has returned without a bound

solveVars == <<stack, entered, used, solution, valid, boundLost>>
allVars == <<vars, mddVars, solveVars>>

(* What solving leaves alone.                                              *)
solveFrame == <<strings, pc, presolving, graphVars, improving, relaxVars, opt, task, filterVars,
                childVars, parentVars, shared>>

SolvingInit ==
    /\ MddInit
    /\ stack = <<>> /\ entered = {} /\ used = {}
    /\ solution = <<>>
    /\ valid = FALSE
    /\ boundLost = FALSE

ReductionStep ==
    /\ MddNext
    /\ UNCHANGED solveVars

(* Any solution as long as the lower bound may be that of the heuristic.   *)
HeuristicSolutions == {w \in Solutions(strings) : Len(w) = lower}

Conclude(l, u, w, ok) ==
    /\ lower' = l
    /\ upper' = Max({l, Min({upper, u})})
    /\ solution' = w
    /\ valid' = ok
    /\ step' = "done"
    /\ stack' = <<>> /\ entered' = {} /\ used' = {}

(* The gap is closed: by the heuristic already or by the reduction.        *)
SolveClosed ==
    /\ step = "solver" \/ (step = "graph" /\ pc = "done")
    /\ lower >= upper
    /\ \E w \in HeuristicSolutions : Conclude(lower, upper, w, TRUE)
    /\ UNCHANGED <<solveFrame, boundLost>>

-----------------------------------------------------------------------------
(* The enumeration: a depth-first search with a stack of its own.          *)

NodeLetter(n) == CharacterOf(n[2])
NodePosition(n, i) == Position(parent.side, n[2], i)

Targets(n) == {<<n[1] + 1, a[2]>> : a \in {b \in shared.flat[n[1]].arcs : b[1] = n[2]}}

Precedes(s, t) ==
    \/ NodePosition(s, 1) < NodePosition(t, 1)
    \/ NodePosition(s, 1) = NodePosition(t, 1) /\ NodePosition(s, 2) < NodePosition(t, 2)

(* std::sort: an element comes behind as many as precede it in R.          *)
Sorted(S, R) ==
    [k \in 1..Cardinality(S) |-> CHOOSE x \in S : Cardinality({y \in S : <<y, x>> \in R}) = k - 1]

ByPosition(S) == {x \in S \X S : Precedes(x[1], x[2])}

(* Successors are pushed in the order of position_1, each of them only if  *)
(* position_2 is nearer than in those before it whose character is unused. *)
PushedEvenUsed(n, characters) ==   \* mutant
    {t \in Targets(n) : ~\E s \in Targets(n) : Precedes(s, t) /\ NodePosition(s, 2) <= NodePosition(t, 2)}

Pushed(n, characters) ==
    LET unused == {t \in Targets(n) : NodeLetter(t) \notin characters}
    IN  {t \in unused : ~\E s \in unused : Precedes(s, t) /\ NodePosition(s, 2) <= NodePosition(t, 2)}

(* The room that is reserved for the stack, which does not grow.           *)
RoomForOnePath == upper   \* mutant

Room == Sigma * upper

BeginEnumeration ==
    /\ step = "solver" /\ lower < upper
    /\ SOLVER = "ENUMERATION" \/ shared.complete
    /\ LET first == Targets(<<1, Source(parent.side)>>)
       IN  stack' = Sorted(first, ByPosition(first))
    /\ step' = "enumerate"
    /\ UNCHANGED <<solveFrame, lower, upper, entered, used, solution, valid, boundLost>>

Top == stack[Len(stack)]

(* set_solution: the characters of the active nodes, from the bottom up.   *)
CharactersOfAll(nodes, active_nodes) ==   \* mutant
    [i \in DOMAIN nodes |-> NodeLetter(nodes[i])]

CharactersOn(nodes, active_nodes) ==
    LET path == Picked(nodes, {i \in DOMAIN nodes : nodes[i] \in active_nodes})
    IN  [i \in DOMAIN path |-> NodeLetter(path[i])]

(* A problem solved backwards has its solution reversed.                   *)
NotOriented(w) == w   \* mutant

Oriented(w) == IF parent.side = "forward" THEN w ELSE Reverse(w)

EnterNode ==
    /\ step = "enumerate" /\ stack # <<>> /\ Top \notin entered
    /\ LET nodes == entered \cup {Top}
           characters == used \cup {NodeLetter(Top)}
           depth == Cardinality(nodes)
           pushed == Pushed(Top, characters)
           better == IF depth > lower THEN CharactersOn(stack, nodes) ELSE solution
       IN  IF depth > lower /\ depth >= upper
           THEN Conclude(depth, depth, Oriented(better), TRUE)
           ELSE /\ entered' = nodes
                /\ used' = characters
                /\ solution' = better
                /\ lower' = Max({lower, depth})
                /\ stack' = stack \o Sorted(pushed, ByPosition(pushed))
                /\ UNCHANGED <<step, upper, valid>>
    /\ UNCHANGED <<solveFrame, boundLost>>

LeaveUsed ==   \* mutant: the character stays used
    /\ step = "enumerate" /\ stack # <<>> /\ Top \in entered
    /\ entered' = entered \ {Top}
    /\ stack' = Front(stack)
    /\ UNCHANGED <<solveFrame, step, lower, upper, used, solution, valid, boundLost>>

LeaveNode ==
    /\ step = "enumerate" /\ stack # <<>> /\ Top \in entered
    /\ entered' = entered \ {Top}
    /\ used' = used \ {NodeLetter(Top)}
    /\ stack' = Front(stack)
    /\ UNCHANGED <<solveFrame, step, lower, upper, solution, valid, boundLost>>

(* If nothing longer was found, the solution is still the heuristic's; it  *)
(* is reversed all the same.                                               *)
EndEnumeration ==
    /\ step = "enumerate" /\ stack = <<>>
    /\ \E w \in IF solution = <<>> THEN HeuristicSolutions ELSE {solution} :
          Conclude(lower, lower, Oriented(w), TRUE)
    /\ UNCHANGED <<solveFrame, boundLost>>

-----------------------------------------------------------------------------
(* The integer program.  The solver itself is not part of the program: it  *)
(* returns any of the best selections, at its time limit any or none, with *)
(* a bound or without, or it throws.                                       *)

CrossingOneWay(s, t) == s[1] < t[1] /\ s[2] > t[2]   \* mutant: pairs in one order only

Crossing(s, t) == (s[1] < t[1] /\ s[2] > t[2]) \/ (t[1] < s[1] /\ t[2] > s[2])

(* No two selected matches cross or have the same character.               *)
Selections ==
    LET chosen[c \in 0..Sigma] ==
          IF c = 0 THEN {{}}
          ELSE LET of == {m \in active : CharacterOf(m) = c - 1}
               IN  chosen[c - 1] \cup
                     {x[1] \cup {x[2]} : x \in {y \in chosen[c - 1] \X of :
                                                  \A s \in y[1] : ~Crossing(s, y[2])}}
    IN  chosen[Sigma]

Feasible == {X \in Selections : Cardinality(X) >= lower + 1}

(* set_solution_from_graph: sorted by position_1.                          *)
Selected(X) ==
    LET path == Sorted(X, {x \in X \X X : x[1][1] < x[2][1]})
    IN  [i \in DOMAIN path |-> CharacterOf(path[i])]

SolvesIlp == step = "solver" /\ lower < upper /\ SOLVER = "GUROBI_GRAPH" /\ ~shared.complete

IlpOptimal ==
    /\ SolvesIlp
    /\ \E X \in Feasible :
          /\ \A Y \in Feasible : Cardinality(Y) <= Cardinality(X)
          /\ Conclude(Cardinality(X), Cardinality(X), Selected(X), TRUE)
    /\ UNCHANGED <<solveFrame, boundLost>>

IlpInfeasible ==
    /\ SolvesIlp /\ Feasible = {}
    /\ \E w \in HeuristicSolutions : Conclude(lower, lower, w, TRUE)
    /\ UNCHANGED <<solveFrame, boundLost>>

(* The time limit strikes when there is a bound, which is one.             *)
IlpTimesOut ==
    /\ SolvesIlp
    /\ \E bound \in 0..Sigma :
          /\ \A Y \in Feasible : Cardinality(Y) <= bound
          /\ \/ \E X \in Feasible : Conclude(Cardinality(X), bound, Selected(X), FALSE)
             \/ \E w \in HeuristicSolutions : Conclude(lower, bound, w, FALSE)
    /\ UNCHANGED <<solveFrame, boundLost>>

(* It strikes before there is a solution or a bound, and what ObjBound is  *)
(* then does not fit into an int; or the solver throws.  That leaves       *)
(* solver_upper_bound at zero or below, and the lower bound is reported as *)
(* the upper bound.                                                        *)
IlpFails ==
    /\ SolvesIlp
    /\ \E w \in HeuristicSolutions : Conclude(lower, 0, w, FALSE)
    /\ boundLost' = TRUE
    /\ UNCHANGED solveFrame

(* The program has ended, or the heuristic was worse than the bound of the *)
(* model allows.                                                           *)
Stopped == step = "done" \/ (step = "graph" /\ pc = "done" /\ lower < upper /\ opt - lower \notin Gaps[strings])

Stutter == Stopped /\ UNCHANGED allVars

SolvingNext ==
    \/ ReductionStep
    \/ SolveClosed
    \/ BeginEnumeration \/ EnterNode \/ LeaveNode \/ EndEnumeration
    \/ IlpOptimal \/ IlpInfeasible \/ IlpTimesOut \/ IlpFails
    \/ Stutter

SolvingSpec == SolvingInit /\ [][SolvingNext]_allVars

(* Weak fairness of the program as a whole: it goes on until it stops.     *)
(* That it can, which WF_allVars(SolvingNext) would ask in every state, is *)
(* what the search for deadlocks shows.                                    *)
Progress == []<>Stopped \/ []<><<SolvingNext>>_allVars

FairSolvingSpec == SolvingSpec /\ Progress

-----------------------------------------------------------------------------
(* The node on top that is entered next continues the path of the active   *)
(* ones, which repeats no character: used_characters are theirs.           *)
EnteredIsAPath ==
    step = "enumerate" =>
       LET path == Picked(stack, {i \in DOMAIN stack : stack[i] \in entered})
       IN  /\ Len(path) = Cardinality(entered)
           /\ \A i \in DOMAIN path : path[i] \in Targets(IF i = 1 THEN <<1, Source(parent.side)>>
                                                         ELSE path[i - 1])
           /\ used = {NodeLetter(n) : n \in entered} /\ Cardinality(used) = Len(path)

(* What has been found so far, gathered from the flags on the stack, is a  *)
(* solution as long as the lower bound, in the direction it was found in.  *)
FoundIsSolution ==
    step = "enumerate" /\ solution # <<>> =>
       Oriented(solution) \in Solutions(strings) /\ Len(solution) = lower

(* Nothing is written behind the room that is reserved for the stack.      *)
StackFits == step = "enumerate" => Len(stack) <= Room

(* Whatever the reduction has left, and wherever the child was killed: a   *)
(* run that is said to be solved ends with a longest solution and with     *)
(* both bounds at its length.                                              *)
SolvedIsLongest == step = "done" /\ valid => lower = opt /\ upper = opt

(* And the solution that is handed to check_solution is one, in the        *)
(* direction of the strings, as long as the lower bound says.              *)
SolutionIsOne == step = "done" => solution \in Solutions(strings) /\ Len(solution) = lower

(* It fails to be one in a single way: an enumeration of a problem that    *)
(* was turned around has found nothing longer than the heuristic.          *)
NothingFoundBackwards ==
    parent.side = "reverse" /\ step = "enumerate" /\ stack = <<>> /\ solution = <<>>

ConcludesWithOne ==
    [][step # "done" /\ step' = "done" /\ ~NothingFoundBackwards =>
          solution' \in Solutions(strings) /\ Len(solution') = lower']_allVars

(* Both bounds that are reported without a proof are still bounds, but for *)
(* the upper one where the integer program has returned none: the lower    *)
(* bound is then reported in its place (ReportedUpperIsBound of            *)
(* Orchestration).                                                         *)
UnsolvedIsBounded ==
    step = "done" /\ ~valid => /\ lower <= opt
                               /\ ~boundLost => upper >= opt

(* The program ends: the loops of the filter, of the refinement and of the *)
(* enumeration are not entered forever.                                    *)
SolvingEnds == <>Stopped
=============================================================================
