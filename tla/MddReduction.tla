------------------------------ MODULE MddReduction ------------------------------
(***************************************************************************)
(* The reduction by the MDD, node by node, behind the reduction of the     *)
(* graph: reduce_graph_pre_solver_by_mdd in the main process and           *)
(* reduce_by_mdd in the child it forks, which may be killed at any time    *)
(* and is started again.                                                   *)
(*                                                                         *)
(* Orchestration takes the MDD for a set of arcs and assumes of the filter *)
(* and the refinement that they keep an optimal path and valid bounds.     *)
(* This module shows on small instances that they do.                      *)
(***************************************************************************)
EXTENDS Mdd

CONSTANTS
    MaxRounds,    \* how many children are started at most
    Gaps          \* of a pair of strings: by how much the heuristic's lower bound
                  \* may be too small

VARIABLES
    step,       \* what is called next
    task,       \* what the filter that runs is for
    mdd,        \* the MDD that is worked on
    at,         \* the index of the level that is next
    changing,   \* is_still_changing
    changed,    \* is_changed
    cached,     \* there are cleared nodes to be used again
    parent,     \* instance.mdd
    parentUpper,\* the main process's upper_bound while a child runs
    work,       \* mdd_reduction, while the filter runs on another one
    selection,  \* mdd_character_selection
    trying,     \* the characters that are yet to be tried
    split,      \* split_character
    refined,    \* the characters that are refined
    shared,     \* the shared object
    rounds      \* how many children have been started

filterVars == <<mdd, at, changing, changed, cached>>
childVars == <<work, selection, trying, split, refined>>
parentVars == <<parent, parentUpper, rounds>>
mddVars == <<step, task, filterVars, childVars, parentVars, shared>>

(* Everything of the graph but the upper bound.                            *)
fixedVars == <<strings, pc, presolving, lower, graphVars, improving, relaxVars, opt>>

NotShared == [upper |-> 0, complete |-> FALSE, flat |-> <<>>, size |-> 0, room |-> 0]

MddInit ==
    /\ Init
    /\ step = "graph" /\ task = "forward"
    /\ mdd = NoMdd /\ at = 2 /\ changing = FALSE /\ changed = FALSE /\ cached = FALSE
    /\ parent = NoMdd /\ parentUpper = 0
    /\ work = NoMdd /\ selection = NoMdd /\ trying = {} /\ split = 0 /\ refined = {}
    /\ shared = NotShared
    /\ rounds = 0

GraphStep ==
    /\ step = "graph"
    /\ Next
    /\ UNCHANGED mddVars

-----------------------------------------------------------------------------
(* filter_mdd, which is done at once when the gap is closed.               *)
BeginFilter(M, u) ==
    /\ mdd' = M
    /\ at' = 2
    /\ changing' = FALSE /\ changed' = FALSE
    /\ step' = IF lower >= u THEN "filtered" ELSE IF Len(M.levels) = 1 THEN "root" ELSE "down"

FilterDown ==
    /\ step = "down"
    /\ LET visit == DownVisit(mdd, at)
       IN  mdd' = visit.mdd /\ changing' = (changing \/ visit.changed)
    /\ cached' = (cached \/ DOMAIN mdd'.facts # DOMAIN mdd.facts)
    /\ IF at < Len(mdd.levels) THEN at' = at + 1 /\ UNCHANGED step
                               ELSE step' = "up" /\ UNCHANGED at
    /\ UNCHANGED <<fixedVars, upper, task, changed, childVars, parentVars, shared>>

FilterUp ==
    /\ step = "up"
    /\ LET visit == UpVisit(mdd, at)
       IN  mdd' = visit.mdd /\ changing' = (changing \/ visit.changed)
    /\ cached' = (cached \/ DOMAIN mdd'.facts # DOMAIN mdd.facts)
    /\ IF at > 2 THEN at' = at - 1 /\ UNCHANGED step
                 ELSE step' = "root" /\ UNCHANGED at
    /\ UNCHANGED <<fixedVars, upper, task, changed, childVars, parentVars, shared>>

(* The end of a round, in which the bound is published if there is a       *)
(* shared object.  update_nodes_and_prune goes on while it changes         *)
(* something, filter_mdd while a call of that has changed something.       *)
FilterRoot ==
    /\ step = "root"
    /\ LET visit == UpVisit(mdd, 1)
           again == changing \/ visit.changed
       IN  /\ upper' = BoundBy(visit.mdd)
           /\ mdd' = CutOff(visit.mdd, upper')
           /\ step' = IF lower < upper' /\ (changed \/ again)
                      THEN IF Len(mdd'.levels) = 1 THEN "root" ELSE "down"
                      ELSE "filtered"
           /\ changed' = again
    /\ shared' = IF task \in {"forward", "backward"} THEN shared ELSE [shared EXCEPT !.upper = upper']
    /\ at' = 2
    /\ changing' = FALSE
    /\ cached' = (cached \/ DOMAIN mdd'.facts # DOMAIN mdd.facts)
    /\ UNCHANGED <<fixedVars, task, childVars, parentVars>>

-----------------------------------------------------------------------------
(* reduce_graph_pre_solver_by_mdd: an MDD in each direction is built and   *)
(* filtered, and the one with fewer matches is laid out.                   *)

StartForward ==
    /\ step = "graph" /\ pc = "done" /\ lower < upper /\ opt - lower \in Gaps[strings]
    /\ task' = "forward"
    /\ BeginFilter(InitialMdd("forward", TRUE), upper)
    /\ UNCHANGED <<fixedVars, upper, cached, childVars, parentVars, shared>>

StartBackward ==
    /\ step = "filtered" /\ task = "forward"
    /\ task' = "backward"
    /\ parent' = mdd
    /\ BeginFilter(InitialMdd("reverse", ~cached), upper)
    /\ UNCHANGED <<fixedVars, upper, cached, childVars, parentUpper, rounds, shared>>

MatchesIn(M) == {MatchOf(n) : n \in DOMAIN M.facts}

(* In words of the machine.                                                *)
SizeOf(M) == 2 * Len(M.levels) + 4 * Cardinality(DOMAIN M.facts) + 2 * Cardinality(M.arcs)

(* serialize_initial_mdd: a level keeps its matches and its pairs of them. *)
Laid(M) ==
    [i \in DOMAIN M.levels |->
        [matches |-> {MatchOf(n) : n \in M.levels[i]},
         arcs |-> {<<MatchOf(a[1]), MatchOf(a[2])>> : a \in {b \in M.arcs : b[1] \in M.levels[i]}}]]

ChooseSide ==
    /\ step = "filtered" /\ task = "backward"
    /\ parent' = IF Cardinality(MatchesIn(parent)) < Cardinality(MatchesIn(mdd)) THEN parent ELSE mdd
    /\ shared' = [upper |-> upper, complete |-> FALSE, flat |-> Laid(parent'),
                  size |-> SizeOf(parent'), room |-> SizeOf(parent')]
    /\ step' = "rounds"
    /\ mdd' = NoMdd /\ at' = 2 /\ changing' = FALSE /\ changed' = FALSE /\ cached' = FALSE
    /\ UNCHANGED <<fixedVars, upper, task, childVars, parentUpper, rounds>>

(* The child starts with a copy that it prunes by the flags and filters.   *)
Fork ==
    /\ step = "rounds" /\ lower < upper /\ ~shared.complete
    /\ rounds < MaxRounds
    /\ rounds' = rounds + 1
    /\ parentUpper' = upper
    /\ task' = "copy"
    /\ BeginFilter(PrunedByFlat(CopyOf(parent), shared.flat), upper)
    /\ UNCHANGED <<fixedVars, upper, cached, childVars, parent, shared>>

(* What the parent makes of what the child has left, when the child is     *)
(* complete or was killed.                                                 *)
ParentResumes ==
    /\ step = "merge"
    /\ upper' = Max({lower, Min({parentUpper, shared.upper})})
    /\ IF lower >= upper'
       THEN step' = "rounds" /\ UNCHANGED <<task, filterVars>>
       ELSE /\ task' = "parent"
            /\ BeginFilter(PrunedByFlat(parent, shared.flat), upper')
            /\ UNCHANGED cached
    /\ UNCHANGED <<fixedVars, childVars, parentVars, shared>>

ParentLaysOut ==
    /\ step = "filtered" /\ task = "parent"
    /\ parent' = mdd
    /\ shared' = [shared EXCEPT !.flat = Laid(mdd), !.size = SizeOf(mdd)]
    /\ upper' = Max({lower, Min({upper, shared.upper})})
    /\ step' = "rounds"
    /\ mdd' = NoMdd /\ cached' = FALSE /\ changed' = FALSE
    /\ UNCHANGED <<fixedVars, task, at, changing, childVars, parentUpper, rounds>>

(* filter_matches_by_flat_mdd: of several nodes the last one decides.      *)
MatchesButTheLast(laid) ==   \* mutant: the last level is not read
    {m \in Inner : \E i \in DOMAIN laid \ {Len(laid)} : m \in laid[i].matches}

MatchesOfLayout(laid) ==
    {m \in Inner : \E i \in DOMAIN laid : /\ m \in laid[i].matches
                                           /\ \A j \in DOMAIN laid : m \in laid[j].matches => j <= i}

(* The loop ends when the gap is closed or a child was complete, and at    *)
(* the timeout.                                                            *)
EndReduction ==
    /\ step = "rounds"
    /\ active' = MatchesOfLayout(shared.flat)
    /\ shared' = [shared EXCEPT !.complete = @ \/ lower >= upper]
    /\ upper' = Max({lower, upper})
    /\ step' = "solver"
    /\ UNCHANGED <<strings, pc, presolving, lower, up, avail, succ, dom, improving, relaxVars, opt,
                   task, filterVars, childVars, parentVars>>

-----------------------------------------------------------------------------
(* reduce_by_mdd.                                                          *)

(* The child's memory is gone, what it shares stays.                       *)
ChildEnds ==
    /\ step' = "merge"
    /\ upper' = parentUpper
    /\ mdd' = NoMdd /\ at' = 2 /\ changing' = FALSE /\ changed' = FALSE /\ cached' = FALSE
    /\ work' = NoMdd /\ selection' = NoMdd /\ trying' = {} /\ split' = 0 /\ refined' = {}

Repeated(M) == {c \in Characters : ChainingNumbers(M)[c] > 1}

(* The gap is open: the parent has filtered what is copied.                *)
CopyIsFiltered ==
    /\ step = "filtered" /\ task = "copy"
    /\ IF lower >= upper
       THEN shared' = [shared EXCEPT !.complete = TRUE] /\ ChildEnds
       ELSE /\ work' = mdd
            /\ selection' = CopyOf(mdd)
            /\ trying' = Repeated(mdd)
            /\ step' = "select"
            /\ mdd' = NoMdd
            /\ UNCHANGED <<upper, at, changing, changed, cached, split, refined, shared>>
    /\ UNCHANGED <<fixedVars, task, parentVars>>

(* get_characters_ordered_by_importance_mdd refines and filters a copy     *)
(* for each character.  The scores are not modelled: it may come out any   *)
(* order.  The filter leaves its bound behind.                             *)
BeginSplit(M, c) ==
    /\ split' = c
    /\ at' = 2 /\ changing' = FALSE /\ changed' = FALSE
    /\ IF Len(M.levels) = 1 THEN BeginFilter(M, upper) ELSE mdd' = M /\ step' = "split"

TryAgain ==   \* mutant: it is tried again
    /\ step = "select"
    /\ \E c \in trying : BeginSplit(CopyOf(IF refined = {} THEN work ELSE selection), c)
    /\ task' = "trial"
    /\ UNCHANGED <<fixedVars, upper, cached, work, selection, trying, refined, parentVars, shared>>

TryCharacter ==
    /\ step = "select"
    /\ \E c \in trying :
          /\ trying' = trying \ {c}
          /\ BeginSplit(CopyOf(IF refined = {} THEN work ELSE selection), c)
    /\ task' = "trial"
    /\ UNCHANGED <<fixedVars, upper, cached, work, selection, refined, parentVars, shared>>

TrialIsOver ==
    /\ step = "filtered" /\ task = "trial"
    /\ step' = "select"
    /\ mdd' = NoMdd
    /\ UNCHANGED <<fixedVars, upper, task, at, changing, changed, cached, childVars, parentVars, shared>>

RefineCharacter ==
    /\ step = "select" /\ trying = {}
    /\ \E c \in Characters \ refined : BeginSplit(work, c)
    /\ task' = "refine"
    /\ work' = NoMdd
    /\ UNCHANGED <<fixedVars, upper, cached, selection, trying, refined, parentVars, shared>>

SplitEverySecondLevel ==   \* mutant: the index is advanced twice
    /\ step = "split"
    /\ \E skipped \in SkippedArcs(mdd, at, split) :
          LET M == SplitLevel(mdd, at, split, skipped)
          IN  IF at + 1 >= Len(mdd.levels) THEN BeginFilter(M, upper)
              ELSE mdd' = M /\ at' = at + 2 /\ UNCHANGED <<step, changing, changed>>
    /\ UNCHANGED <<fixedVars, upper, task, cached, childVars, parentVars, shared>>

SplitNextLevel ==
    /\ step = "split"
    /\ \E skipped \in SkippedArcs(mdd, at, split) :
          LET M == SplitLevel(mdd, at, split, skipped)
          IN  IF at = Len(mdd.levels) THEN BeginFilter(M, upper)
              ELSE mdd' = M /\ at' = at + 1 /\ UNCHANGED <<step, changing, changed>>
    /\ UNCHANGED <<fixedVars, upper, task, cached, childVars, parentVars, shared>>

(* filter_flat_mdd: the flags of the nodes and arcs that are gone.         *)
StillInFlat(flat, M) ==
    LET now == Laid(M)
    IN  [i \in DOMAIN now |-> [matches |-> flat[i].matches \cap now[i].matches,
                               arcs |-> flat[i].arcs \cap now[i].arcs]]

(* The bound is that of the last level, and of its first node.             *)
BottomBoundWithout(u, M, n) == Max({lower, Min({u, DepthOf(n) - 1}), M.facts[n].ub})   \* mutant

BottomBound(u, M, n) == Max({lower, Min({u, DepthOf(n)}), M.facts[n].ub})

ReportRefined ==
    /\ step = "filtered" /\ task = "refine"
    /\ refined' = refined \cup {split}
    /\ \E n \in mdd.levels[Len(mdd.levels)] :
          shared' = [shared EXCEPT !.upper = BottomBound(@, mdd, n),
                                   !.flat = StillInFlat(@, mdd)]
    /\ step' = "next"
    /\ work' = mdd /\ mdd' = NoMdd
    /\ UNCHANGED <<fixedVars, upper, task, at, changing, changed, cached, selection, trying, split,
                   parentVars>>

IsPowerOfTwo(n) == n \in {1, 2, 4, 8}

(* Before the second, third, fifth, ... character some of the others are   *)
(* tried again.                                                            *)
NextCharacter ==
    /\ step = "next" /\ lower < shared.upper /\ refined # Characters
    /\ IF IsPowerOfTwo(Cardinality(refined))
       THEN /\ selection' = PrunedByFlat(selection, shared.flat)
            /\ \E S \in SUBSET (Characters \ refined) :
                  /\ Cardinality(S) = Min({2 * Cardinality(refined), Sigma - Cardinality(refined)})
                  /\ trying' = S \cap Repeated(selection')
       ELSE trying' = {} /\ UNCHANGED selection
    /\ step' = "select"
    /\ UNCHANGED <<fixedVars, upper, task, filterVars, work, split, refined, parentVars, shared>>

MarkComplete ==
    /\ step = "next" /\ (lower >= shared.upper \/ refined = Characters)
    /\ shared' = [shared EXCEPT !.complete = TRUE]
    /\ step' = "complete"
    /\ UNCHANGED <<fixedVars, upper, task, filterVars, childVars, parentVars>>

(* make_only_one_best_solution_remaining: of the successors with the       *)
(* greatest bound the first one, whichever that is.                        *)
GreedyPaths(M) ==
    LET best(n) == {s \in Succs(M, n) : \A t \in Succs(M, n) : M.facts[t].ub <= M.facts[s].ub}
        paths[k \in 0..Sigma] ==
          IF k = 0 THEN {<<RootNode(M.side)>>}
          ELSE UNION {IF Succs(M, q[Len(q)]) = {} THEN {q}
                      ELSE {Append(q, s) : s \in best(q[Len(q)])} : q \in paths[k - 1]}
    IN  paths[Sigma]

KeepAll ==   \* mutant
    /\ step = "complete"
    /\ step' = "layout"
    /\ UNCHANGED <<fixedVars, upper, task, filterVars, childVars, parentVars, shared>>

KeepOnlyOne ==
    /\ step = "complete"
    /\ \E q \in GreedyPaths(work) :
          work' = Detached(work, DOMAIN work.facts \ {q[i] : i \in DOMAIN q}, {})
    /\ shared' = [shared EXCEPT !.flat = StillInFlat(@, work')]
    /\ step' = "layout"
    /\ UNCHANGED <<fixedVars, upper, task, filterVars, selection, trying, split, refined, parentVars>>

LayOut ==
    /\ step = "layout"
    /\ shared' = [shared EXCEPT !.flat = Laid(work), !.size = SizeOf(work)]
    /\ ChildEnds
    /\ UNCHANGED <<fixedVars, task, parentVars>>

(* The child is killed, by its timer or by the kernel.                     *)
ChildRuns ==
    \/ step \in {"select", "split", "next", "complete", "layout"}
    \/ step \in {"down", "up", "root", "filtered"} /\ task \in {"copy", "trial", "refine"}

Kill ==
    /\ ChildRuns
    /\ ChildEnds
    /\ UNCHANGED <<fixedVars, task, parentVars, shared>>

ChildNext ==
    \/ CopyIsFiltered \/ TryCharacter \/ TrialIsOver \/ RefineCharacter
    \/ SplitNextLevel \/ ReportRefined \/ NextCharacter \/ MarkComplete \/ KeepOnlyOne \/ LayOut

MddNext ==
    \/ GraphStep
    \/ FilterDown \/ FilterUp \/ FilterRoot
    \/ StartForward \/ StartBackward \/ ChooseSide
    \/ Fork \/ ParentResumes \/ ParentLaysOut \/ EndReduction
    \/ ChildNext \/ Kill

MddSpec == MddInit /\ [][MddNext]_<<vars, mddVars>>

-----------------------------------------------------------------------------
Diagrams == {mdd, work, selection, parent} \ {NoMdd}

(* Nodes hang together level by level, and what they are said to know is   *)
(* about existing characters.                                              *)
MddTypeOK ==
    /\ upper \in 0..Sigma /\ shared.upper \in 0..Sigma /\ parentUpper \in 0..Sigma
    /\ \A M \in Diagrams :
          /\ DOMAIN M.facts = UNION {M.levels[i] : i \in DOMAIN M.levels}
          /\ \A a \in M.arcs : {a[1], a[2]} \subseteq DOMAIN M.facts /\ DepthOf(a[2]) = DepthOf(a[1]) + 1
          /\ \A n \in DOMAIN M.facts : /\ M.facts[n].ub \in 0..Sigma
                                       /\ M.facts[n].toRoot \cup M.facts[n].sink \subseteq Characters

(* As long as the lower bound is not optimal, a longest solution is a path *)
(* of every MDD, of the layout, and of what the parent would make of the   *)
(* layout if the child were killed now.  Domination gives up some of the   *)
(* longest solutions in favour of others; it never gives up all of them.   *)
SomeOptimumRemains ==
    step # "graph" /\ lower < opt =>
       /\ \A M \in Diagrams : FreePaths(M)[opt] # {}
       /\ shared # NotShared => FreePaths(PrunedByFlat(parent, shared.flat))[opt] # {}

(* And the bounds are valid, that of the instance, the one the parent has  *)
(* kept and the published one, also those that trials have left behind.    *)
BoundsAreValid ==
    step # "graph" /\ lower < opt =>
       /\ upper >= opt
       /\ ChildRuns \/ step = "merge" => parentUpper >= opt
       /\ shared # NotShared => shared.upper >= opt

(* What a node is said to know is true of every repetition-free path that  *)
(* is longer than the lower bound, even while updates are pending.         *)
NodeFactsHold ==
    \A M \in {mdd, work, selection} \ {NoMdd} : \A k \in (lower + 1)..Sigma : \A q \in FreePaths(M)[k] :
       \A i \in 2..(k + 1) :
          LET f == M.facts[q[i]]
              before == {Letter(q[j]) : j \in 2..i}
              after == {Letter(q[j]) : j \in (i + 1)..(k + 1)}
          IN  /\ f.allRoot \subseteq before /\ before \subseteq f.toRoot
              /\ f.allSink \subseteq after /\ after \subseteq f.sink
              /\ f.ub >= k + 1 - i

(* What splitting a node relies on: the paths that go to its copy, because *)
(* not every path to their last node has the split character, do not have  *)
(* it themselves.  The copy is told that none of its paths has it.         *)
SplitSeparates ==
    step = "split" =>
       \A k \in (lower + 1)..Sigma : \A q \in FreePaths(mdd)[k] : \A i \in 2..(k + 1) :
          q[i] \in SplitNodes(mdd, at, split) /\ split \in {Letter(q[j]) : j \in 2..(i - 1)}
             => split \in mdd.facts[q[i - 1]].allRoot

(* Once all characters are refined and the gap is open, no path repeats a  *)
(* character: the longest path is a solution.                              *)
RefinedIsRepetitionFree ==
    step = "complete" /\ refined = Characters /\ lower < upper =>
       \A k \in 0..(Sigma - 1) : \A q \in FreePaths(work)[k] :
          \A s \in Succs(work, q[k + 1]) : Letter(s) \notin {Letter(q[j]) : j \in 2..(k + 1)}

(* What is laid out, by the parent or by the child, fits into the memory   *)
(* that was sized for the first MDD.                                       *)
LayoutFits == shared.size <= shared.room

(* prune_by_flat_mdd takes the levels of the layout and the depths of the  *)
(* MDD for indices into as many sets as the MDD has levels, and            *)
(* filter_flat_mdd the levels of the refined MDD for those of the layout.  *)
PrunesInRange(M) ==
    /\ Len(shared.flat) <= Len(M.levels)
    /\ \A n \in DOMAIN M.facts : DepthOf(n) < Len(M.levels)

LevelsAreInRange ==
    /\ step \in {"rounds", "merge"} => PrunesInRange(parent)
    /\ step = "next" => PrunesInRange(selection)
    /\ step = "filtered" /\ task = "refine" =>
          /\ Len(mdd.levels) <= Len(shared.flat)
          /\ mdd.levels[Len(mdd.levels)] # {}
=============================================================================
