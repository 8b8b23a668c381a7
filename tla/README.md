# A verification development for RFLCS

The program finds a longest *repetition-free common subsequence* (RFLCS) of two
strings: a sequence that occurs in both of them and contains no character twice.
It never stops improving a lower bound (a solution) and an upper bound until the
two meet, and for that it runs, in this order,

1. a randomised heuristic on a graph of matches, which is reduced on the way,
2. a reduction of that graph with a relaxation of the problem,
3. a reduction by a multivalued decision diagram (MDD), in a child process that
   may be killed and is started again,
4. an exact solver, an enumeration of what is left or an ILP.

This directory holds TLA+ modules that model these parts, configurations that
check the modules with TLC, and proofs that TLAPS checks. Paths of the form
`mdd/x.cpp:12` are relative to `src/src`.

## Inventory

| Component | Source | State it keeps | Operations |
|---|---|---|---|
| Orchestration | `main.cpp`, `reduction_orchestration.cpp` | `instance`: bounds, MDD, active matches, what each stage leaves | heuristic, reduction, fork, wait, merge, filter of the matches, solve |
| Child process | `mdd/mdd_reduction.cpp` | copies of the instance and of two MDDs | copy and prune, select characters, refine, filter, report, keep one path |
| Shared memory | `mdd/shared_object.hpp`, `mdd/flat_mdd.cpp` | bound, complete flag, counters, the layout of the MDD with a flag per node and arc | lay out, clear flags, count |
| Graph creation | `graph/graph_creation.cpp` | tables of next occurrences, the matches and their arcs in both directions | create |
| Graph reduction | `graph/simple_upper_bounds.cpp`, `match_deactivation.cpp`, `reduce_graph.cpp` | of each match: bound, available characters, active flag, arcs | compute bounds, deactivate, erase arcs |
| Relaxation | `graph/rf_subset_lcs_relaxation.cpp`, `match_metrics.cpp` | the relaxed bounds of each match | relax by one character, relax by a set of them |
| Heuristic | `heuristic.cpp` | of each match: characters and successor of its chain; the solution | combine, clear, put a solution together |
| Initial MDD | `mdd/initial_mdd.cpp` | levels of nodes | create, prune by the shared memory |
| MDD filter | `mdd/mdd_filter.cpp`, `mdd_node.hpp` | of each node: six sets of characters and bounds, pending updates | update nodes, drop nodes and arcs, publish the bound, clear flags |
| MDD refinement | `mdd/mdd_refinement.cpp` | the same | split the nodes of a level on a character |
| Character selection | `mdd/character_selection.cpp` | scores | refine and filter copies, order the characters |
| Enumeration | `solver/sequence_enumeration_solver.cpp` | a stack in raw memory, flags of the nodes | walk the layout depth first |
| ILP solver | `ilp_solver/gurobi_graph_ilp.cpp` | a Gurobi model | solve within a time limit |
| Solution check | `main.cpp:210` | positions in both strings | check the solution |
| Input, result and dot writers, scripts, vendored code | | | not modelled, see below |

How they interact: everything in the main process happens by calls on one
`instance`. The child gets a copy of it from `fork`, and everything it tells the
parent is in the memory they share: the bound, the complete flag, and which
nodes and arcs of the laid-out MDD are still active. Nothing is locked; the
parent waits for the child's end. The child is ended by its own timer
(`SIGALRM`) or by the kernel, for which it offers itself
(`set_oom_score_adj(1000)`), at any moment.

What is hard, and what makes each part correct:

* *Child and parent.* What a killed child leaves must be usable: a bound must be
  one, and the optimum must still be there. A child that says it is complete has
  not put its result away yet. A run that says "solved" must be right.
* *Filter of the matches.* It lets the last node of a match decide, which is
  right only in some states of the flags.
* *Restarts.* The parent starts children as long as neither the gap is closed nor
  one of them is complete; it must come to an end.
* *Graph reduction.* Bounds computed from the arcs, matches deactivated by the
  bounds and arcs erased by both, over and over, in two directions at once: no
  solution longer than the lower bound may get lost. The loops must end.
* *Heuristic.* Chains persist over rounds while matches are deactivated under
  them and other characters chosen; what is put together from them must still
  be a solution as long as claimed.
* *Solution check.* It must reject what is wrong and must not reject what is right.
* *MDD filter and refinement.* Pending updates, an early stop when the gap closes,
  levels cut off, nodes from a cache, and a loop that erases from what it iterates
  over: of the solutions longer than the lower bound, a longest one must remain,
  and what the nodes are said to know must be true.
* *Layout.* It is rewritten into memory that was sized once, and it is read by
  index.
* *Enumeration.* Its stack must fit, the flags must be the path walked, what it
  finds must be the optimum of the layout, in the direction of the strings.
* *ILP.* It asks for more than the lower bound, over the matches that are left;
  "infeasible" must be a proof.

## The modules

| Module | Models |
|---|---|
| `Promise` | the abstract specification: two bounds close in on the optimum, and a verdict |
| `Orchestration` | the main process, the child, their shared memory, the clock and the kills |
| `OrchestrationProofs` | its theorems |
| `GraphReduction` | the graph of matches, its creation, its bounds and its reductions; the heuristic as "a better lower bound" |
| `RecursionLemmas` | least counterexamples, recursive functions over a rank, minima and maxima |
| `GraphReductionProofs` | what chains of matches have to do with solutions, the exchange argument, and the theorems of `GraphReduction` |
| `Heuristic` | extends it by the heuristic itself, and implements it |
| `HeuristicProofs` | its theorems |
| `CheckSolution` | `check_solution` and the tables of next occurrences |
| `CheckSolutionProofs` | its theorems |
| `Mdd` | extends `GraphReduction` by the MDD as a data structure: how it is built, what its nodes learn, what the filter drops, how a level is split |
| `MddReduction` | extends `Mdd` by the processes: both initial MDDs, children that try, refine, report and lay out and may be killed, merges by the parent |
| `MddReductionProofs` | its theorems on types and sizes |
| `MddSoundnessProofs` | its theorems on what is kept: a longest solution, valid bounds, true facts |
| `Solving` | extends `MddReduction` by what follows: the enumeration and the ILP, to the solution that is checked |
| `SolvingProofs` | its theorems |
| `MCOrchestration`, `MCGraphReduction`, `MCHeuristic`, `MCSolving` | the instances for TLC |

`Orchestration` and the chain `GraphReduction`, `Mdd`, `MddReduction`, `Solving` model the same run
of the program at two levels. The first has the clock, torn layouts and failures and is proved as a
whole; the second has the real graph, nodes and solvers, and what the first one assumes of them is
proved there, from two properties of splitting that are checked (see *MddSoundness*).

Operators marked `mutant` are wrong variants of the operator that follows them.
Nothing uses them: they show, put in its place, that the properties notice.

### Orchestration

`pc` is where the main process is: `heuristic`, `graph` (the loop of
`reduce_graph_pre_solver`), `build` (the initial MDD), `loop` (the while of
`reduce_graph_pre_solver_by_mdd`), `wait` (`waitpid`), `solve`, and then `done`
or `failed`. `cpc` is where the child is in `reduce_by_mdd`. Each action is the
code between two points at which something else can happen to what it touches:
the parent's stages are single actions, the child can be killed between any two
of its own, and the clearing of the flags is one action per arc.

An MDD is the *set of its arcs* (pairs of matches on neighbouring levels): that
is what the flags in the shared memory record and what is carried from one
process to the next. Of the arcs only `OptPaths` is known, the sets that make up
a longest solution. `mdd` is `instance.mdd`, `laid` the arcs in the layout,
`flat` those of them with the flag, `cMdd` and `cSel` the two MDDs of the child.
The operators `Filtered` and `BottomBound` and a few conditions in the actions
are the *contract* of the parts modelled elsewhere: they may remove
arcs and lower bounds as they like, but if the lower bound is not optimal and
they were given an optimal path and a valid bound, they keep one.

`torn` says that a layout was begun (`ChildStartsLayout`) and not finished. What
the parent reads from it is arbitrary (any subset of arcs, or a crash).
`tornRead` and `boundLost` are history: the main process has read a torn layout;
the ILP solver has returned without a bound.

`shRefined` is not reset by the parent and `shComplete` is set by both. The
memory figures, `refinement_round` (only counted) and `active_match_count` (only
printed) are left out. The child's `return` of
`reduction_orchestration.cpp:200` is dead code: the loop has just tested the
same condition.

### GraphReduction and Heuristic

The program keeps one graph for the strings and one for the reversed strings,
linked match by match by `reversed`. Here both are directions of one graph, so
that `up["reverse"][m]` is `match.extension.reversed->upper_bound`. `active` is
shared because the code always writes both flags together. `pc` is the next call in
`reduce_graph_while_heuristic` (`presolving = FALSE`) or `reduce_graph_pre_solver`
(`TRUE`). A loop over the matches is one action; where a pass reads what it
writes (from the leaf to the root for bounds, from the root to the leaf for the
deactivation), the action is a recursive function along that order.

Two things in the code come to nothing, and are not modelled:
`transient_match_domination_number` (`reduce_graph.cpp:65`) is initialised to 0
and never set, so its test never holds; and the leaf gets an arc to itself
(`reduce_dominating_succ_edges` on the last match), which nobody follows.

The relaxation by single characters (`RelaxCharacter`) and that by *sets* of them
(`RelaxSelected`) are one operator, `RelaxedBounds`, a function on the subsets of
the set. The second one starts at an alphabet of eight
(`rf_subset_lcs_relaxation.cpp:34`). The metrics by which it chooses are left out: any
choice of as many repeated characters is allowed.

In `Heuristic` one `CombineMatch` is one iteration of the loop of `combine`. The
random choice is any of the candidates. `lower` is `lower_bound_before_round`,
which is the lower bound the graph reductions see.

### Mdd, MddReduction

An MDD is a record of its levels (sets of nodes), arcs, and the `facts` of each node: the
four sets of characters of `mdd_node.hpp:18-21` (`toRoot`, `allRoot`, `sink`,
`allSink`), its bound `ub`, the two pending updates and the active flag. A node is
named by its depth, its match and the characters on which it was split off a
node of that match, so that two nodes of a level never have the same name.

The nodes of a level read and write only the levels beside it, never each other:
a loop over a level is one operator (`DownVisit`, `UpVisit`, `SplitLevel`) and one
action, and the filter goes level by level (`FilterDown`, `FilterUp`, `FilterRoot`). The order
within a level, which depends on addresses (`sort_cache`), has no influence; where the code picks
the first node of a vector (`mdd_reduction.cpp:115`, `:166`) any node is taken. `task` says what the
filter runs for: one of the two initial MDDs, the child's copy, a trial of the
character selection, a refinement, or the parent's merge.

`deactivate` (`mdd_node.hpp:214`) iterates over a vector from which the calls in
the loop erase. With the vectors of the standard library this is an index that
runs ahead: of *k* arcs every second one is skipped, and the loop ends when the
index reaches the end, so that *(k-1) div 2* remain. Which ones depends on the
order of the vector: `SkippedArcs` takes any.

The scores of the character selection are left out; `TryCharacter` and
`RefineCharacter` take the characters in any order. What remains of a trial is what
the filter writes: the bound of the instance and of the shared object.
`NextCharacter` prunes the MDD of the selection before the characters 2, 3, 5, ... and tries some again.

The child may be killed between any two steps (`Kill`). The layout is written in
one step here; torn layouts are in `Orchestration`.

Two constants bound the instances. `MaxRounds` is the number of children, and thus
also the timeout: `EndReduction` may come at any time. `Gaps` says how far below the optimum the
heuristic may end for the MDD to be entered; on inputs of this size the real
heuristic and relaxations close the gap nearly always, and `GraphReduction` allows a weaker one.

### Solving

The enumeration has its stack, the flags (`entered`), the used characters and the
bounds, with one action per iteration (`EnterNode`, `LeaveNode`). Of the ILP the program's
part is modelled: variables for the active matches, pairs that exclude each
other, one match per character, more than the lower bound, and what is
done with the outcome. Gurobi returns any best selection, or at its time limit any selection
or none and any valid bound; or it fails (`IlpFails`, `gurobi_graph_ilp.cpp:57-63`): the limit strikes before there is any
bound, or the solver throws, and the lower bound is reported as the upper bound. The history
variable `boundLost` remembers that, as in `Orchestration`. `SOLVER` is the constant of `config.hpp`.

### CheckSolution

The candidates are all short sequences, right or wrong, with all lower bounds.
`NextOccurrences` builds the table as the code does, from the end.

## What the runs check

Each run is a configuration. `CHECK_DEADLOCK FALSE` stands in those where a
run of the program ends, in `done`, `failed` or a verdict; `Solving` has a
stuttering step for its end instead, and its runs search for deadlocks.

**`MCOrchestration.cfg`** (about 770,000 states). Four characters, an optimum of 2,
three arcs of which either one or the other two make up an optimal path, a time limit of
one second, one bad round of the heuristic, one improving pass of the graph
reduction.

* `BoundIsSound`: the parent's upper bound stays valid whatever killed children
  published.
* `SolvedIsOptimal`: a run that says "solved" has the optimum, if it has read no
  torn layout.
* `FlagsAreSetWhenRead`: with an open gap, all flags are set when the filter of the
  matches reads them. After every merge the layout is rewritten; this is why it
  does not matter that the last node of a match decides.
* `OptimumSurvivesKills`: an optimal path is in the shared memory whenever it is
  still needed, between any two steps of a child.
* `BoundsCloseIn`: the lower bound never falls and the upper bound rises only to
  meet it, across all stages and the solver.
* `KeepsPromise`: the refinement. `Orchestration` implements `Promise` under a
  mapping in which a run that fails or has read a torn layout claims nothing.
* `IInv`: the inductive invariant of the proofs.

Three arcs suffice to lose arcs without losing a path, to lose one optimal path
and keep the other, and to lose both. Four characters let the selection be
repeated (before the second and the third), a child be killed before, between and
after refinements, and bounds lie on both sides of the optimum. The time limit of
one second lets the kernel kill children any number of times before the clock
moves, and the timer kill one, before the loop gives up; nothing depends on more time.

**`MCOrchestrationLive.cfg`** (about 62,000 states): `Termination` under `FairSpec`. Three
characters and two arcs. Fairness: the parent, the child and time move on, and a
timer that has expired delivers its signal. The operating system gives all four.
Nothing is assumed of the out-of-memory killer: it may kill every child or none.
That the clock stops at `Horizon` loses nothing: by then every timer has expired
and the loop's test of the time has become true.

**`MCGraphReduction.cfg`** (about 90,000 states): all pairs of strings over three of
eight characters, the first of length four, the second of up to four, up to renaming, and
one longer pair; the heuristic may find any better lower bound at any time.

* `NoBetterSolutionIsLost`: in both directions, the matches of every solution longer
  than the lower bound stay active, and the arcs between them in place. The arcs
  meant here are the successors the MDD is built from.
* `MatchBoundsHold`: the bound of a match covers what such a solution has ahead.
* `UpperIsBound`: the upper bound of the instance is one. It is overwritten by every pass, not
  lowered.

Strings of four over three characters are the shortest with characters that
repeat on a path (the relaxation), matches that are not dominating, and passes
that deactivate some matches and not others. An alphabet of eight is the smallest with
which sets of two characters are relaxed; on the longer pair that improves what the
relaxation by one has left. That the loops end is checked below.

**`MCHeuristic.cfg`** (about 3,000 states): six pairs of strings over four
characters, chosen so that the graph is reduced between two improvements, the
two chains of a match share a character, and rounds fail until `clear` is called.

* `LowerIsWitnessed`: the solution is a repetition-free common subsequence and at
  least as long as the lower bound.
* `AlwaysACandidate`: an active match always has an active successor, so that the
  choice of `heuristic.cpp:112` is never made from nothing.
* `ImplementsGraphReduction`: what `GraphReduction` assumes of the heuristic is what
  it does.

A round that improves the bound *after* `clear` does not occur at this size: the
fifth pair needs no round after the first good one, and the last has no solution
at all.

**`CheckSolution.cfg`** (about 1,340,000 states): all strings and candidates of up to three
characters out of three. `AcceptsSolutions`, `AcceptedUpToLast`.

**`MCSolvingEnumeration.cfg`** (about 113,000 states): from the strings to the solution by the
enumeration. Eight pairs of strings over four of five characters, and one over all five; two children, killed anywhere, all
characters tried and refined in all orders, the lower bound anywhere below the optimum or
at it (on the longer pair only at it). The reduction to be enumerated may be one no child has refined, so that the
enumeration has much to do.

* `SomeOptimumRemains`: as long as the lower bound is not optimal, a longest
  solution is a path of every MDD in either process, of the layout, and of what
  the parent would make of the layout if the child were killed now.
* `BoundsAreValid`: the bound of the instance, the parent's and the shared one, also after trials.
* `NodeFactsHold`: what a node is said to know is true of every repetition-free path
  longer than the lower bound, even while updates are pending.
* `RefinedIsRepetitionFree`: after all characters, no path repeats one, if the gap is open.
* `LayoutFits`, `LevelsAreInRange`: later layouts fit into the memory of the first one, and
  the indices into levels are within range.
* `EnteredIsAPath`, `StackFits`: the flags of the enumeration are the path it is on, and what
  waits on its stack fits into the memory that `reserve` has asked for.
* `FoundIsSolution`: what `set_solution` has gathered by these flags is a solution as long as the lower
  bound, in the direction it was found in.
* `ConcludesWithOne`: of all ways to end, only the one that `MCSolvingBackward.cfg` shows, in which the
  heuristic's solution is reversed, hands on what is not a solution.
* `SolvedIsLongest`: whatever the reduction has left, wherever the child was killed,
  a solved run has a longest solution and both bounds at its length.
* `ReductionEnds`, `SolvingEnds`: the reduction of the graph, and then the filter, the
  refinement and the solver come to an end.

In the first pair, copies of split nodes survive all refinements; in the second, a match is on two
levels of the layout (so that the last node decides, see `FlagsAreSetWhenRead`); in the third, paths
through the layout repeat a character; the others have MDDs of different widths in either
direction; the last has no solution. On the pair over five characters the gap is open although the
lower bound is optimal, which is rare for short strings: it was found by searching with the program
itself. The enumeration then ends without finding anything.

Fairness (`Progress`): the program as a whole goes on until it stops, which it does if
the processes are scheduled at all; no choice is assumed to be fair. It is written out as an
action that happens infinitely often, because evaluating `ENABLED` of these
actions takes TLC too long; that it is always enabled is what the search for deadlocks shows.

**`MCSolving.cfg`** (about 88,000 states): the same with the ILP as solver and one child, on three pairs
over six characters. The first is the one with the open gap, which uses five of them. On the second one nodes are deactivated with three arcs
left, of which one is skipped; with fewer arcs nothing is skipped, and shorter inputs have fewer. On the
third one the characters that the reduced graph gives the matches, from which the filter takes those of the nodes, are
not nested along its arcs: a match is inactive whose successors others still reach. That is where a
careless argument for the filter goes wrong.

* `SplitSeparates`: a node is split because of the paths that have the split character; those that go to
  its copy, which is told that none of them has it, do not. The refinement decides by what it knows of the
  predecessor (`mdd_refinement.cpp:61`), which may be out of date.
* `SomeOptimumRemains`, `NodeFactsHold`, `SolvedIsLongest`, as above. After complete reductions this run
  enumerates, too.
* `SolutionIsOne`: the solution is one, in the direction of the strings, as long as the lower bound says.
* `UnsolvedIsBounded`: the lower bound that is reported without a proof is still a bound, and so is the upper bound
  unless the integer program has failed to return one. There the property claims nothing of it, because it is wrong: see
  the first finding below, which `Orchestration` has the same action for (`GurobiFails`).

Five runs look for a violation, and find it:

| Run | What the repository says | What the code does |
|---|---|---|
| `MCReportedUpperIsBound.cfg` | README.md:106, "Derived upper bound" | an exception of the ILP solver (`gurobi_graph_ilp.cpp:60`), or a limit before there is a bound (`:58`), leaves `solver_upper_bound` at 0 or below, and the lower bound is reported as upper bound; `solved` stays false |
| `MCCompleteMeansAllRefined.cfg` | README.md:112, "... completed for all characters" | the flag is set whenever the gap is closed (`reduction_orchestration.cpp:141`, `mdd_reduction.cpp:54`) |
| `MCSolvedMeansProved.cfg` | README.md:104, "found and proved an optimal solution" | the complete flag is set before the layout is rewritten in place (`mdd_reduction.cpp:144-146`); a child killed within leaves a mixture of two layouts that the parent enumerates |
| `MCSolvingBackward.cfg` | README.md:104, "found and proved an optimal solution"; main.cpp:220, "String is out of available_characters." | with `SOLVER = ENUMERATION` the solution of the heuristic is reversed (`main.cpp:185`) when the enumeration finds nothing longer and the problem was solved backwards; the check rejects it and `solved` is false. With the default, `GUROBI_GRAPH`, the enumeration follows complete reductions only, and `SolutionIsOne` holds |
| `CheckSolutionLast.cfg` | main.cpp:241, "Strings are out of characters." | the test compares with `>` where "no occurrence" is the size itself |

## What is proved

### Orchestration

`OrchestrationProofs` proves, for all alphabets, optima, arc sets, optimal paths
and time limits that satisfy `OrchestrationAssumption`:

| Theorem | States |
|---|---|
| `Invariance` | `Spec => []IInv` |
| `TypeCorrect`, `BoundSoundness`, `SolutionSoundness`, `FlagsSet`, `OptimumSurvival` | the invariants above |
| `BoundsClosing` | `BoundsCloseIn` |
| `Refinement` | `Spec => KeepsPromise` |

The invariants are not inductive. That a solved run is optimal depends on
what the solver was given, that on what the last child left, and that on how
far the child had come when it was killed. `IInv` says of each place where the two
processes can be

* `ParentWaits`: the parent waits exactly as long as there is a child;
* `TornWhere`: a torn layout comes only from a child that has declared itself
  complete, and is repaired unless the gap is closed;
* `BoundsPassedOn`: the bounds handed from stage to stage are the ones held;
* `UppersSound`: *every* copy of the upper bound (parent's, shared, child's) is valid;
* `PathsSound`: *every* MDD that will be read again holds an optimal path: the
  parent's together with the flags, the child's, the solver's;
* `ChildWithin`: the child's MDD lies within the parent's and within the flags, so
  that an optimal path of the first is one of the others;
* `RefinedBeforeDone`: the child gives up paths only after the last character.

`UppersSound` and `PathsSound` hold only while the optimum is still needed
(`Needed`): afterwards bounds may fall below it and paths go. The proof has one
lemma for the initial state and one each for the actions of the main process, the
child and the environment, with a step per action. The refinement maps every step to a
step of `Promise` or a stutter, using `IInv`.

The assumptions are the contracts named above, which are part of the actions. Where the
parts are modelled, they are proved:

| Contract in `Orchestration` | Where it holds |
|---|---|
| `ReduceGraph` | proved: `UpperBoundIsValid`, `ReductionsAreSafe` of `GraphReductionProofs` |
| `HeuristicImproves` | proved: `LowerWitnessed`, `ImplementsReduction` of `HeuristicProofs` |
| `Filtered` | proved: `FilteringIsSound` of `MddSoundnessProofs`, before any refinement; `ReductionIsSound`\* after |
| the refinement in `ChildRefines` | proved\*: `RefinementIsSound` of `MddSoundnessProofs` (`SomeOptimumRemains`, `NodeFactsHold`) |
| `BottomBound`, `SelectCharacters` | proved\*: `RefinementIsSound` (`BoundsAreValid`) |
| `ChildKeepsOnePath`, `Best` | proved\*: `ReductionIsSound` of `MddSoundnessProofs`, `SolvedRunsAreOptimal` of `SolvingProofs` |
| `GurobiFinishes`, `GurobiTimesOut` | proved\*: `SolvedRunsAreOptimal`, `UnsolvedRunsAreBounded` of `SolvingProofs` |
| `GurobiFails` | `IlpFails` of `Solving`; the lower bound it leaves is proved\* one by `UnsolvedRunsAreBounded`, nothing is claimed of the upper |

\* from `SplitSeparates`, and where a child has been complete also from `RefinedIsRepetitionFree`, which the
runs check (see *MddSoundness*).

### GraphReduction

`GraphReductionProofs` proves, for all pairs of strings that are not empty over all alphabets of
1 to `INT_MAX` characters:

| Theorem | States |
|---|---|
| `Invariance` | `Spec => []IInv` |
| `TypeCorrect` | `TypeOK` |
| `UpperBoundIsValid` | `UpperIsBound`: as long as the lower bound is not optimal, the upper bound of the instance is one |
| `ReductionsAreSafe` | `NoBetterSolutionIsLost`: deactivation and erased arcs keep every longer solution, in both directions |
| `MatchBoundsAreValid` | `MatchBoundsHold`: the bounds of the matches cover what such a solution has ahead |

The invariants speak of solutions and of the nearest matches by which they pass through
the graph. They are not inductive: all bounds are computed over *dominating* successors
only, and the way of a solution need not lead over these. `IInv` speaks of *chains*
instead: sets of matches one behind the other, with different characters. A chain with more
characters than the lower bound (`Better`)

* keeps its matches active (`BetterStayActive`) and its arcs in place (`ArcsStay`);
* is covered by the bound of each of its matches (`BoundsCover`), and, where they are read, by the
  available characters (`AvailableCover`).

What makes it inductive is `Exchange`: of the chain's place *m* take any
dominating successor *s* that is not behind what the chain has next; the chain with *s* in place of
its match of the same character is a chain again, has lost no character, neither all in all nor
ahead of *m*, and goes from *m* to *s*. So each covering can be shown by following
dominating arcs, along chains that change on the way. `SolutionChain` leads back: the
nearest matches by which a solution passes are a chain, each the next successor of the one before.
`LongestSolution` says that `opt` is a length that some solution has, and none exceeds.

Each of the recursive functions (`AvailableAfter`, `SimpleBounds`, `RelaxedBounds`, `RemainingActive`,
and those of `IsSubsequence`, `Solutions` and `Passes`) first gets a lemma that it satisfies the equation that defines
it, from `RecursionHasSolution`: a function whose value at a node depends on nodes
of a smaller rank only exists. What they compute is then shown with least
counterexamples (`LeastRank`) instead of induction: a node of least rank of which the claim is false.

The relaxation is proved for arbitrary sets of characters, not only those the program
selects: for a chain there is always a subset of them whose entry covers it (`RelaxationCovers`).

### Heuristic

`HeuristicProofs` proves, for the same strings and for all choices of the heuristic:

| Theorem | States |
|---|---|
| `CandidatesExist` | `HeuristicSpec => []AlwaysACandidate` |
| `HeuristicInvariance` | `HeuristicSpec => [](IInv /\ HInv)` |
| `LowerWitnessed` | `LowerIsWitnessed`: the solution is one, and as long as the lower bound says |
| `ImplementsReduction` | `HeuristicSpec => ImplementsGraphReduction` |

The first one rests on `CandidatesStay`: only between the deactivation of matches and the
reduction of the arcs can an active match be without an active dominating successor, because
`reduce_graph` pushes the end where nothing else is left.

The others rest on `HInv`. The difficulty is that the memory of a match has two parts that drift
apart: its characters (`heurChars`), which are recomputed in every round or cleared, and the pointer to the next match
(`previous`), by which a solution is put together. The pointers of a match persist over
rounds, those of the matches they point to change, and matches on the way are deactivated and
then never visited again. `HInv` says

* `ChainsLead`: pointers lead ahead in both strings, active or not, so that chains end and what
  is put together from two of them is a common subsequence (`ThroughIsSolution`);
* `Settled`: what an active match is said to have ahead of it in the direction of the last complete pass
  is on its chain. For the other direction this need not hold: that is why the score of a match adds the
  characters of the pass before, in the opposite direction, to those of the present one;
* `VisitedSettled`: for what the present pass has been through the same holds already, what such a
  match points to has been visited, too, so that no chain of it changes any more (`ChainStays`),
  and it has no more characters than the best solution;
* `RoundRuns`: a round is not interrupted by the reduction, so that no match is deactivated within a
  pass.

The last conjunct of `VisitedSettled` is there for the root and the leaf, at which a pass ends: they have no character, no
solution is put together from them (`found` cannot improve there), and the characters that reach them have been counted.

### CheckSolution

`CheckSolutionProofs` proves, for all inputs and candidates:

| Theorem | States |
|---|---|
| `Invariance` | `Spec => []IInv` |
| `SolutionsAreAccepted` | `AcceptsSolutions`: a solution of at least the lower bound is not rejected |
| `AcceptedIsCommonUpToLast` | `AcceptedUpToLast`: what is accepted is repetition-free, and a common subsequence except perhaps for its last character |

The second cannot be stronger, see `CheckSolutionLast.cfg`. The invariant says that the positions are
those of the greedy embedding of the characters seen so far, which is the leftmost one
(`GreedyAdvances`): if that one has run out of the string, there is none.

### MddReduction

`MddReductionProofs` proves, for the same strings, for any number of children and wherever the
heuristic ends:

| Theorem | States |
|---|---|
| `MddInvariance` | `MddSpec => []MddInv` |
| `MddTypeCorrect` | `MddTypeOK` |
| `LayoutAlwaysFits` | `LayoutFits`: what is laid out later fits into the memory sized for the first layout |

The size of a layout is not bounded by anything the state shows: a child may have split
nodes, so that its MDD is larger than what was laid out, and the layout is written nevertheless.
That it fits depends on `make_only_one_best_solution_remaining` having run before, and on
every node and arc of the path that remains coming from a *different* one of the
parent's MDD. For this `MddInv` says

* `MddPart`, `ParentPart`, `WorkPart`, `SelectionPart`: each of the four MDDs `IsDiagram`: levels of nodes
  whose arcs join existing nodes, from one depth to the next and from a match to a successor of it, with facts of
  the right kind, and with the root on its first level, which no filter ever drops;
* `Within`: what the child works on (`mdd`, `work`, `selection`) lies, when its splits are undone
  (`Unsplit`), within the parent's MDD, nodes, arcs and depths alike; and the parent's MDD has no split nodes
  (`Plain`);
* `Thin`: what a complete child lays out has one node on every depth. Undoing the splits is then
  one to one, so that it has at most as many nodes and arcs as the parent's MDD (`PartSize`), which in turn
  is smaller than the one that the memory was sized for (`SharedPart`);
* `GraphPart`: up to the first MDD `IInv` of `GraphReduction` with `BoundedWhenDone`, from then on what
  remains of it: the graph is not changed any more.

`ThinDiagram` shows that the greedy path is thin from the recursive function that builds it; `NonEmptyFacts`
that the levels that remain when empty ones are erased are the old ones in the old order (from `Ranks` in
`RecursionLemmas`: in a finite ordered set there is exactly one element with *k* below it).

### MddSoundness

`MddSoundnessProofs` proves of the same specification, again for all strings:

| Theorem | States |
|---|---|
| `FilteringIsSound` | `SomeOptimumRemains`, `BoundsAreValid` and `NodeFactsHold`, until the first child has filtered its copy |
| `RefinementIsSound` | the same, through trials, refinements, deaths of children and merges, until a child is complete; if `[]SplitSeparates` |
| `ReductionIsSound` | the same, to the end of the reduction; if `[](SplitSeparates /\ RefinedIsRepetitionFree)` |

The first one has no hypothesis. It covers the filter as a whole: the updates of nodes with the pending
ones in between, what is dropped, the early stop, the levels
cut off, both initial MDDs, the pruning of the second one by the layout of the first, and the copy of a child.

None of the three properties is inductive. That *some* longest solution is left is not: a
solution is left as a path of nodes, but the filter drops nodes by the matches they have, so that
of two longest solutions each may lose the node the other one needs. `OptInv` instead follows
one: there is a sequence *W* of matches (`WayPart`) such that

* *W* is a way through the parent's MDD, the child's MDDs and the layout alike. *W* being the same in all of them is what makes a
  kill harmless: whatever combination of flags and MDD the parent reads, *W* is in both;
* a successor that comes before the next match of *W* has a character that *W* has used already (`Safe`). The filter
  drops an arc if a successor before it has a character that no path to the node has used, or if there are more of them than
  characters used, and so never drops one of *W*.

Its other parts are `BoundPart` (every copy of the bound), `FactPart` (facts are true: `Sound`
of every repetition-free path longer than the lower bound, `Local` of what a node has behind it, and
`Aligned`, that nodes such a path can reach are on the level of their depth), `NamePart` (on which characters a node has been split) and `CoverPart` (the reduced graph still covers every
better solution, until the first MDD is built from it). It is claimed as long as the lower bound is not optimal.

When a child is complete, its whole MDD is replaced by one path that goes from node to
node by the best bound (`mdd_reduction.cpp:152-183`), and *W* is given up for this path. That the path gets as far as *W*
is not due to its bounds being valid: they might be too large somewhere. `EndInv` says that they are
*accounted for*. The bound of a node without pending updates is one more than that of one of its successors
(`Tight`, `Settled`), also while the filter goes up (`Quiet`), and what is in the child's MDD is in the layout
(`InFlat`). So the greedy path is as long as the bound of the root, and a longest solution if it repeats no character.

The hypotheses are what the splitting achieves. `split_node` leaves the paths that have the split
character to the node and gives the copy the others, going by `allRoot` of the predecessors: the
characters that *all* paths to them have. That this separates the paths is `SplitSeparates`; that there are no others when
all characters are refined is `RefinedIsRepetitionFree`. Both hold in all runs, and are not proved. The
obstacle is a node that no repetition-free path reaches any more, but which is still in the MDD. Its sets of
characters are intersections over whatever predecessors it has, and may lose a split character again; with it may its
successors, which good paths do pass. Nor are the characters of the matches, which these sets start from, nested along the arcs
(the third pair of `MCSolving.cfg`). Whether such a node remains depends on the order of pruning along the whole MDD, which no
invariant of a node and its neighbours that we tried captures.

### Solving

`SolvingProofs` proves, for the same strings and wherever the reduction ends:

| Theorem | States |
|---|---|
| `SolvingInvariance` | `SolvingSpec => []SolvingInv` |
| `PathsAreEntered` | `EnteredIsAPath` |
| `StackAlwaysFits` | `StackFits` |
| `FoundSolutions` | `FoundIsSolution` |
| `ForwardSolutionIsOne` | `SolutionIsOne`, if the problem is solved forwards |
| `OtherwiseConcludesRight` | `ConcludesWithOne`: the reversed heuristic's solution is the only wrong one |
| `SearchInvariance` | `[]SearchInv`, if `[](SplitSeparates /\ RefinedIsRepetitionFree)` |
| `SolvedRunsAreOptimal` | `SolvedIsLongest`, from the same |
| `UnsolvedRunsAreBounded` | `UnsolvedIsBounded`, from the same: the lower bound always, the upper bound where the integer program has returned one |

The enumeration has no path: it has a stack on which entered nodes and others that wait are mixed, and
a flag per node. That the flags mark one path is not inductive, as leaving a node shows what waits below
it. `SolvingInv` has three parts, for what comes before the enumeration (`Reducing`, with `MddInv`), the enumeration
(`Enumerating`) and the end (`Concluded`). In the second one `StackOK` says of *every* place of the stack, entered or not,

* how deep its node is: two levels behind as many entered nodes as are below it;
* who has pushed it (`PushedBy`): the last entered node below it, or the root if there is none;
* that all that is above an entered node lies behind it in both strings and has another character (`LiesOn`); and
  that no node is on the stack twice.

`EnteredPath` reads the path off this: the last entered node below an entered one is the one before it.
`StackRoom` does the count: two nodes of one level have the same entered nodes below
them, so that one node has pushed both; of each character a match has one successor at most
(`OneSuccessor`), so that there is at most one node of each character on each level, and there are at most `upper`
levels because fewer than `upper` nodes are entered. That is the `alphabet_size * upper_bound` of
`sequence_enumeration_solver.cpp:35`; it would not hold if a node could be entered twice
on the way. `OrientedIsSolution` makes a solution of a path in either direction. For the ILP, `SelectionFacts`
unfolds the recursive definition of the selections, and `SelectedIsSolution` shows that pairs that do not cross
and have different characters are, sorted by their first position, sorted by the second as well.

Backwards `SolutionIsOne` is false (`MCSolvingBackward.cfg`), so that `ForwardSolutionIsOne` has to say
so; what the enumeration itself has found is right in both directions (`FoundSolutions`), and so is every end but
that of the finding (`OtherwiseConcludesRight`).

The last three theorems are about the program as a whole, from the strings to the verdict. `SearchInv` takes
`SoundInv` (`OptInv` and `EndInv`) over from the reduction and carries *W* through the solver:

* `AheadPart`: as long as the lower bound is not optimal, *W* is laid out and the enumeration has it still
  ahead (`StillAhead`): for some *i* the node of its match *i + 1* waits on the stack, and the entered nodes
  below it are those of its first *i* matches. Pushing the successors of a node of *W* puts the next one
  there; a branch off *W* lies above it, and ends by its nodes being left. So the stack cannot be empty before a solution of that length has been found;
* the matches that are active for the ILP are those of the layout, all of *W* among them, so that *W* is
  one of the selections it may choose (`WayIsSelected`): "infeasible" is a proof, and a bound that is returned at
  the time limit is at least *W*'s length.

What is claimed of the end is `SolvedIsLongest` and `UnsolvedIsBounded`: with the gap closed, or with a
time limit reached and a bound returned, both bounds are what they are said to be (`IlpReturnsSafe`). Where the
integer program returns no bound, only the lower bound is (`IlpFailsSafe`). That a bound Gurobi
returns is valid, and a selection it calls optimal is, are assumptions about Gurobi.

### Only model-checked

* Liveness (`Termination`, `ReductionEnds`, `SolvingEnds`), which is beyond the
  prover as are fairness and `ENABLED`.
* `SplitSeparates` and `RefinedIsRepetitionFree`, of which theorems take one or both as hypotheses, for
  the reason given under *MddSoundness*.
* `LevelsAreInRange`, which needs that no level in the middle of an MDD vanishes while the gap is open.
* `SolutionIsOne` in backward runs of `MCSolving.cfg`: that after a complete reduction the enumeration finds something.

## What is not modelled

* The addresses of the layout's cells; a layout is its levels, nodes and arcs, and its size.
* The scores of the character selection and of the choice of sets for the relaxation:
  they only order, and every order is checked.
* Gurobi itself, which is the outcome of a call.
* `short` in the tables of next occurrences and in the parser.
* Input, output, dot files, memory figures: formatting, or numbers nothing depends on.
* `HEURISTIC_SOLUTION_DECREMENTER` and the other switches of `config.hpp` have their values
  there: 0, no dot files, no time series. `SOLVER` is a constant of `Solving`; `Orchestration`
  has `GUROBI_GRAPH`.
* A failing `mmap`, and a signal handler that hangs in `exit`.
* Scripts, instances, results and vendored libraries.

## Plan

1. (done) `Promise`, `Orchestration` and its proofs.
2. (done) `GraphReduction`, `Heuristic`, `CheckSolution`.
3. (done) `Mdd`, `MddReduction`: filter, refinement, selection and layout on nodes.
4. (done) `Solving`: the enumeration and the ILP behind them.
5. (done) Proofs of `GraphReduction`, `Heuristic` and `CheckSolution`.
6. (done) Proofs of `MddReduction`: its types and the size of the layout.
7. (done) Proofs of `Solving`: the stack discipline of the enumeration, and the solutions that are handed on.
8. (done) Proofs of the contracts: the filter, the refinement and the solvers keep a longest solution, up to
   `SplitSeparates` and `RefinedIsRepetitionFree`.
9. The indices into levels (`LevelsAreInRange`), and these two hypotheses.
