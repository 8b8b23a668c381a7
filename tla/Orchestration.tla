---------------------------- MODULE Orchestration ----------------------------
(***************************************************************************)
(* One run of the program after its input has been read: the main process  *)
(* (main.cpp, reduction_orchestration.cpp), the child processes it forks   *)
(* to refine the MDD (mdd_reduction.cpp) and the memory they share         *)
(* (mdd/shared_object.hpp).  A child may be killed between any two of its  *)
(* steps, by its own timer or by the kernel when memory runs out.          *)
(*                                                                         *)
(* An MDD is the set of its arcs, an arc being a pair of matches on two    *)
(* neighbouring levels: that is what the shared memory stores and what is  *)
(* carried from one process to the next.  Of the arcs the model knows only *)
(* which of them make up a longest solution.  The graph reductions, the    *)
(* filter and the refinement enter as what they promise: they remove arcs  *)
(* and lower bounds, and as long as the lower bound is not optimal they    *)
(* keep one optimal path and an upper bound that is valid, provided that   *)
(* they were given one.                                                    *)
(***************************************************************************)
EXTENDS Integers, FiniteSets

CONSTANTS
    Sigma,         \* alphabet_size
    Opt,           \* the length of a longest repetition-free common subsequence
    Arcs,          \* the arcs of an initial MDD
    OptPaths,      \* the arc sets of its root-to-sink paths of length Opt
    MddTimeout,    \* MDD_TIMEOUT_IN_SECONDS
    BadRunLimit,   \* number_of_bad_runs_limit of the heuristic
    MaxSlack       \* how often a pass of the graph reduction can improve

ASSUME OrchestrationAssumption ==
    /\ Sigma \in Nat
    /\ Opt \in 0..Sigma
    /\ OptPaths \subseteq SUBSET Arcs
    /\ OptPaths # {}
    /\ MddTimeout \in Nat
    /\ BadRunLimit \in Nat
    /\ MaxSlack \in Nat

VARIABLES
    (* the instance of the main process *)
    pc,               \* where the main process is
    lower,            \* lower_bound
    upper,            \* upper_bound
    heuristicLength,  \* heuristic_solution_length
    reductionUpper,   \* reduction_upper_bound
    valid,            \* is_valid_solution
    badRuns,          \* number_of_bad_runs
    slack,            \* what the graph reductions may still take away
    mdd,              \* the arcs of instance.mdd
    active,           \* the arcs between the active matches
    (* the shared object *)
    shUpper,          \* upper_bound
    shComplete,       \* is_mdd_reduction_complete
    shRefined,        \* number_of_refined_characters
    laid,             \* the arcs laid out in flat_levels
    flat,             \* those whose is_active is set
    torn,             \* the layout is partly the old and partly the new one
    (* the child process *)
    cpc,              \* where the child is
    cUpper,           \* upper_bound of its copy of the instance
    cMdd,             \* the arcs of mdd_reduction
    cSel,             \* the arcs of mdd_character_selection
    deadline,         \* when its interval timer expires
    (* the environment *)
    now,              \* the seconds since instance.start
    (* history *)
    tornRead,         \* the main process has parsed a torn layout
    boundLost         \* the ILP solver has returned without a bound

mainVars   == <<lower, upper, heuristicLength, reductionUpper, valid, badRuns,
                slack, mdd, active>>
sharedVars == <<shUpper, shComplete, shRefined, laid, flat, torn>>
childVars  == <<cUpper, cMdd, cSel, deadline>>
ghostVars  == <<tornRead, boundLost>>
vars == <<pc, mainVars, sharedVars, cpc, childVars, now, ghostVars>>

-----------------------------------------------------------------------------
Min2(a, b) == IF a < b THEN a ELSE b
Max2(a, b) == IF a > b THEN a ELSE b

(* The horizon of the clock: no child that may be started outlives it.     *)
Horizon == MddTimeout + 2

(* Optimal solutions survive in a set of arcs.                             *)
HasOptPath(A) == \E p \in OptPaths : p \subseteq A

(* The promise of every bound the reductions compute: valid unless the     *)
(* solution at hand is optimal already.                                    *)
SoundUpper(u) == lower < Opt => u >= Opt

(* filter_mdd on the arcs A under the upper bound u leaves B and v.  It    *)
(* returns at once when the gap is closed.                                 *)
Filtered(A, u, B, v) ==
    IF lower >= u
    THEN B = A /\ v = u
    ELSE /\ B \subseteq A
         /\ v <= u
         /\ (lower < Opt /\ HasOptPath(A)) => /\ HasOptPath(B)
                                              /\ v >= Min2(Opt, u)

(* Each pass of filter_mdd publishes its upper bound; none runs when the   *)
(* gap is closed already.                                                  *)
Published(u, v, published) == IF lower >= u THEN published ELSE v

IsPowerOfTwo(n) == n > 0 /\ \E k \in 0..n : n = 2^k

(* What the child does next when n characters are refined.                 *)
NextCharacterPastEnd(n) ==   \* mutant: one character too many
    IF n <= Sigma
    THEN IF IsPowerOfTwo(n) THEN "reselect" ELSE "refine"
    ELSE "complete"

NextCharacterStopsShort(n) ==   \* mutant: one character too few
    IF n + 1 < Sigma
    THEN IF IsPowerOfTwo(n) THEN "reselect" ELSE "refine"
    ELSE "complete"

NextCharacter(n) ==
    IF n < Sigma
    THEN IF IsPowerOfTwo(n) THEN "reselect" ELSE "refine"
    ELSE "complete"

Init ==
    /\ pc = "heuristic"
    /\ lower = 0
    /\ upper = Sigma
    /\ heuristicLength = 0
    /\ reductionUpper = 0
    /\ valid = FALSE
    /\ badRuns = 0
    /\ slack = MaxSlack
    /\ mdd = {}
    /\ active = {}
    /\ shUpper = 0
    /\ shComplete = FALSE
    /\ shRefined = 0
    /\ laid = {}
    /\ flat = {}
    /\ torn = FALSE
    /\ cpc = "none"
    /\ cUpper = 0
    /\ cMdd = {}
    /\ cSel = {}
    /\ deadline = 0
    /\ now = 0
    /\ tornRead = FALSE
    /\ boundLost = FALSE
-----------------------------------------------------------------------------
(* The main process up to the MDD: main, heuristic_solve, reduction and    *)
(* reduce_graph_pre_solver.                                                *)

(* A round of the heuristic that finds a longer solution; the graph is     *)
(* reduced with it unless that closes the gap.                             *)
HeuristicImproves ==
    /\ pc = "heuristic"
    /\ lower < upper /\ badRuns < BadRunLimit
    /\ \E l \in (lower + 1)..Opt, u \in 0..upper :
          /\ lower' = l
          /\ IF l >= upper THEN u = upper ELSE l < Opt => u >= Min2(Opt, upper)
          /\ upper' = u
    /\ badRuns' = 0
    /\ UNCHANGED <<pc, heuristicLength, reductionUpper, valid, slack, mdd, active,
                   sharedVars, cpc, childVars, now, ghostVars>>

HeuristicBadRun ==
    /\ pc = "heuristic"
    /\ lower < upper /\ badRuns < BadRunLimit
    /\ badRuns' = badRuns + 1
    /\ UNCHANGED <<pc, lower, upper, heuristicLength, reductionUpper, valid, slack,
                   mdd, active, sharedVars, cpc, childVars, now, ghostVars>>

(* The heuristic stops, and a closed gap leaves nothing to reduce.         *)
HeuristicStops ==
    /\ pc = "heuristic"
    /\ ~(lower < upper /\ badRuns < BadRunLimit)
    /\ heuristicLength' = lower
    /\ IF lower >= upper
       THEN pc' = "solve" /\ upper' = lower /\ reductionUpper' = lower
       ELSE pc' = "graph" /\ UNCHANGED <<upper, reductionUpper>>
    /\ UNCHANGED <<lower, valid, badRuns, slack, mdd, active, sharedVars, cpc,
                   childVars, now, ghostVars>>

(* One pass of the graph reductions: the loop goes on as long as a pass    *)
(* improves something, and what can be improved is finite.                 *)
ReduceGraph ==
    /\ pc = "graph" /\ lower < upper
    /\ \E u \in 0..upper :
          /\ lower < Opt => u >= Min2(Opt, upper)
          /\ upper' = u
    /\ \/ slack > 0 /\ slack' = slack - 1 /\ UNCHANGED pc
       \/ pc' = "build" /\ UNCHANGED slack
    /\ UNCHANGED <<lower, heuristicLength, reductionUpper, valid, badRuns, mdd, active,
                   sharedVars, cpc, childVars, now, ghostVars>>

(* The graph reductions close the gap: there will be no MDD.               *)
ReduceGraphCloses ==
    /\ pc = "graph" /\ lower >= upper
    /\ upper' = lower
    /\ reductionUpper' = lower
    /\ pc' = "solve"
    /\ UNCHANGED <<lower, heuristicLength, valid, badRuns, slack, mdd, active,
                   sharedVars, cpc, childVars, now, ghostVars>>

-----------------------------------------------------------------------------
(* The main process and the MDD: reduce_graph_pre_solver_by_mdd.           *)

(* serialize_initial_mdd: the layout of B, every flag of it set.           *)
LaysOutOldFlags(B) == laid' = B /\ flat' = flat \cap B   \* mutant: flags not set

LaysOut(B) == laid' = B /\ flat' = B

(* Both initial MDDs are filtered, one is kept and laid out in memory that *)
(* is shared with the children.                                            *)
BuildMdd ==
    /\ pc = "build"
    /\ \E A \in SUBSET Arcs, u \in 0..upper :
          /\ IF lower >= upper
             THEN u = upper
             ELSE lower < Opt => HasOptPath(A) /\ u >= Min2(Opt, upper)
          /\ mdd' = A /\ LaysOut(A)
          /\ upper' = u
          /\ shUpper' = u
    /\ shComplete' = FALSE
    /\ torn' = FALSE
    /\ pc' = "loop"
    /\ UNCHANGED <<lower, heuristicLength, reductionUpper, valid, badRuns, slack, active,
                   shRefined, cpc, childVars, now, ghostVars>>

GapOpen == lower < upper /\ ~shComplete

NeverUp == FALSE   \* mutant: the loop does not look at the clock

TimeIsUp == now > MddTimeout

(* filter_matches_by_flat_mdd: the active matches are those of the active  *)
(* nodes, whatever garbage a torn layout makes of them.                    *)
MatchesOfSome(A) == A \subseteq flat   \* mutant: a match lost with one of its nodes

MatchesFromFlat(A) == IF torn THEN A \subseteq Arcs ELSE A = flat

(* The time for the reduction is used up: the MDD stays as it is.          *)
StopAtTimeout ==
    /\ pc = "loop" /\ GapOpen /\ TimeIsUp
    /\ \E A \in SUBSET Arcs : MatchesFromFlat(A) /\ active' = A
    /\ upper' = Max2(upper, lower)
    /\ reductionUpper' = Max2(upper, lower)
    /\ pc' = "solve"
    /\ UNCHANGED <<lower, heuristicLength, valid, badRuns, slack, mdd, sharedVars, cpc,
                   childVars, now, ghostVars>>

(* The gap is closed or a child has refined every character.               *)
FinishReduction ==
    /\ pc = "loop" /\ ~GapOpen
    /\ shComplete' = TRUE
    /\ \E A \in SUBSET Arcs : MatchesFromFlat(A) /\ active' = A
    /\ tornRead' = (tornRead \/ torn)
    /\ upper' = Max2(upper, lower)
    /\ reductionUpper' = Max2(upper, lower)
    /\ pc' = "solve"
    /\ UNCHANGED <<lower, heuristicLength, valid, badRuns, slack, mdd, shUpper, shRefined,
                   laid, flat, torn, cpc, childVars, now, boundLost>>

(* The child inherits the instance and arms its timer.                     *)
Fork ==
    /\ pc = "loop" /\ GapOpen /\ ~TimeIsUp
    /\ pc' = "wait"
    /\ cpc' = "copy"
    /\ cUpper' = upper
    /\ deadline' = now + Max2(1, MddTimeout - now)
    /\ UNCHANGED <<mainVars, sharedVars, cMdd, cSel, now, ghostVars>>

ForkFails ==
    /\ pc = "loop" /\ GapOpen /\ ~TimeIsUp
    /\ pc' = "failed"
    /\ UNCHANGED <<mainVars, sharedVars, cpc, childVars, now, ghostVars>>

(* waitpid returns: the main process takes over the child's bound.         *)
MergedUpperUnclamped == Max2(shUpper, lower)   \* mutant: the child is believed

MergedUpper == Max2(Min2(upper, shUpper), lower)

(* With a closed gap it looks no further at what the child has left ...    *)
MergeClosed ==
    /\ pc = "wait" /\ cpc = "exited"
    /\ lower >= MergedUpper
    /\ upper' = MergedUpper
    /\ pc' = "loop" /\ cpc' = "none"
    /\ UNCHANGED <<lower, heuristicLength, reductionUpper, valid, badRuns, slack, mdd,
                   active, sharedVars, childVars, now, ghostVars>>

(* ... and otherwise prunes its MDD by the shared one, filters it, and     *)
(* lays it out anew.  What a torn layout prunes is arbitrary.              *)
MergeOpen ==
    /\ pc = "wait" /\ cpc = "exited"
    /\ lower < MergedUpper
    /\ \E P \in SUBSET mdd, B \in SUBSET mdd, u \in 0..Sigma :
          /\ torn \/ P = mdd \cap flat
          /\ Filtered(P, MergedUpper, B, u)
          /\ mdd' = B /\ LaysOut(B)
          /\ shUpper' = u
          /\ upper' = Max2(u, lower)
    /\ torn' = FALSE
    /\ tornRead' = (tornRead \/ torn)
    /\ pc' = "loop" /\ cpc' = "none"
    /\ UNCHANGED <<lower, heuristicLength, reductionUpper, valid, badRuns, slack, active,
                   shComplete, shRefined, childVars, now, boundLost>>

(* Parsing a torn layout may just as well end the process.                 *)
CrashOnTornLayout ==
    /\ torn
    /\ \/ pc = "wait" /\ cpc = "exited" /\ lower < MergedUpper
       \/ pc = "loop" /\ ~GapOpen
    /\ pc' = "failed" /\ cpc' = "none"
    /\ tornRead' = TRUE
    /\ UNCHANGED <<mainVars, sharedVars, childVars, now, boundLost>>

-----------------------------------------------------------------------------
(* The main process after the reduction: solve and the end of main.        *)

(* The solver stage ends in the maximum of the two bounds.                 *)
Conclude(l, u, ok) ==
    /\ lower' = l
    /\ upper' = Max2(u, l)
    /\ valid' = ok
    /\ pc' = "done"
    /\ UNCHANGED <<heuristicLength, reductionUpper, badRuns, slack, mdd, active,
                   sharedVars, cpc, childVars, now, tornRead>>

SolveClosed ==
    /\ pc = "solve" /\ lower >= upper
    /\ Conclude(lower, upper, TRUE)
    /\ UNCHANGED boundLost

(* l is what an exact search for something longer than known finds among   *)
(* the arcs A: the optimum if A holds it, less otherwise.                  *)
Best(A, known, l) ==
    IF HasOptPath(A) THEN l = Max2(known, Opt) ELSE l \in known..Max2(known, Opt - 1)

(* The enumeration walks all that is laid out, and stops at the upper      *)
(* bound if it gets that far.                                              *)
SolveEnumeration ==
    /\ pc = "solve" /\ lower < upper /\ shComplete
    /\ \E l \in 0..Sigma : /\ Best(laid, lower, l)
                           /\ LET found == Min2(l, upper)
                              IN  Conclude(found, Min2(upper, found), TRUE)
    /\ UNCHANGED boundLost

(* The ILP asks for more than the lower bound among the active matches.    *)
CallsGurobi == pc = "solve" /\ lower < upper /\ ~shComplete

GurobiFinishes ==
    /\ CallsGurobi
    /\ \E l \in 0..Sigma :
          /\ Best(active, heuristicLength, l)
          /\ Conclude(l, Min2(l, reductionUpper), TRUE)
    /\ UNCHANGED boundLost

(* Its time limit leaves the best solution so far and a bound.             *)
GurobiTimesOut ==
    /\ CallsGurobi
    /\ \E best, l, bound \in 0..Sigma :
          /\ Best(active, heuristicLength, best)
          /\ l \in heuristicLength..best
          /\ bound >= best
          /\ Conclude(l, Min2(bound, reductionUpper), FALSE)
    /\ UNCHANGED boundLost

(* An exception, or a time limit that strikes before there is any bound,   *)
(* leaves solver_upper_bound at zero or below.                             *)
GurobiFails ==
    /\ CallsGurobi
    /\ Conclude(heuristicLength, Min2(0, reductionUpper), FALSE)
    /\ boundLost' = TRUE

-----------------------------------------------------------------------------
(* The child process: reduce_by_mdd.                                       *)

childFrame == <<pc, mainVars, now, ghostVars>>

ChildRuns == cpc \notin {"none", "exited"}

Exits ==
    /\ cpc' = "exited"
    /\ cUpper' = 0 /\ cMdd' = {} /\ cSel' = {} /\ deadline' = 0

(* It copies the MDD, prunes it by what the shared memory says and filters *)
(* it; the character selection gets a copy of the result.                  *)
ChildCopies ==
    /\ cpc = "copy"
    /\ \E B \in SUBSET mdd, u \in 0..cUpper :
          /\ Filtered(mdd \cap flat, cUpper, B, u)
          /\ cMdd' = B /\ cSel' = B
          /\ cUpper' = u
          /\ shUpper' = Published(cUpper, u, shUpper)
    /\ cpc' = "gap"
    /\ UNCHANGED <<childFrame, shComplete, shRefined, laid, flat, torn, deadline>>

ChildFindsGapClosed ==
    /\ cpc = "gap" /\ lower >= cUpper
    /\ shComplete' = TRUE
    /\ Exits
    /\ UNCHANGED <<childFrame, shUpper, shRefined, laid, flat, torn>>

(* The character selection refines and filters copies of its MDD, one per  *)
(* candidate: only the bounds they reach outlive it.  A character that is  *)
(* on no path twice is no candidate.                                       *)
SelectCharacters(A) ==
    \/ UNCHANGED <<cUpper, shUpper>>
    \/ \E B \in SUBSET A, u \in 0..cUpper :
          /\ Filtered(A, cUpper, B, u)
          /\ cUpper' = u
          /\ shUpper' = Published(cUpper, u, shUpper)

ChildSelects ==
    /\ cpc = "gap" /\ lower < cUpper
    /\ SelectCharacters(cSel)
    /\ shRefined' = 0
    /\ cpc' = NextCharacter(0)
    /\ UNCHANGED <<childFrame, shComplete, laid, flat, torn, cMdd, cSel, deadline>>

(* Before the 2nd, 3rd, 5th, 9th ... character the selection is repeated   *)
(* on what the refinement has left.                                        *)
ChildReselects ==
    /\ cpc = "reselect"
    /\ cSel' = cSel \cap flat
    /\ SelectCharacters(cSel \cap flat)
    /\ cpc' = "refine"
    /\ UNCHANGED <<childFrame, shComplete, shRefined, laid, flat, torn, cMdd, deadline>>

(* What the bottom of the filtered MDD contributes to the shared bound:    *)
(* the depth of its last level, and the bound of a node on it, which may   *)
(* be stale: the filter stops when the gap is closed, and it does not look *)
(* again at the nodes that became the last ones when it cut levels off.    *)
BottomBoundOffByOne(A, sh, b) ==   \* mutant: the index of the last level
    \E depth, below \in 0..Sigma :
       /\ (lower < Opt /\ HasOptPath(A)) => depth >= Opt - 1
       /\ b = Max2(Max2(Min2(sh, depth), lower), below)

BottomBound(A, sh, b) ==
    \E depth, below \in 0..Sigma :
       /\ (lower < Opt /\ HasOptPath(A)) => depth >= Opt
       /\ b = Max2(Max2(Min2(sh, depth), lower), below)

(* One character is refined, the MDD filtered and its bound shared.        *)
ChildRefines ==
    /\ cpc = "refine"
    /\ \E B \in SUBSET cMdd, u \in 0..cUpper, b \in 0..Sigma :
          /\ Filtered(cMdd, cUpper, B, u)
          /\ BottomBound(B, Published(cUpper, u, shUpper), b)
          /\ cMdd' = B
          /\ cUpper' = u
          /\ shUpper' = b
    /\ shRefined' = shRefined + 1
    /\ cpc' = "flag"
    /\ UNCHANGED <<childFrame, shComplete, laid, flat, torn, cSel, deadline>>

(* filter_flat_mdd clears the flags of the arcs that are gone, one by one. *)
ChildClearsFlag ==
    /\ cpc \in {"flag", "flagSingle"}
    /\ \E a \in flat \ cMdd : flat' = flat \ {a}
    /\ UNCHANGED <<childFrame, shUpper, shComplete, shRefined, laid, torn, cpc, childVars>>

ChildTestsGapTooEarly ==   \* mutant: a gap of one taken for none
    /\ cpc = "flag" /\ flat \subseteq cMdd
    /\ cpc' = IF lower + 1 >= shUpper THEN "complete" ELSE NextCharacter(shRefined)
    /\ UNCHANGED <<childFrame, sharedVars, childVars>>

ChildTestsGap ==
    /\ cpc = "flag" /\ flat \subseteq cMdd
    /\ cpc' = IF lower >= shUpper THEN "complete" ELSE NextCharacter(shRefined)
    /\ UNCHANGED <<childFrame, sharedVars, childVars>>

(* It says that it is done, before it has put away its result ...          *)
ChildCompletesLater ==   \* mutant: the flag is left to whoever comes after
    /\ cpc = "complete"
    /\ cpc' = "single"
    /\ UNCHANGED <<childFrame, sharedVars, childVars>>

ChildCompletes ==
    /\ cpc = "complete"
    /\ shComplete' = TRUE
    /\ cpc' = "single"
    /\ UNCHANGED <<childFrame, shUpper, shRefined, laid, flat, torn, childVars>>

(* ... keeps one path, a longest one if every character is refined ...     *)
ChildKeepsOnePath ==
    /\ cpc = "single"
    /\ \E B \in SUBSET cMdd :
          /\ (lower < Opt /\ shRefined = Sigma /\ HasOptPath(cMdd)) => B \in OptPaths
          /\ cMdd' = B
    /\ cpc' = "flagSingle"
    /\ UNCHANGED <<childFrame, sharedVars, cUpper, cSel, deadline>>

(* ... and lays that out over the old layout, level by level.              *)
ChildStartsLayout ==
    /\ cpc = "flagSingle" /\ flat \subseteq cMdd
    /\ torn' = TRUE
    /\ cpc' = "layout"
    /\ UNCHANGED <<childFrame, shUpper, shComplete, shRefined, laid, flat, childVars>>

ChildEndsLayout ==
    /\ cpc = "layout"
    /\ torn' = FALSE
    /\ LaysOut(cMdd)
    /\ Exits
    /\ UNCHANGED <<childFrame, shUpper, shComplete, shRefined>>

-----------------------------------------------------------------------------
(* The environment.                                                        *)

Tick ==
    /\ now < Horizon
    /\ now' = now + 1
    /\ UNCHANGED <<pc, mainVars, sharedVars, cpc, childVars, ghostVars>>

(* SIGALRM: timeout_handler exits.                                         *)
Alarm ==
    /\ ChildRuns /\ now >= deadline
    /\ Exits
    /\ UNCHANGED <<childFrame, sharedVars>>

(* The kernel kills the process with the highest oom_score_adj.            *)
OutOfMemory ==
    /\ ChildRuns
    /\ Exits
    /\ UNCHANGED <<childFrame, sharedVars>>

-----------------------------------------------------------------------------
MainNext ==
    \/ HeuristicImproves \/ HeuristicBadRun \/ HeuristicStops
    \/ ReduceGraph \/ ReduceGraphCloses
    \/ BuildMdd \/ StopAtTimeout \/ FinishReduction \/ Fork \/ ForkFails
    \/ MergeClosed \/ MergeOpen \/ CrashOnTornLayout
    \/ SolveClosed \/ SolveEnumeration
    \/ GurobiFinishes \/ GurobiTimesOut \/ GurobiFails

ChildNext ==
    \/ ChildCopies \/ ChildFindsGapClosed \/ ChildSelects \/ ChildReselects
    \/ ChildRefines \/ ChildClearsFlag \/ ChildTestsGap \/ ChildCompletes
    \/ ChildKeepsOnePath \/ ChildStartsLayout \/ ChildEndsLayout

Next == MainNext \/ ChildNext \/ Tick \/ Alarm \/ OutOfMemory

Spec == Init /\ [][Next]_vars

(* Both processes are scheduled, time passes, and a timer that has expired *)
(* delivers its signal.                                                    *)
Fairness ==
    /\ WF_vars(MainNext)
    /\ WF_vars(ChildNext)
    /\ WF_vars(Tick)
    /\ WF_vars(Alarm)

FairSpec == Spec /\ Fairness

-----------------------------------------------------------------------------
(* Every variable keeps to its type, the bounds to 0..Sigma.               *)
TypeOK ==
    /\ pc \in {"heuristic", "graph", "build", "loop", "wait", "solve", "done", "failed"}
    /\ lower \in 0..Opt
    /\ upper \in 0..Sigma
    /\ heuristicLength \in 0..Opt
    /\ reductionUpper \in 0..Sigma
    /\ valid \in BOOLEAN
    /\ badRuns \in 0..BadRunLimit
    /\ slack \in 0..MaxSlack
    /\ mdd \subseteq Arcs
    /\ active \subseteq Arcs
    /\ shUpper \in 0..Sigma
    /\ shComplete \in BOOLEAN
    /\ shRefined \in 0..Sigma
    /\ laid \subseteq Arcs
    /\ flat \subseteq laid
    /\ torn \in BOOLEAN
    /\ cpc \in {"none", "copy", "gap", "reselect", "refine", "flag", "complete",
                "single", "flagSingle", "layout", "exited"}
    /\ cUpper \in 0..Sigma
    /\ cMdd \subseteq Arcs
    /\ cSel \subseteq Arcs
    /\ deadline \in 0..Horizon
    /\ now \in 0..Horizon
    /\ tornRead \in BOOLEAN
    /\ boundLost \in BOOLEAN

(* Whatever was killed when, and whoever published which bound: unless the *)
(* ILP solver lost its bound or a torn layout was read, the upper bound    *)
(* the main process holds is one, or the solution is optimal already.      *)
BoundIsSound == tornRead \/ boundLost \/ SoundUpper(upper)

(* main.cpp:172-208.  A run that says it solved the instance did.          *)
SolvedIsOptimal ==
    (pc = "done" /\ valid /\ ~tornRead) => lower = Opt /\ upper = Opt

(* reduction_orchestration.cpp:145-171.  filter_matches_by_flat_mdd lets   *)
(* the last node of a match decide whether the match stays active.  That   *)
(* is right only because, whenever the gap is open, the flags it reads are *)
(* all set, however the last child ended.                                  *)
FlagsAreSetWhenRead == (pc = "loop" /\ lower < upper) => flat = laid

(* What a killed child leaves behind is never less than what it found: an  *)
(* optimal path is in the shared memory as long as it is needed and whole. *)
OptimumSurvivesKills ==
    (pc \in {"loop", "wait"} /\ lower < Opt /\ ~torn /\ ~tornRead)
        => HasOptPath(mdd \cap flat)

(* The bounds of the main process close in on each other: the lower bound  *)
(* never falls, and the upper bound rises only to meet the lower one.      *)
BoundsCloseIn ==
    [][lower' >= lower /\ (upper' <= upper \/ upper' = lower')]_vars

(* The run ends, however often the kernel kills its children.              *)
Termination == <>(pc \in {"done", "failed"})

(* README.md:106, "Derived upper bound": what a run reports as its upper   *)
(* bound is one.                                                           *)
ReportedUpperIsBound == (pc = "done" /\ ~tornRead) => upper >= Opt

(* README.md:112, "Whether the MDD reduction process completed for all     *)
(* characters": a run that reports so has refined all of them.             *)
CompleteMeansAllRefined == (pc = "done" /\ shComplete) => shRefined = Sigma

(* README.md:104, "Whether the algorithm found and proved an optimal       *)
(* solution": a run that reports so has found one, torn layout or not.     *)
SolvedMeansProved == (pc = "done" /\ valid) => lower = Opt

-----------------------------------------------------------------------------
(* Orchestration implements Promise.  A run that fails, or that has read a *)
(* torn layout, makes no claim; one whose solver lost its bound still has  *)
(* the bound of the reduction.                                             *)
NoClaim == pc = "failed" \/ tornRead

PromisedLower == IF NoClaim THEN 0 ELSE lower

PromisedUpper ==
    IF NoClaim THEN Sigma
    ELSE IF boundLost THEN reductionUpper ELSE Max2(upper, lower)

PromisedVerdict ==
    IF NoClaim THEN "abandoned"
    ELSE IF pc # "done" THEN "searching"
    ELSE IF valid THEN "proved" ELSE "open"

Promised == INSTANCE Promise WITH lo <- PromisedLower, hi <- PromisedUpper,
                                  verdict <- PromisedVerdict

(* The run takes no step the promise does not allow.                       *)
KeepsPromise == Promised!Spec

-----------------------------------------------------------------------------
(* The inductive invariant behind these properties.  Needed says that the  *)
(* optimum is still to be found, by a run that has read no garbage.        *)
Needed == lower < Opt /\ ~tornRead

Searching == pc \in {"heuristic", "graph", "build", "loop", "wait", "solve"}
InMddPhase == pc \in {"loop", "wait"}
HasResult == cpc \in {"gap", "reselect", "refine", "flag", "complete", "single"}
KeepsPath == cpc \in {"flagSingle", "layout"}

(* The parent waits exactly as long as there is a child.                   *)
ParentWaits == (pc = "wait") <=> (cpc # "none")

(* Only a child that has declared itself complete leaves a torn layout,    *)
(* and the main process repairs it unless the gap is closed.               *)
TornWhere ==
    /\ cpc \in {"single", "flagSingle", "layout"} => shComplete
    /\ torn => /\ shComplete
               /\ \/ cpc \in {"layout", "exited"}
                  \/ pc = "loop" /\ lower >= upper
                  \/ pc \in {"solve", "done", "failed"} /\ tornRead

(* The bounds the main process passes on are the ones it holds.            *)
BoundsPassedOn ==
    /\ Searching /\ pc # "heuristic" => heuristicLength = lower
    /\ pc = "solve" => reductionUpper = upper
    /\ boundLost => pc = "done" /\ ~valid
    /\ valid => pc = "done"

(* The bounds of all the processes are valid ...                           *)
UppersSound ==
    Needed => /\ Searching => upper >= Opt
              /\ InMddPhase => shUpper >= Opt
              /\ ChildRuns => cUpper >= Opt

(* ... and all the MDDs hold an optimal path: the one of the main process  *)
(* together with the shared flags, and the ones of the child.              *)
PathsSound ==
    Needed => /\ InMddPhase /\ ~torn => HasOptPath(mdd \cap flat)
              /\ pc = "solve" => HasOptPath(laid) /\ HasOptPath(active)
              /\ HasResult \/ KeepsPath => HasOptPath(cMdd)

(* The child's MDD lies within the shared one and its character selection  *)
(* within neither: it may have been pruned less often.                     *)
ChildWithin ==
    /\ HasResult \/ KeepsPath => cMdd \subseteq mdd /\ cMdd \subseteq flat
    /\ HasResult => cMdd \subseteq cSel

(* The child gives up paths only after it has refined every character, or  *)
(* when the gap is closed.                                                 *)
RefinedBeforeDone ==
    /\ cpc \in {"reselect", "refine"} => shRefined < Sigma
    /\ Needed /\ cpc \in {"complete", "single"} => shRefined = Sigma

IInv ==
    /\ TypeOK
    /\ ParentWaits
    /\ TornWhere
    /\ BoundsPassedOn
    /\ UppersSound
    /\ PathsSound
    /\ ChildWithin
    /\ RefinedBeforeDone
    /\ FlagsAreSetWhenRead
    /\ BoundIsSound
    /\ SolvedIsOptimal
=============================================================================
