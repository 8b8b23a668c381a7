------------------------- MODULE OrchestrationProofs -------------------------
(***************************************************************************)
(* Proofs about Orchestration, for every alphabet, every set of optimal    *)
(* paths and every time limit.  IInv is inductive: it holds initially      *)
(* (Initially) and every action of the main process, of the child and of   *)
(* the environment preserves it (MainPreserves, ChildPreserves,            *)
(* EnvironmentPreserves).  The theorems at the end follow from it.         *)
(***************************************************************************)
EXTENDS Orchestration, TLAPS

LEMMA Numbers ==
    /\ Sigma \in Nat /\ Opt \in Nat /\ Opt <= Sigma
    /\ MddTimeout \in Nat /\ BadRunLimit \in Nat /\ MaxSlack \in Nat
  BY OrchestrationAssumption

(* A larger set of arcs holds no fewer optimal paths.                      *)
LEMMA OptPathMonotone ==
    ASSUME NEW A, NEW B, A \subseteq B, HasOptPath(A)
    PROVE  HasOptPath(B)
  BY DEF HasOptPath

(* An optimal path holds one.                                              *)
LEMMA OptPathItself ==
    ASSUME NEW B \in OptPaths
    PROVE  HasOptPath(B)
  BY DEF HasOptPath

-----------------------------------------------------------------------------
(* The initial state satisfies the inductive invariant.                    *)
LEMMA Initially == Init => IInv
<1> SUFFICES ASSUME Init PROVE IInv
  OBVIOUS
<1> USE Numbers DEF Init
<1>1. TypeOK
  <2>1. /\ lower \in 0..Opt /\ upper \in 0..Sigma /\ heuristicLength \in 0..Opt
        /\ reductionUpper \in 0..Sigma /\ badRuns \in 0..BadRunLimit
        /\ slack \in 0..MaxSlack /\ shUpper \in 0..Sigma /\ shRefined \in 0..Sigma
        /\ cUpper \in 0..Sigma /\ deadline \in 0..Horizon /\ now \in 0..Horizon
    BY SMT DEF Horizon
  <2>2. QED
    BY <2>1 DEF TypeOK
<1>2. ParentWaits /\ TornWhere /\ BoundsPassedOn /\ ChildWithin /\ RefinedBeforeDone
  BY DEF ParentWaits, TornWhere, BoundsPassedOn, ChildWithin, RefinedBeforeDone,
         Searching, HasResult, KeepsPath, Needed
<1>3. UppersSound /\ BoundIsSound
  BY DEF UppersSound, BoundIsSound, SoundUpper, InMddPhase, ChildRuns
<1>4. PathsSound /\ FlagsAreSetWhenRead /\ SolvedIsOptimal
  BY DEF PathsSound, FlagsAreSetWhenRead, SolvedIsOptimal, InMddPhase, HasResult, KeepsPath
<1> QED
  BY <1>1, <1>2, <1>3, <1>4 DEF IInv

-----------------------------------------------------------------------------
(* The steps of the main process.                                          *)
LEMMA MainPreserves == IInv /\ MainNext => IInv'
<1> SUFFICES ASSUME IInv, MainNext PROVE IInv'
  OBVIOUS
<1> USE DEF IInv, TypeOK, ParentWaits, TornWhere, BoundsPassedOn, UppersSound, PathsSound,
           ChildWithin, RefinedBeforeDone, FlagsAreSetWhenRead, BoundIsSound,
           SolvedIsOptimal, SoundUpper, Needed, Searching, InMddPhase, HasResult,
           KeepsPath, ChildRuns, Horizon, mainVars, sharedVars, childVars, ghostVars
<1>1. CASE HeuristicImproves
  BY <1>1, Numbers, SMTT(20) DEF HeuristicImproves, Min2
<1>2. CASE HeuristicBadRun
  BY <1>2, Numbers, SMTT(20) DEF HeuristicBadRun
<1>3. CASE HeuristicStops
  BY <1>3, Numbers, SMTT(20) DEF HeuristicStops
<1>4. CASE ReduceGraph
  BY <1>4, Numbers, SMTT(20) DEF ReduceGraph, Min2
<1>5. CASE ReduceGraphCloses
  BY <1>5, Numbers, SMTT(20) DEF ReduceGraphCloses
<1>6. CASE BuildMdd
  <2> USE <1>6, Numbers, OptPathMonotone DEF BuildMdd, LaysOut, Min2
  <2>1. TypeOK'
    <3>1. PICK A \in SUBSET Arcs, u \in 0..upper :
             mdd' = A /\ laid' = A /\ flat' = A /\ upper' = u /\ shUpper' = u
      BY Zenon
    <3>2. upper' \in 0..Sigma /\ shUpper' \in 0..Sigma
      BY <3>1, SMT
    <3>3. mdd' \subseteq Arcs /\ laid' \subseteq Arcs /\ flat' \subseteq laid'
      BY <3>1, Zenon
    <3>4. QED
      BY <3>2, <3>3, Zenon
  <2>2. ParentWaits' /\ TornWhere' /\ BoundsPassedOn'
    BY SMTT(20)
  <2>3. UppersSound' /\ BoundIsSound' /\ SolvedIsOptimal'
    BY SMTT(20)
  <2>4. PathsSound'
    BY SMTT(20)
  <2>5. FlagsAreSetWhenRead' /\ ChildWithin' /\ RefinedBeforeDone'
    BY SMTT(20)
  <2> QED
    BY ONLY <2>1, <2>2, <2>3, <2>4, <2>5 DEF IInv
<1>7. CASE StopAtTimeout
  <2> USE <1>7, Numbers, OptPathMonotone DEF StopAtTimeout, MatchesFromFlat, GapOpen, TimeIsUp, Max2
  <2>1. TypeOK'
    BY SMTT(20)
  <2>2. ParentWaits' /\ TornWhere' /\ BoundsPassedOn'
    BY SMTT(20)
  <2>3. UppersSound' /\ BoundIsSound' /\ SolvedIsOptimal'
    BY SMTT(20)
  <2>4. PathsSound'
    BY SMTT(20)
  <2>5. FlagsAreSetWhenRead' /\ ChildWithin' /\ RefinedBeforeDone'
    BY SMTT(20)
  <2> QED
    BY ONLY <2>1, <2>2, <2>3, <2>4, <2>5 DEF IInv
<1>8. CASE FinishReduction
  <2> USE <1>8, Numbers, OptPathMonotone DEF FinishReduction, MatchesFromFlat, GapOpen, Max2
  <2>1. TypeOK'
    BY SMTT(20)
  <2>2. TornWhere'
    <3>1. torn' = torn /\ (torn => tornRead')
      BY Zenon
    <3>2. QED
      BY <3>1, SMTT(20)
  <2>3. ParentWaits' /\ BoundsPassedOn'
    BY SMTT(20)
  <2>4. UppersSound' /\ BoundIsSound' /\ SolvedIsOptimal'
    BY SMTT(20)
  <2>5. PathsSound'
    BY SMTT(20)
  <2>6. FlagsAreSetWhenRead' /\ ChildWithin' /\ RefinedBeforeDone'
    BY SMTT(20)
  <2> QED
    BY ONLY <2>1, <2>2, <2>3, <2>4, <2>5, <2>6 DEF IInv
<1>9. CASE Fork
  BY <1>9, Numbers, SMTT(20) DEF Fork, GapOpen, TimeIsUp, Max2
<1>10. CASE ForkFails
  BY <1>10, Numbers, SMTT(20) DEF ForkFails, GapOpen, TimeIsUp
<1>11. CASE MergeClosed
  BY <1>11, Numbers, SMTT(20) DEF MergeClosed, MergedUpper, Min2, Max2
<1>12. CASE MergeOpen
  <2> USE <1>12, Numbers, OptPathMonotone DEF MergeOpen, LaysOut, MergedUpper, Min2, Max2, Filtered
  <2>1. TypeOK'
    <3>1. PICK B \in SUBSET mdd, u \in 0..Sigma :
             mdd' = B /\ laid' = B /\ flat' = B /\ shUpper' = u /\ upper' = Max2(u, lower)
      BY Zenon
    <3>2. upper' \in 0..Sigma /\ shUpper' \in 0..Sigma
      BY <3>1, SMT
    <3>3. mdd' \subseteq Arcs /\ laid' \subseteq Arcs /\ flat' \subseteq laid'
      BY <3>1, Zenon
    <3>4. tornRead' \in BOOLEAN
      BY Zenon
    <3>5. QED
      BY <3>2, <3>3, <3>4, Zenon
  <2>2. ParentWaits' /\ TornWhere' /\ BoundsPassedOn'
    BY SMTT(20)
  <2>3. UppersSound' /\ BoundIsSound' /\ SolvedIsOptimal'
    BY SMTT(20)
  <2>4. PathsSound'
    BY SMTT(20)
  <2>5. FlagsAreSetWhenRead' /\ ChildWithin' /\ RefinedBeforeDone'
    BY SMTT(20)
  <2> QED
    BY ONLY <2>1, <2>2, <2>3, <2>4, <2>5 DEF IInv
<1>13. CASE CrashOnTornLayout
  BY <1>13, Numbers, SMTT(20) DEF CrashOnTornLayout, GapOpen
<1>14. CASE SolveClosed
  BY <1>14, Numbers, SMTT(20) DEF SolveClosed, Conclude, Max2
<1>15. CASE SolveEnumeration
  BY <1>15, Numbers, SMTT(20) DEF SolveEnumeration, Conclude, Best, Max2, Min2
<1>16. CASE GurobiFinishes
  BY <1>16, Numbers, SMTT(20) DEF GurobiFinishes, CallsGurobi, Conclude, Best, Max2, Min2
<1>17. CASE GurobiTimesOut
  <2> USE <1>17, Numbers, OptPathMonotone DEF GurobiTimesOut, CallsGurobi, Conclude, Best, Max2, Min2
  <2>1. TypeOK'
    <3>1. lower' \in 0..Opt /\ upper' \in 0..Sigma
      BY SMTT(20)
    <3>2. QED
      BY <3>1, Zenon
  <2>2. ParentWaits' /\ TornWhere' /\ BoundsPassedOn'
    BY SMTT(20)
  <2>3. UppersSound' /\ BoundIsSound' /\ SolvedIsOptimal'
    BY SMTT(20)
  <2>4. PathsSound'
    BY SMTT(20)
  <2>5. FlagsAreSetWhenRead' /\ ChildWithin' /\ RefinedBeforeDone'
    BY SMTT(20)
  <2> QED
    BY ONLY <2>1, <2>2, <2>3, <2>4, <2>5 DEF IInv
<1>18. CASE GurobiFails
  <2> USE <1>18, Numbers, OptPathMonotone DEF GurobiFails, CallsGurobi, Conclude, Max2, Min2
  <2>1. TypeOK'
    <3>1. lower' \in 0..Opt /\ upper' \in 0..Sigma
      BY SMTT(20)
    <3>2. QED
      BY <3>1, Zenon
  <2>2. ParentWaits' /\ TornWhere' /\ BoundsPassedOn'
    BY SMTT(20)
  <2>3. UppersSound' /\ BoundIsSound' /\ SolvedIsOptimal'
    BY SMTT(20)
  <2>4. PathsSound'
    BY SMTT(20)
  <2>5. FlagsAreSetWhenRead' /\ ChildWithin' /\ RefinedBeforeDone'
    BY SMTT(20)
  <2> QED
    BY ONLY <2>1, <2>2, <2>3, <2>4, <2>5 DEF IInv
<1> QED
  BY <1>1, <1>2, <1>3, <1>4, <1>5, <1>6, <1>7, <1>8, <1>9, <1>10, <1>11, <1>12, <1>13, <1>14, <1>15, <1>16, <1>17, <1>18 DEF MainNext

(* The steps of the child process.                                        *)
LEMMA ChildPreserves == IInv /\ ChildNext => IInv'
<1> SUFFICES ASSUME IInv, ChildNext PROVE IInv'
  OBVIOUS
<1> USE DEF IInv, TypeOK, ParentWaits, TornWhere, BoundsPassedOn, UppersSound, PathsSound,
           ChildWithin, RefinedBeforeDone, FlagsAreSetWhenRead, BoundIsSound,
           SolvedIsOptimal, SoundUpper, Needed, Searching, InMddPhase, HasResult,
           KeepsPath, ChildRuns, Horizon, mainVars, sharedVars, childVars, ghostVars
<1>1. CASE ChildCopies
  BY <1>1, Numbers, SMTT(20) DEF ChildCopies, Filtered, Published, Min2, childFrame
<1>2. CASE ChildFindsGapClosed
  BY <1>2, Numbers, SMTT(20) DEF ChildFindsGapClosed, Exits, childFrame
<1>3. CASE ChildSelects
  <2> USE <1>3, Numbers, OptPathMonotone DEF ChildSelects, SelectCharacters, NextCharacter, Filtered, Published, Min2, childFrame
  <2>1. TypeOK'
    BY SMTT(20)
  <2>2. ParentWaits' /\ TornWhere' /\ BoundsPassedOn'
    BY SMTT(20)
  <2>3. UppersSound' /\ BoundIsSound' /\ SolvedIsOptimal'
    BY SMTT(20)
  <2>4. PathsSound'
    BY SMTT(20)
  <2>5. FlagsAreSetWhenRead' /\ ChildWithin' /\ RefinedBeforeDone'
    BY SMTT(20)
  <2> QED
    BY ONLY <2>1, <2>2, <2>3, <2>4, <2>5 DEF IInv
<1>4. CASE ChildReselects
  <2> USE <1>4, Numbers, OptPathMonotone DEF ChildReselects, SelectCharacters, Filtered, Published, Min2, childFrame
  <2>1. TypeOK'
    BY SMTT(20)
  <2>2. ParentWaits' /\ TornWhere' /\ BoundsPassedOn'
    BY SMTT(20)
  <2>3. UppersSound' /\ BoundIsSound' /\ SolvedIsOptimal'
    BY SMTT(20)
  <2>4. PathsSound'
    BY SMTT(20)
  <2>5. FlagsAreSetWhenRead' /\ ChildWithin' /\ RefinedBeforeDone'
    BY SMTT(20)
  <2> QED
    BY ONLY <2>1, <2>2, <2>3, <2>4, <2>5 DEF IInv
<1>5. CASE ChildRefines
  BY <1>5, Numbers, SMTT(20) DEF ChildRefines, BottomBound, Filtered, Published, Min2, Max2, childFrame
<1>6. CASE ChildClearsFlag
  <2> USE <1>6, Numbers, OptPathMonotone DEF ChildClearsFlag, childFrame
  <2>1. TypeOK'
    BY SMTT(20)
  <2>2. ParentWaits' /\ TornWhere' /\ BoundsPassedOn'
    BY SMTT(20)
  <2>3. UppersSound' /\ BoundIsSound' /\ SolvedIsOptimal'
    BY SMTT(20)
  <2>4. PathsSound'
    BY SMTT(20)
  <2>5. FlagsAreSetWhenRead' /\ ChildWithin' /\ RefinedBeforeDone'
    BY SMTT(20)
  <2> QED
    BY ONLY <2>1, <2>2, <2>3, <2>4, <2>5 DEF IInv
<1>7. CASE ChildTestsGap
  BY <1>7, Numbers, SMTT(20) DEF ChildTestsGap, NextCharacter, childFrame
<1>8. CASE ChildCompletes
  BY <1>8, Numbers, SMTT(20) DEF ChildCompletes, childFrame
<1>9. CASE ChildKeepsOnePath
  <2> USE <1>9, Numbers, OptPathMonotone DEF ChildKeepsOnePath, childFrame
  <2>1. TypeOK'
    BY SMTT(20)
  <2>2. ParentWaits' /\ TornWhere' /\ BoundsPassedOn'
    BY SMTT(20)
  <2>3. UppersSound' /\ BoundIsSound' /\ SolvedIsOptimal'
    BY SMTT(20)
  <2>4. PathsSound'
    <3>1. PICK B \in SUBSET cMdd :
             /\ (lower < Opt /\ shRefined = Sigma /\ HasOptPath(cMdd)) => B \in OptPaths
             /\ cMdd' = B
      BY Zenon
    <3>2. Needed => HasOptPath(B)
      BY <3>1, OptPathItself, Zenon
    <3>3. HasOptPath(cMdd)' <=> HasOptPath(B)
      BY <3>1, Zenon DEF HasOptPath
    <3>4. QED
      BY <3>1, <3>2, <3>3, SMTT(20)
  <2>5. FlagsAreSetWhenRead' /\ ChildWithin' /\ RefinedBeforeDone'
    BY SMTT(20)
  <2> QED
    BY ONLY <2>1, <2>2, <2>3, <2>4, <2>5 DEF IInv
<1>10. CASE ChildStartsLayout
  <2> USE <1>10, Numbers, OptPathMonotone DEF ChildStartsLayout, childFrame
  <2>1. TypeOK'
    BY SMTT(20)
  <2>2. ParentWaits' /\ TornWhere' /\ BoundsPassedOn'
    BY SMTT(20)
  <2>3. UppersSound' /\ BoundIsSound' /\ SolvedIsOptimal'
    BY SMTT(20)
  <2>4. PathsSound'
    BY SMTT(20)
  <2>5. FlagsAreSetWhenRead' /\ ChildWithin' /\ RefinedBeforeDone'
    BY SMTT(20)
  <2> QED
    BY ONLY <2>1, <2>2, <2>3, <2>4, <2>5 DEF IInv
<1>11. CASE ChildEndsLayout
  <2> USE <1>11, Numbers, OptPathMonotone DEF ChildEndsLayout, LaysOut, Exits, childFrame
  <2>1. TypeOK'
    <3>1. cUpper' \in 0..Sigma /\ deadline' \in 0..Horizon
      BY SMT
    <3>2. laid' \subseteq Arcs /\ flat' \subseteq laid' /\ cMdd' \subseteq Arcs /\ cSel' \subseteq Arcs
      BY Zenon
    <3>3. QED
      BY <3>1, <3>2, Zenon
  <2>2. ParentWaits' /\ TornWhere' /\ BoundsPassedOn'
    BY SMTT(20)
  <2>3. UppersSound' /\ BoundIsSound' /\ SolvedIsOptimal'
    BY SMTT(20)
  <2>4. PathsSound'
    BY SMTT(20)
  <2>5. FlagsAreSetWhenRead' /\ ChildWithin' /\ RefinedBeforeDone'
    BY SMTT(20)
  <2> QED
    BY ONLY <2>1, <2>2, <2>3, <2>4, <2>5 DEF IInv
<1> QED
  BY <1>1, <1>2, <1>3, <1>4, <1>5, <1>6, <1>7, <1>8, <1>9, <1>10, <1>11 DEF ChildNext

(* Time, timers, the kernel, and nothing at all.                          *)
LEMMA EnvironmentPreserves ==
    IInv /\ (Tick \/ Alarm \/ OutOfMemory \/ UNCHANGED vars) => IInv'
<1> SUFFICES ASSUME IInv, Tick \/ Alarm \/ OutOfMemory \/ UNCHANGED vars PROVE IInv'
  OBVIOUS
<1> USE Numbers DEF IInv, TypeOK, ParentWaits, TornWhere, BoundsPassedOn, UppersSound, PathsSound,
           ChildWithin, RefinedBeforeDone, FlagsAreSetWhenRead, BoundIsSound,
           SolvedIsOptimal, SoundUpper, Needed, Searching, InMddPhase, HasResult,
           KeepsPath, ChildRuns, Horizon, mainVars, sharedVars, childVars, ghostVars
<1>1. CASE Tick
  BY <1>1, SMTT(20) DEF Tick
<1>2. CASE Alarm
  BY <1>2, SMTT(20) DEF Alarm, Exits, childFrame
<1>3. CASE OutOfMemory
  BY <1>3, SMTT(20) DEF OutOfMemory, Exits, childFrame
<1>4. CASE UNCHANGED vars
  BY <1>4, SMTT(20) DEF vars
<1> QED
  BY <1>1, <1>2, <1>3, <1>4

-----------------------------------------------------------------------------
(* What any step does to the bounds and to what the run announces.  The    *)
(* last conjunct is the step on which the ILP solver loses its bound.      *)
BoundsOfStep ==
    /\ lower' >= lower
    /\ upper' <= upper \/ upper' = lower'
    /\ tornRead => tornRead'
    /\ pc = "failed" => pc' = "failed"
    /\ pc = "done" => UNCHANGED <<pc, lower, upper, reductionUpper, valid, tornRead, boundLost>>
    /\ (boundLost' /\ pc # "done") =>
           /\ pc = "solve" /\ lower < upper
           /\ reductionUpper' = upper

LEMMA StepsCloseIn == IInv /\ [Next]_vars => BoundsOfStep
<1> SUFFICES ASSUME IInv, [Next]_vars PROVE BoundsOfStep
  OBVIOUS
<1> USE Numbers DEF IInv, TypeOK, ParentWaits, BoundsPassedOn, Searching, BoundsOfStep,
           ChildRuns, mainVars, sharedVars, childVars, ghostVars
<1>1. CASE MainNext
  <2>1. CASE HeuristicImproves
    BY <2>1, SMTT(20) DEF HeuristicImproves, Min2
  <2>2. CASE HeuristicBadRun
    BY <2>2, SMTT(20) DEF HeuristicBadRun
  <2>3. CASE HeuristicStops
    BY <2>3, SMTT(20) DEF HeuristicStops
  <2>4. CASE ReduceGraph
    BY <2>4, SMTT(20) DEF ReduceGraph, Min2
  <2>5. CASE ReduceGraphCloses
    BY <2>5, SMTT(20) DEF ReduceGraphCloses
  <2>6. CASE BuildMdd
    BY <2>6, SMTT(20) DEF BuildMdd, LaysOut, Min2
  <2>7. CASE StopAtTimeout
    BY <2>7, SMTT(20) DEF StopAtTimeout, MatchesFromFlat, GapOpen, TimeIsUp, Max2
  <2>8. CASE FinishReduction
    BY <2>8, SMTT(20) DEF FinishReduction, MatchesFromFlat, GapOpen, Max2
  <2>9. CASE Fork
    BY <2>9, SMTT(20) DEF Fork, GapOpen, TimeIsUp, Max2
  <2>10. CASE ForkFails
    BY <2>10, SMTT(20) DEF ForkFails, GapOpen, TimeIsUp
  <2>11. CASE MergeClosed
    BY <2>11, SMTT(20) DEF MergeClosed, MergedUpper, Min2, Max2
  <2>12. CASE MergeOpen
    BY <2>12, SMTT(20) DEF MergeOpen, LaysOut, MergedUpper, Min2, Max2, Filtered
  <2>13. CASE CrashOnTornLayout
    <3>1. UNCHANGED <<lower, upper, boundLost>> /\ tornRead' /\ pc' = "failed"
      BY <2>13, Zenon DEF CrashOnTornLayout
    <3>2. pc \in {"wait", "loop"}
      BY <2>13, Zenon DEF CrashOnTornLayout
    <3>3. ~boundLost'
      BY <3>1, <3>2, Zenon
    <3>4. lower' >= lower /\ upper' <= upper /\ pc # "done"
      BY <3>1, <3>2, SMT
    <3> QED
      BY <3>1, <3>3, <3>4, Zenon
  <2>14. CASE SolveClosed
    BY <2>14, SMTT(20) DEF SolveClosed, Conclude, Max2
  <2>15. CASE SolveEnumeration
    <3>1. PICK l \in 0..Sigma : /\ Best(laid, lower, l)
                              /\ Conclude(Min2(l, upper), Min2(upper, Min2(l, upper)), TRUE)
      BY <2>15, Zenon DEF SolveEnumeration
    <3>2. l >= lower /\ lower < upper /\ pc = "solve"
      BY <2>15, <3>1, SMT DEF SolveEnumeration, Best, Max2
    <3>3. lower' >= lower /\ upper' <= upper
      BY <3>1, <3>2, SMT DEF Conclude, Min2, Max2
    <3> QED
      BY <2>15, <3>1, <3>2, <3>3, SMT DEF SolveEnumeration, Conclude
  <2>16. CASE GurobiFinishes
    BY <2>16, SMTT(20) DEF GurobiFinishes, CallsGurobi, Conclude, Best, Max2, Min2
  <2>17. CASE GurobiTimesOut
    BY <2>17, SMTT(20) DEF GurobiTimesOut, CallsGurobi, Conclude, Best, Max2, Min2
  <2>18. CASE GurobiFails
    BY <2>18, SMTT(20) DEF GurobiFails, CallsGurobi, Conclude, Max2, Min2
  <2> QED
    BY <1>1, <2>1, <2>2, <2>3, <2>4, <2>5, <2>6, <2>7, <2>8, <2>9, <2>10, <2>11, <2>12, <2>13, <2>14, <2>15, <2>16, <2>17, <2>18 DEF MainNext
<1>2. CASE ChildNext
  <2>1. UNCHANGED childFrame
    <3>1. CASE ChildCopies
      BY <3>1, Zenon DEF ChildCopies
    <3>2. CASE ChildFindsGapClosed
      BY <3>2, Zenon DEF ChildFindsGapClosed
    <3>3. CASE ChildSelects
      BY <3>3, Zenon DEF ChildSelects
    <3>4. CASE ChildReselects
      BY <3>4, Zenon DEF ChildReselects
    <3>5. CASE ChildRefines
      BY <3>5, Zenon DEF ChildRefines
    <3>6. CASE ChildClearsFlag
      BY <3>6, Zenon DEF ChildClearsFlag
    <3>7. CASE ChildTestsGap
      BY <3>7, Zenon DEF ChildTestsGap
    <3>8. CASE ChildCompletes
      BY <3>8, Zenon DEF ChildCompletes
    <3>9. CASE ChildKeepsOnePath
      BY <3>9, Zenon DEF ChildKeepsOnePath
    <3>10. CASE ChildStartsLayout
      BY <3>10, Zenon DEF ChildStartsLayout
    <3>11. CASE ChildEndsLayout
      BY <3>11, Zenon DEF ChildEndsLayout
    <3> QED
      BY <1>2, <3>1, <3>2, <3>3, <3>4, <3>5, <3>6, <3>7, <3>8, <3>9, <3>10, <3>11 DEF ChildNext
  <2>2. cpc # "none"
    BY <1>2, Zenon DEF ChildNext, ChildCopies, ChildFindsGapClosed, ChildSelects, ChildReselects,
                       ChildRefines, ChildClearsFlag, ChildTestsGap, ChildCompletes,
                       ChildKeepsOnePath, ChildStartsLayout, ChildEndsLayout
  <2> QED
    BY <2>1, <2>2, SMTT(20) DEF childFrame
<1>3. CASE Tick
  BY <1>3, SMTT(20) DEF Tick
<1>4. CASE Alarm \/ OutOfMemory
  BY <1>4, SMTT(20) DEF Alarm, OutOfMemory, Exits, childFrame
<1>5. CASE UNCHANGED vars
  BY <1>5, SMTT(20) DEF vars
<1> QED
  BY <1>1, <1>2, <1>3, <1>4, <1>5 DEF Next

LEMMA Inductive == IInv /\ [Next]_vars => IInv'
  BY MainPreserves, ChildPreserves, EnvironmentPreserves DEF Next

-----------------------------------------------------------------------------
(* The inductive invariant holds in every reachable state, whichever child *)
(* is killed between whichever two of its steps.                           *)
THEOREM Invariance == Spec => []IInv
  BY Initially, Inductive, PTL DEF Spec

(* Every variable of main.cpp, reduction_orchestration.cpp and of the      *)
(* shared object keeps to its type, and every bound to 0..alphabet_size.   *)
THEOREM TypeCorrect == Spec => []TypeOK
<1>1. IInv => TypeOK
  BY DEF IInv
<1> QED
  BY Invariance, <1>1, PTL

(* The upper bound of the main process is valid, or its solution is        *)
(* optimal already, whatever the children have published before they died  *)
(* (reduction_orchestration.cpp:95-143), unless Gurobi lost the bound or   *)
(* a torn layout was parsed.                                               *)
THEOREM BoundSoundness == Spec => []BoundIsSound
<1>1. IInv => BoundIsSound
  BY DEF IInv
<1> QED
  BY Invariance, <1>1, PTL

(* A run that ends with is_valid_solution and has parsed no torn layout    *)
(* has found an optimal solution, through whichever solver it went         *)
(* (main.cpp:172-208).                                                     *)
THEOREM SolutionSoundness == Spec => []SolvedIsOptimal
<1>1. IInv => SolvedIsOptimal
  BY DEF IInv
<1> QED
  BY Invariance, <1>1, PTL

(* Whenever filter_matches_by_flat_mdd may run with an open gap, every     *)
(* flag of the layout is set, so that its last-node-wins assignment        *)
(* (reduction_orchestration.cpp:159) drops no match that is still needed.  *)
THEOREM FlagsSet == Spec => []FlagsAreSetWhenRead
<1>1. IInv => FlagsAreSetWhenRead
  BY DEF IInv
<1> QED
  BY Invariance, <1>1, PTL

(* A child that is killed leaves an optimal path in the shared memory for  *)
(* the next one (mdd_reduction.cpp:44-150), unless it is killed while it   *)
(* writes its layout.                                                      *)
THEOREM OptimumSurvival == Spec => []OptimumSurvivesKills
<1>1. IInv => OptimumSurvivesKills
  BY DEF IInv, PathsSound, OptimumSurvivesKills, Needed, InMddPhase
<1> QED
  BY Invariance, <1>1, PTL

(* No step of any process lowers the lower bound, and none raises the      *)
(* upper bound of the main process but to meet the lower one.              *)
THEOREM BoundsClosing == Spec => BoundsCloseIn
<1>1. IInv /\ [Next]_vars => [lower' >= lower /\ (upper' <= upper \/ upper' = lower')]_vars
  BY StepsCloseIn DEF BoundsOfStep
<1> QED
  BY Invariance, <1>1, PTL DEF Spec, BoundsCloseIn

-----------------------------------------------------------------------------
(* Orchestration implements Promise: its initial state is mapped to the    *)
(* initial state, and every step to a step or to none.                     *)
LEMMA InitMaps == Init => Promised!Init
  BY Numbers DEF Init, Promised!Init, PromisedLower, PromisedUpper, PromisedVerdict,
                 NoClaim, Max2

LEMMA StepMaps ==
    IInv /\ IInv' /\ BoundsOfStep => [Promised!Next]_(Promised!vars)
<1> SUFFICES ASSUME IInv, IInv', BoundsOfStep
             PROVE  [Promised!Next]_(Promised!vars)
  OBVIOUS
<1> USE DEF PromisedLower, PromisedUpper, PromisedVerdict, NoClaim, Promised!vars
<1>1. /\ lower \in Int /\ upper \in Int /\ reductionUpper \in Int
      /\ lower' \in 0..Opt /\ upper' \in Int /\ reductionUpper' \in Int
      /\ lower' >= lower
      /\ Opt \in Int
  BY Numbers, SMT DEF IInv, TypeOK, BoundsOfStep
<1>2. CASE NoClaim
  BY <1>2, Zenon DEF BoundsOfStep
<1>3. CASE ~NoClaim /\ pc = "done"
  <2>1. UNCHANGED <<pc, lower, upper, reductionUpper, valid, tornRead, boundLost>>
    BY <1>3, Zenon DEF BoundsOfStep
  <2>2. PromisedLower' = PromisedLower /\ PromisedVerdict' = PromisedVerdict
    BY <2>1, SMT
  <2>3. PromisedUpper' = PromisedUpper
    BY <2>1, SMT DEF Max2
  <2> QED
    BY <2>2, <2>3, Zenon
<1>4. CASE ~NoClaim /\ pc # "done" /\ NoClaim'
  <2>1. Promised!Abandon
    BY <1>4, Zenon DEF Promised!Abandon
  <2> QED
    BY <2>1, Zenon DEF Promised!Next
<1>5. CASE ~NoClaim /\ pc # "done" /\ ~NoClaim'
  <2>1. ~boundLost /\ PromisedUpper = Max2(upper, lower) /\ PromisedLower = lower
    BY <1>5, Zenon DEF IInv, BoundsPassedOn
  <2>2. PromisedLower' \in PromisedLower..Opt
    BY <1>1, <1>5, <2>1, SMT
  <2>3. PromisedUpper' \in Opt..PromisedUpper
    <3>1. CASE boundLost'
      <4>1. PromisedUpper' = reductionUpper'
        BY <1>5, <3>1, Zenon
      <4>2. reductionUpper' = upper /\ lower < upper /\ pc = "solve"
        BY <1>5, <3>1, Zenon DEF BoundsOfStep
      <4>3. upper >= Opt
        BY <1>1, <1>5, <4>2, SMT DEF IInv, UppersSound, Needed, Searching
      <4>4. Max2(upper, lower) = upper
        BY <1>1, <4>2, SMT DEF Max2
      <4>5. PromisedUpper = upper /\ PromisedUpper' = upper
        BY ONLY <2>1, <4>1, <4>2, <4>4
      <4> QED
        BY ONLY <1>1, <4>3, <4>5, SMT
    <3>2. CASE ~boundLost'
      <4>1. PromisedUpper' = Max2(upper', lower')
        BY <1>5, <3>2, Zenon DEF Max2
      <4>2. lower' < Opt => upper' >= Opt
        BY <1>5, <3>2, Zenon DEF IInv, BoundIsSound, SoundUpper
      <4>3. upper' <= upper \/ upper' = lower'
        BY DEF BoundsOfStep
      <4>4. lower < Opt => upper >= Opt
        BY <1>5, <2>1, Zenon DEF IInv, BoundIsSound, SoundUpper
      <4>5. Max2(upper', lower') \in Opt..Max2(upper, lower)
        BY ONLY <1>1, <4>2, <4>3, <4>4, SMT DEF Max2
      <4> QED
        BY ONLY <2>1, <4>1, <4>5, Zenon
    <3> QED
      BY <3>1, <3>2
  <2>4. PromisedVerdict = "searching"
    BY <1>5, Zenon
  <2>5. CASE pc' # "done"
    BY <1>5, <2>2, <2>3, <2>4, <2>5, Zenon DEF Promised!Next, Promised!Progress
  <2>6. CASE pc' = "done" /\ ~valid'
    BY <1>5, <2>2, <2>3, <2>4, <2>6, Zenon DEF Promised!Next, Promised!LeaveOpen
  <2>7. CASE pc' = "done" /\ valid'
    <3>1. lower' = Opt /\ upper' = Opt
      BY <1>5, <2>7, Zenon DEF IInv, SolvedIsOptimal
    <3>2. ~boundLost'
      BY <2>7, Zenon DEF IInv, BoundsPassedOn
    <3>3. PromisedLower' = Opt /\ PromisedUpper' = Opt /\ PromisedVerdict' = "proved"
      BY <1>5, <2>7, <3>1, <3>2, Zenon DEF Max2
    <3> QED
      BY <2>4, <3>3, Zenon DEF Promised!Next, Promised!Prove
  <2> QED
    BY <2>5, <2>6, <2>7
<1> QED
  BY <1>2, <1>3, <1>4, <1>5

(* A run of the program, its children and the kernel keeps the promise     *)
(* made to its caller: bounds that close in on the optimum and a verdict   *)
(* "proved" only where they have met.                                      *)
THEOREM Refinement == Spec => KeepsPromise
<1>1. IInv /\ IInv' /\ [Next]_vars => [Promised!Next]_(Promised!vars)
  BY StepsCloseIn, StepMaps
<1> QED
  BY Invariance, InitMaps, <1>1, PTL DEF Spec, KeepsPromise, Promised!Spec
=============================================================================
