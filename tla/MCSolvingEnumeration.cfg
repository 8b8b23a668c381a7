SPECIFICATION FairSolvingSpec
CONSTANTS
    Sigma = 5
    MaxRounds = 2
    Gaps <- MCAll
    SOLVER = "ENUMERATION"
    Inputs <- MCInputs
INVARIANTS
    MddTypeOK
    SomeOptimumRemains
    BoundsAreValid
    NodeFactsHold
    RefinedIsRepetitionFree
    LayoutFits
    LevelsAreInRange
    EnteredIsAPath
    FoundIsSolution
    StackFits
    SolvedIsLongest
PROPERTIES
    ConcludesWithOne
    ReductionEnds
    SolvingEnds
