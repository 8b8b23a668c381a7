SPECIFICATION HeuristicSpec
CONSTANTS
    Sigma = 4
    Inputs <- MCInputs
INVARIANTS
    LowerIsWitnessed
    AlwaysACandidate
PROPERTIES
    ImplementsGraphReduction
CHECK_DEADLOCK FALSE
