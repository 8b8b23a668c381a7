SPECIFICATION Spec
CONSTANTS
    Sigma = 8
    Letters = {0, 1, 2}
    Length = 4
    Inputs <- MCInputs
INVARIANTS
    TypeOK
    UpperIsBound
    NoBetterSolutionIsLost
    MatchBoundsHold
CHECK_DEADLOCK FALSE
