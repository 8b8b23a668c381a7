SPECIFICATION SolvingSpec
CONSTANTS
    Sigma = 5
    MaxRounds = 0
    Gaps <- MCNone
    SOLVER = "ENUMERATION"
    Inputs <- MCOpenGap
INVARIANTS
    SolutionIsOne
