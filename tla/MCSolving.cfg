SPECIFICATION SolvingSpec
CONSTANTS
    Sigma = 6
    MaxRounds = 1
    Gaps <- MCTwo
    SOLVER = "GUROBI_GRAPH"
    Inputs <- MCSixCharacters
INVARIANTS
    SomeOptimumRemains
    NodeFactsHold
    SplitSeparates
    SolvedIsLongest
    SolutionIsOne
    UnsolvedIsBounded
