SPECIFICATION Spec
CONSTANTS
    a1 = a1
    a2 = a2
    a3 = a3
    Sigma = 4
    Opt = 2
    Arcs <- MCArcs
    OptPaths <- MCOptPaths
    MddTimeout = 1
    BadRunLimit = 1
    MaxSlack = 1
INVARIANTS
    TypeOK
    BoundIsSound
    SolvedIsOptimal
    FlagsAreSetWhenRead
    OptimumSurvivesKills
    IInv
PROPERTIES
    BoundsCloseIn
    KeepsPromise
CHECK_DEADLOCK FALSE
