SPECIFICATION FairSpec
CONSTANTS
    a1 = a1
    a2 = a2
    a3 = a3
    Sigma = 3
    Opt = 2
    Arcs <- TwoArcs
    OptPaths <- TwoPaths
    MddTimeout = 1
    BadRunLimit = 1
    MaxSlack = 1
PROPERTIES
    Termination
CHECK_DEADLOCK FALSE
