SPECIFICATION Spec
CONSTANTS
    Sigma = 3
    MaxLength = 3
    MaxSolution = 3
INVARIANTS
    AcceptsSolutions
    AcceptedUpToLast
CHECK_DEADLOCK FALSE
