SPECIFICATION Spec
CONSTANTS
    Sigma = 2
    MaxLength = 2
    MaxSolution = 2
INVARIANTS
    LastCharacterIsChecked
CHECK_DEADLOCK FALSE
