SPECIFICATION Spec
CONSTANTS
    MaxWins = 1
    Env <- MCEnv
    MaxFrame = 3
    Back = FALSE
INVARIANTS
    NoResidualVisibility
