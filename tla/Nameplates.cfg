SPECIFICATION Spec
CONSTANTS
    MaxWins = 1
    Env <- MCEnv
    MaxFrame = 3
    Back = TRUE
INVARIANTS
    TypeOK
    PlatesAreNamed
    
    VisibleScoreIsCurrent
    DisabledIsHidden
PROPERTIES
    SnapshotIsWhole
