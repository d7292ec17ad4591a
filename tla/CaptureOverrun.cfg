SPECIFICATION Spec
CONSTANTS
    Capacity = 2
    PageSize = 3
    FirstFrame = 5
    Frames = 2
    MaxWrites = 3
INVARIANTS
    CompleteHasAll
CHECK_DEADLOCK FALSE
