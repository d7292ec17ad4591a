SPECIFICATION Spec
CONSTANTS
    Capacity = 3
    PageSize = 2
    FirstFrame = 5
    Frames = 3
    MaxWrites = 3
INVARIANTS
    TypeOK
    CompleteHasAll
    EntriesOnceInOrder
    LeftArmedIsReported
CHECK_DEADLOCK FALSE
