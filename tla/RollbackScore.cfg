SPECIFICATION FairSpec
CONSTANTS
    MaxWins = 15
    Base = 2
    Memory <- MCMemory
    Boot <- MCBoot
    Input <- MCInput
    Idle <- MCIdle
    Run <- MCRun
    AloneWins = 1
    MaxFrames = 3
    Window = 2
INVARIANTS
    TypeOK
    LatchFollowsMemory
    ConfirmedIsTrue
PROPERTIES
    SettlesOnTruth
