SPECIFICATION VFairSpec
CONSTANTS
    MaxWins = 3
    NativeMax = 2
    RoundsToWin = 2
    Modes <- MCModes
    OtherScenes <- MCOtherScenes
INVARIANTS
    VTypeOK
    FightIsOpen
    ScoringResultHasWinner
    ScoreAgreesWithGame
PROPERTIES
    ScoreSurvivesVersus
    ImplementsLedger
    
