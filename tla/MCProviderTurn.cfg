SPECIFICATION FairSpec
CONSTANTS
    MaxAttempts = 2
    MaxLines = 2
    MaxBuffered = 1
INVARIANTS
    TypeOK
    ReplaysAreSafe
    AnswersAreWhole
    NothingOutlives
PROPERTIES
    ImplementsOneAnswer
    EveryTurnEnds
