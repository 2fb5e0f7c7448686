SPECIFICATION FairSpec
CONSTANTS
    Callers = {c1, c2}
    Binaries = {b1}
    Missing = Missing
    Unseen = Unseen
    None = None
    HasAuth = TRUE
    VersionTTL = 2
    AuthTTL = 1
    MaxEvents = 1
    MaxClock = 1
INVARIANTS
    TypeOK
    OvertakenProbesNotCached
    DisabledRetainsNothing
PROPERTIES
    ImplementsSharedVerification
    FlightsSettleOnce
    ForcedAnswersAreForced
    EveryCallAnswered
