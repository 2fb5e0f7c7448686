SPECIFICATION FairSpec
CONSTANTS
    Profiles = {"fixture", "real", "provider"}
    MaxFaults = 2
    MaxCrashes = 2
CHECK_DEADLOCK FALSE
INVARIANTS
    TypeOK
    CleanMeansGone
    RemovedAreGone
    EvidenceHonest
    ProbesOffline
PROPERTIES
    ImplementsCleanRun
    Settles
