SPECIFICATION Spec
CONSTANTS
    Profiles = {"real"}
    MaxFaults = 2
    MaxCrashes = 2
CHECK_DEADLOCK FALSE
INVARIANTS
    RecoveryRemovesSnapshot
