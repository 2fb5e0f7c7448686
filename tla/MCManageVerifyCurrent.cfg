SPECIFICATION Spec
CONSTANTS
    Callers = {c1, c2, c3}
    Binaries = {b1}
    Missing = Missing
    Unseen = Unseen
    None = None
    HasAuth = TRUE
    VersionTTL = 2
    AuthTTL = 1
    MaxEvents = 0
    MaxClock = 2
SYMMETRY Symmetry
PROPERTIES
    CachedAnswersAreCurrent
