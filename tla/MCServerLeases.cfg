SPECIFICATION FairSpec
CONSTANTS
    Requests = {r1, r2}
    Convs = {c1, c2}
    Providers = {claude, gemini, agy}
    Agy = agy
    Gemini = gemini
    Anonymous = anonymous
    NoSlot = NoSlot
    NoLease = NoLease
    MaxConvs = 1
    MaxActiveTurns = 2
    MaxPerProvider = 1
INVARIANTS
    TypeOK
    ReservationsMatchLeases
    HeldSlotsStayStored
PROPERTIES
    ImplementsExclusiveTurns
    LeasesReturn
