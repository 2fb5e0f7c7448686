SPECIFICATION Spec
CONSTANTS
    None = None
    MaxFiles = 4
INVARIANTS
    TypeOK
    NothingForeignIsLost
    RefusalsExplained
PROPERTY ImplementsDurableCell
