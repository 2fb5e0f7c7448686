SPECIFICATION FairSpec
CONSTANTS
    Chats = {c1, c2}
    Providers = {claude, codex}
    None = None
    MaxActive = 2
    MaxMessages = 1
INVARIANTS
    TypeOK
    RegistriesAgree
PROPERTIES
    SlotsReturn
    NoTurnOnceTold
    BegunByHolder
