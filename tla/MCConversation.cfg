SPECIFICATION Spec
CONSTANTS
    Providers = {claude, codex, gemini}
    DefaultProvider = claude
    None = None
    Window = 2
    MaxTurns = 3
    MaxCalls = 5
SYMMETRY Symmetry
INVARIANTS
    TypeOK
    NoContextWithoutConsent
PROPERTIES
    ContextComplete
