SPECIFICATION Spec
CONSTANTS
    Providers = {claude, gemini}
    DefaultProvider = claude
    None = None
    Window = 2
    MaxTurns = 3
    MaxCalls = 4
PROPERTIES
    ContextSurvivesInterruption
