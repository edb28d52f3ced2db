CONSTANTS
    Name = {"host", "a", "b", "base", "letter", "(undefined)"}
    Check = {"host", "a", "b", "base"}
    Letters <- LettersOf
    Default = TRUE
    MaxDepth = 6
    None = None
    Variable = {"x", "y"}
    Count = 2
    Setups <- AllSetups
    Undefined = "(undefined)"
SPECIFICATION Spec
INVARIANTS TypesOK AllResolved ValidIsLoaded BaseIsMeant
PROPERTIES FoundAgainIsQuiet ResolvedStays SearchIsComplete EntriesAreConfigured
CHECK_DEADLOCK FALSE
