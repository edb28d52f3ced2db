CONSTANTS
    Instance = {"web"}
    Check = {"ping", "cpu"}
    Checks <- OneHostChecks
    NoCheck = "none"
    UpCheck <- WebPing
    CheckIfDown = {}
    Broken = {}
    AttemptDict <- OneHostAttempts
    SlowOpen = FALSE
    MaxQueue = 6
    Worker = {"c1", "c2"}
    None = None
    MaxFaults = 2
    MaxCopies <- TwoPings
SPECIFICATION SammSpec
INVARIANT SammTypeOK
PROPERTIES OpenScheduler HostUpIsSeen HostDownIsSeen ChecksOfLiveHostRun DeadHostIsLeftAlone
