CONSTANTS
    Instance = {"web", "db"}
    Check = {"ping", "cpu"}
    Checks <- TwoHostChecks
    NoCheck = "none"
    UpCheck <- AllPing
    CheckIfDown = {"db"}
    Broken = {}
    AttemptDict <- TwoHostAttempts
    SlowOpen = TRUE
    MaxQueue = 1
SPECIFICATION Spec
PROPERTY DueIsHandled
