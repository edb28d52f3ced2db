CONSTANTS
    Instance = {"web", "db"}
    Check = {"ping", "cpu", "tls"}
    Checks <- BrokenChecks
    NoCheck = "none"
    UpCheck <- AllPing
    CheckIfDown = {"web"}
    Broken <- BrokenAttempts
    AttemptDict <- TwoHostAttempts
    SlowOpen = FALSE
    MaxQueue = 1
SPECIFICATION Spec
INVARIANTS TypeOK UpMeansScheduled UpCheckScheduled
PROPERTY DueIsHandled
