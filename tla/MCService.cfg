CONSTANTS
    Instance = {"web"}
    Checks <- ThreadChecks
    UpCheck <- PingIsUp
    SkipIfDown = {"web"}
    Files <- ThreadFiles
    Discoverable = {}
    MaxPerLoop = 1
    MaxObjects = 2
    MaxEvents = 0
    None = None
SPECIFICATION Spec
INVARIANTS TypeOK OneThreadPerAttempt AttemptIsKept
PROPERTY ChecksGoOn
