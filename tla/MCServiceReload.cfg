CONSTANTS
    Instance = {"db"}
    Checks <- OneCheck
    UpCheck <- PingIsUp
    SkipIfDown = {}
    Files <- ReloadFiles
    Discoverable = {"db"}
    MaxPerLoop = 0
    MaxObjects = 2
    MaxEvents = 2
    None = None
SPECIFICATION Spec
INVARIANT OneAttemptPerCheck
PROPERTIES RemovedIsForgotten HupIsHonoured
