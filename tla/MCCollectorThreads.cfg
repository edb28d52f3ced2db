CONSTANTS
    Attempt = {"web.ping", "web.cpu"}
    AttemptDict <- PingAndCpu
    Foreign = {"web.new"}
    Metrics <- OneMetric
    UpAttempt = {"web.ping"}
    UpMetric = "is_alive"
    Outcomes = {"raise", "rows", "empty", "nokey"}
    ConfigMatch = {TRUE, FALSE}
    MismatchAction = "exit"
    Preempt = TRUE
    None = None
    MaxQueue = 1
SPECIFICATION Spec
INVARIANTS TypeOK FlagsMatchDelivery
