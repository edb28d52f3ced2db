CONSTANTS
    Attempt = {"web.ping", "web.cpu"}
    AttemptDict <- PingAndCpu
    Foreign = {"web.new"}
    Metrics <- OneMetric
    UpAttempt = {"web.ping"}
    UpMetric = "is_alive"
    Outcomes = {"raise", "rows"}
    ConfigMatch = {TRUE, FALSE}
    MismatchAction = "ignore"
    Preempt = FALSE
    None = None
    MaxQueue = 1
SPECIFICATION Spec
INVARIANTS AckedAfterCollection ChannelStaysOpen
PROPERTIES AcceptedIsFinished ImplementsWorker
