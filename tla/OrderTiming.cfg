\* One tick is four seconds: a check every two minutes, the jitter of 8
\* seconds, a queue of one minute, 20 seconds of work, 4 of delays.
CONSTANTS
    Interval = 30
    Jitter = 2
    TTL = 15
    MaxWork = 5
    MaxDelay = 1
    MaxLag = 1
SPECIFICATION Spec
INVARIANTS OneOrderAtATime
