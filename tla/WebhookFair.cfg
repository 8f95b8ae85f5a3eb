SPECIFICATION FairSpec
CONSTANTS
    Targets = {t1}
    Deliveries = {d1, d2}
    EventTypes = {e1}
    Workers = {w1, w2}
    Callers = {c1}
    Settings <- OnSettings
    Responses <- RetryResponses
    QueueSize = 1
    DropPolicy = "block_timeout"
    BlockWait = 50
    DefaultMaxRetries = 1
    RetryOn429 = TRUE
    RetryCap = 2
    NoTarget = NoTarget
    NoTask = NoTask
CHECK_DEADLOCK FALSE
PROPERTIES QueuedIsSettled StopEndsAll RetryFlushedOrTimerless
