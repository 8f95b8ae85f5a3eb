SPECIFICATION Spec
CONSTANTS
    Targets = {t1, t2}
    Deliveries = {d1, d2}
    EventTypes = {e1}
    Workers = {w1, w2}
    Callers = {c1}
    Settings <- OnOffSettings
    Responses <- AllResponses
    QueueSize = 1
    DropPolicy = "block_timeout"
    BlockWait = 50
    DefaultMaxRetries = 1
    RetryOn429 = TRUE
    RetryCap = 2
    NoTarget = NoTarget
    NoTask = NoTask
SYMMETRY Symmetry
CHECK_DEADLOCK FALSE
INVARIANTS TypeOK OneTaskUntilEnd NoSilentLoss MetricsBalance
PROPERTIES EndedIsFinal RefinesLifecycle
