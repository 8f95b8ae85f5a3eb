SPECIFICATION FairSpec
CONSTANTS
    Requests = {r1, r2}
    Lookups <- SomeLookups
    Events = {"e"}
    Asks <- SomeAsks
    Routes <- SomeRoutes
    HookRoute <- Hook
    AddingRoute <- Adding
    MaxBytes = 2
    Configs <- SomeConfigs
    Rate = 1
    Capacity = 1
    MaxIdle = 0
    DedupTTL = 1
    MaxRoutes = 3
    MaxTime = 1
    None = None
CHECK_DEADLOCK FALSE
INVARIANTS TypeOK TokensHeld   AcceptedOnce NoLateWrite
PROPERTIES  RepeatIsPublished
