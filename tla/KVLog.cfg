SPECIFICATION FairSpec
CONSTANTS
    k1 = k1
    k2 = k2
    Keys = {k1, k2}
    ShardCount = 2
    ShardOf <- OneEach
    Clients = {c1}
    ChanCap = 2
    MaxWrites = 3
    MaxSnapshots = 1
    MaxCrashes = 1
    Compressed = TRUE
    NoKey = NoKey
    NoCall = NoCall
CHECK_DEADLOCK FALSE
INVARIANTS TypeOK 
PROPERTIES  CloseReturns
