SPECIFICATION Spec
CONSTANTS
    k1 = k1
    k2 = k2
    k3 = k3
    Keys = {k1, k2, k3}
    ShardCount = 2
    ShardOf <- TwoAndOne
    Threads = {t1, t2}
    Numbers = {n1, n2}
    SizeOf <- AllOne
    TTLs = {"later"}
    MaxEntries = 2
    MaxMemory = 3
    NoEntry = NoEntry
    NoKey = NoKey
    Nobody = Nobody
    Cleaner = Cleaner
SYMMETRY Symmetry
CHECK_DEADLOCK FALSE
INVARIANT SizeIsKeys
