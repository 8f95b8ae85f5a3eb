SPECIFICATION FairSpec
CONSTANTS
    Topics = {t1}
    Subs = {s1}
    Publishers = {p1, p2}
    PublishCap = 2
    Policies <- AllPolicies
    BufferSize = 2
    NoTopic = NoTopic
    NoPolicy = NoPolicy
    NoSub = NoSub
CHECK_DEADLOCK FALSE
INVARIANTS TypeOK NoOrphan NoLateDelivery InOrder MetricsAgree
PROPERTY CallsEnd
