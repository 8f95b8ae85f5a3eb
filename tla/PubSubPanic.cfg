SPECIFICATION Spec
CONSTANTS
    Topics = {t1}
    Subs = {s1}
    Publishers = {p1}
    PublishCap = 1
    Policies <- AllPolicies
    BufferSize = 1
    NoTopic = NoTopic
    NoPolicy = NoPolicy
    NoSub = NoSub
CHECK_DEADLOCK FALSE
INVARIANT NoPanic
