SPECIFICATION FairSpec
CONSTANTS
    Conns = {c1}
    Workers = {w1}
    Behaviors = {"wait", "block", "drop", "close"}
    JobQueueSize = 1
    SendQueueSize = 1
    MaxMessages = 2
    MaxParts = 2
    Admin = Admin
CHECK_DEADLOCK FALSE
INVARIANTS TypeOK RequestSafeFromStop
PROPERTIES ReceivedInOrder ConnectionsEnd 
