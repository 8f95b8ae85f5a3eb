SPECIFICATION FairSpec
CONSTANTS
    Verifiers = {v1}
    Subjects = {s1}
    TicksPerSecond = 2
    Lifetimes = {1}
    RotationInterval = 2
    StartTime = 1
    MaxKeys = 2
    MaxTokens = 1
    MaxVersion = 1
    MaxTime = 3
    MaxCrashes = 1
    MaxLosses = 1
CHECK_DEADLOCK FALSE
INVARIANTS TypeOK 
  
