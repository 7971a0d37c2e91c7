SPECIFICATION FairSpec
CONSTANTS
    Jobs = {j1, j2}
    Sems = {s1, s2, s3, s4}
    NoSem = NoSem
    MinConcurrency = 1
    MaxConcurrency = 2
    InitialConcurrency = 2
    ScaleUpThreshold = 1
    MaxRetries = 2
    MaxDelivery = 1
    MaxFaults = 2
    FailureThreshold = 2
    HalfOpenMaxTrials = 1
CHECK_DEADLOCK FALSE
INVARIANT TypeOK
INVARIANT BreakerConsistent
INVARIANT PermitsConserved
INVARIANT OpenIsClamped
PROPERTY TasksEnd
PROPERTY PendingIsSettled
PROPERTY OpenIsLeft
