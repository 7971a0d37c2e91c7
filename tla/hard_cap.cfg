SPECIFICATION Spec
CONSTANTS
    Jobs = {j1, j2, j3}
    Sems = {s1, s2, s3, s4, s5}
    NoSem = NoSem
    MinConcurrency = 1
    MaxConcurrency = 2
    InitialConcurrency = 2
    ScaleUpThreshold = 1
    MaxRetries = 1
    MaxDelivery = 1
    MaxFaults = 1
    FailureThreshold = 2
    HalfOpenMaxTrials = 1
CHECK_DEADLOCK FALSE
INVARIANT HardCap
