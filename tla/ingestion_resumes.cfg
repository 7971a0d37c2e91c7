SPECIFICATION FairSpec
CONSTANTS
    Jobs = {j1, j2}
    Sems = {s1, s2, s3, s4}
    NoSem = NoSem
    MinConcurrency = 1
    MaxConcurrency = 1
    InitialConcurrency = 1
    ScaleUpThreshold = 1
    MaxRetries = 1
    MaxDelivery = 1
    MaxFaults = 1
    FailureThreshold = 1
    HalfOpenMaxTrials = 1
CHECK_DEADLOCK FALSE
PROPERTY IngestionResumes
