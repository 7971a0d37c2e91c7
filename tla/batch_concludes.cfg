SPECIFICATION FairSpec
CONSTANTS
    Jobs = {j1}
    Batch = {j1}
    Workers = {w1}
    Slots = {t1, t2}
    MaxDelivery = 1
    MaxRetries = 1
    MaxFaults = 0
    NoJob = NoJob
    NoWorker = NoWorker
CHECK_DEADLOCK FALSE
PROPERTY BatchConcludes
