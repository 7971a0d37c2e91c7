SPECIFICATION FairSpec
CONSTANTS
    Jobs = {j1}
    Batch = {}
    Workers = {w1, w2}
    Slots = {t1, t2}
    MaxDelivery = 2
    MaxRetries = 2
    MaxFaults = 2
    NoJob = NoJob
    NoWorker = NoWorker
PROPERTY DeliveredIsSettled
CHECK_DEADLOCK FALSE
