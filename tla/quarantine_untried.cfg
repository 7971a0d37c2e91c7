SPECIFICATION Spec
CONSTANTS
    Jobs = {j1}
    Batch = {j1}
    Workers = {w1}
    Slots = {t1, t2, t3, t4}
    MaxDelivery = 3
    MaxRetries = 1
    MaxFaults = 0
    NoJob = NoJob
    NoWorker = NoWorker
CHECK_DEADLOCK FALSE
PROPERTY QuarantinedWasAttempted
