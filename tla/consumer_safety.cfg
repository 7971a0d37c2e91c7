SPECIFICATION Spec
CONSTANTS
    Jobs = {j1, j2}
    Batch = {j1, j2}
    Workers = {w1, w2}
    Slots = {t1, t2}
    MaxDelivery = 1
    MaxRetries = 1
    MaxFaults = 1
    NoJob = NoJob
    NoWorker = NoWorker
CHECK_DEADLOCK FALSE
SYMMETRY Symmetry
INVARIANT TypeOK
INVARIANT NoEntryLost
INVARIANT QuarantineOnlyExhausted
PROPERTY ImplementsAtLeastOnce
PROPERTY ReprocessedOnlyIfRedelivered
INVARIANT PrewarmedBeforePickup
INVARIANT BatchCompletedSound
