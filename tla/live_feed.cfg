SPECIFICATION FairSpec
CONSTANTS
    MaxSockets = 2
    Polls = {p1}
    MaxErrors = 1
    Polled = {"queued", "processing"}
CHECK_DEADLOCK FALSE
INVARIANT TypeOK
PROPERTY FirstSocketDelivers
PROPERTY ViewSettles
