SPECIFICATION FairSpec
CONSTANTS
    MaxSockets = 1
    Polls = {p1}
    MaxErrors = 0
    Polled = {"processing"}
CHECK_DEADLOCK FALSE
PROPERTY ViewSettles
