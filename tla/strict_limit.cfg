SPECIFICATION LimiterSpec
CONSTANTS
    Callers = {c1, c2}
    Rpm = 2
    Window = 5
    MaxTime = 9
CHECK_DEADLOCK FALSE
INVARIANT StrictLimit
