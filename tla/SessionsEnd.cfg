CONSTANTS
    Callers = {c1, c2}
    Concurrent = 1
    Idle = 2
    Absolute = 2
    MaxSessions = 3
    LastInstant = 2
SPECIFICATION SessionsSpec
INVARIANT SignInsEnd
CHECK_DEADLOCK FALSE
