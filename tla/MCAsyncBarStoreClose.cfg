CONSTANTS
    MaxBars = 3
    MaxSessions = 2
    Callers = {c1, c2}
    Capacity = 2
SPECIFICATION AsyncSpec
PROPERTY CloseReturns
CHECK_DEADLOCK FALSE
