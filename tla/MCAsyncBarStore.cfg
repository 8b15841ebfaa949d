CONSTANTS
    MaxBars = 3
    MaxSessions = 3
    Callers = {c1, c2}
    Capacity = 2
SPECIFICATION AsyncSpec
INVARIANTS
    NoHoles
    LossPerInterruption
    FlushCovers
    CloseOkComplete
PROPERTIES
    FlushReturns
    ShutdownCompletes
    StoreSpec
CHECK_DEADLOCK FALSE
