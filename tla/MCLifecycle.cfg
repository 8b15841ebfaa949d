CONSTANTS
    Symbols = {s1, s2}
    Retries = 2
    MaxFaults = 4
SPECIFICATION LifecycleSpec
INVARIANTS
    NothingMissedSilently
PROPERTIES
    CallReturns
    SelfHeals
