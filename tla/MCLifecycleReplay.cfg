CONSTANTS
    Symbols = {s1, s2}
    Retries = 2
    MaxFaults = 4
SPECIFICATION LifecycleSpec
INVARIANT SubscriptionsRestored
