CONSTANTS
    m1 = m1
    m2 = m2
    Instruments = {k1, k2}
    Timeframes = {m1, m2}
    Window <- MCWindow
    Prices = {1, 2}
    Volumes = {1}
    MinuteSteps = {0, 1}
    LateTimeframes = {m2}
    MaxTicks = 4
    MaxLate = 1
    MaxSessions = 2
    Producers = {p1, p2}
    Subscribers = {s1}
    Policies = {"DropNewest", "DropOldest"}
    IngressCapacity = 2
    ChannelCapacity = 1
    MaxBars = 2
SPECIFICATION MarketDataSpec
SYMMETRY MCSymmetry
INVARIANTS
    BarsSummarize
    VolumeAccounted
    WindowsConsecutive
    NothingSkipped
    LossBounded
    QueueOrder
    Delivered
CHECK_DEADLOCK FALSE
