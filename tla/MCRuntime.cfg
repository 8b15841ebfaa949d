CONSTANTS
    a = a
    b = b
    c = c
    Names = {a, b, c}
    Default = a
    LowerCase <- MCLowerCase
    Count = 5
    AttemptsPerBar = 2
    ChannelCapacity = 2
    IngressCapacity = 3
    Assessments <- MCAssessments
    ZoneSignals <- MCZoneSignals
SPECIFICATION RuntimeSpec
INVARIANTS
    CaughtUp
    NeverActs
PROPERTY RunEnds
CHECK_DEADLOCK FALSE
