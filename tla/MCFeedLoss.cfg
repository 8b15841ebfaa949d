CONSTANTS
    Producers = {p1, p2}
    Subscribers = {s1}
    Policies = {"DropNewest", "DropOldest"}
    IngressCapacity = 2
    ChannelCapacity = 1
    MaxBars = 2
SPECIFICATION FeedSpec
SYMMETRY ProducerSymmetry
INVARIANT LossCounted
CHECK_DEADLOCK FALSE
