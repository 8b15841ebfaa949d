CONSTANTS
    Prices <- MCPrices
    Openings <- MCOpenings
    MaxSwings = 10
    MaxLead = 3
    Workers = {1, 2}
    WorkerRange = 3
    SequenceRange = 3
    MaxClock = 2
    MaxSetBacks = 2
SPECIFICATION IdentitySpec
INVARIANTS
    TrendsOrdered
    TrendsChain
    IdsIncrease
    IdsDisjoint
    WaitsOnlyExhausted
PROPERTIES
    PastTrendsSettled
    GetIdReturns
CHECK_DEADLOCK FALSE
