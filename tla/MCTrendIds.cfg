CONSTANTS
    Prices <- MCPrices
    Openings <- MCOpenings
    MaxSwings = 9
    MaxLead = 3
SPECIFICATION TrendSpec
INVARIANT TrendIdsPresent
