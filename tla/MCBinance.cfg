CONSTANTS
    Symbols = {s1, s2}
    Own = s1
    MaxEpochs = 3
    MaxTrades = 2
SPECIFICATION BinanceSpec
INVARIANTS
    NoTradeTwice
PROPERTIES
    AdapterContract
    StrictNotices
