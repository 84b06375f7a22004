SPECIFICATION Spec
CONSTANTS
    i1 = i1
    i2 = i2
    Venues = {"Binance", "Bybit", "Mexc"}
    Instruments = {i1, i2}
    Subscribed = {i1, i2}
    Traded = i1
    Refreshers = {"stream", "other"}
    TradeCapacity = 2
    MaxTrades = 3
    MaxVersions = 1
    MaxListings = 1
    MaxSessions = 2
    MaxFetches = 1
INVARIANTS
    NoOrphans
    NoSilentGap
PROPERTIES
    CatalogsConverge
CHECK_DEADLOCK FALSE
