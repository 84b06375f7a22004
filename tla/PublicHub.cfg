SPECIFICATION Spec
CONSTANTS
    l1 = l1
    l2 = l2
    Instruments = {"BTC", "ETH"}
    MarketKinds = {"ticker", "kline"}
    BookKinds = {"book"}
    Unlimited = Unlimited
    Wants <- TwoWishes
    Leases = {l1, l2}
    Broken = {"kline"}
    Venues = {"Binance", "Bybit", "Mexc"}
    MaxReconnects = 1
    Cancels = TRUE
INVARIANTS
    OneStreamPerRoute
    HeldLeaseIsCovered
PROPERTIES
    KeepsContract
    UnusedStreamsStop
CHECK_DEADLOCK FALSE
