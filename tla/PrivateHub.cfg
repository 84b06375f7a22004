SPECIFICATION Spec
CONSTANTS
    l1 = l1
    l2 = l2
    Leases = {l1, l2}
    Venues = {"Binance", "Bybit", "Mexc"}
    Periodic = TRUE
    MaxReconnects = 1
    Unlimited = Unlimited
    MaxFailures = 1
INVARIANTS
    HeldLeaseKeepsStream
PROPERTIES
    KeepsContract
    UnusedStreamStops
    DeafSessionIsReplaced
    
CHECK_DEADLOCK FALSE
