SPECIFICATION Spec
CONSTANTS
    o1 = o1
    o2 = o2
    i1 = i1
    i2 = i2
    app = app
    stream = stream
    Orders = {o1, o2}
    InstrumentOf <- TwoInstruments
    Standing = {o2}
    Algo = {o2}
    Venues = {"Binance", "Bybit", "Mexc"}
    Modes = {"OneWay"}
    PageSize = 1
    Callers = {app}
    Requests <- SomeRequests
    Stream = stream
    ExecutionCapacity = 2
    Periodic = TRUE
    MaxTrades = 2
    MaxCalls = 1
    MaxFailures = 1
    MaxDisconnects = 1
INVARIANTS
    ExecutionsRecordedOnce
PROPERTIES
    RefreshKeepsOpenOrders
    OpenOrdersConverge
    PositionsConverge
CHECK_DEADLOCK FALSE
