SPECIFICATION Spec
CONSTANTS
    c1 = c1
    c2 = c2
    manual = manual
    periodic = periodic
    Commands = {c1, c2}
    Background = {manual, periodic}
    Kind <- AllCreate
    Casts <- AnyCast
    IdChoices <- MixedIds
    Trigger <- Triggers
    Venues = {"Binance", "Bybit", "Mexc"}
    RestFails = TRUE
    StreamsMove = TRUE
INVARIANTS
    LoneRecoveryIsProven
    ReportCoversWhatWasRead
PROPERTIES
    RecoveredHandlesResolve
CHECK_DEADLOCK FALSE
