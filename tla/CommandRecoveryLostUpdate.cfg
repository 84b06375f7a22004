SPECIFICATION SafetySpec
CONSTANTS
    c1 = c1
    c2 = c2
    manual = manual
    periodic = periodic
    Commands = {c1, c2}
    Background = {}
    Kind <- AllCreate
    Casts <- TwoCommands
    IdChoices <- ClientIds
    Trigger <- Triggers
    Venues = {"Binance"}
    RestFails = FALSE
    StreamsMove = FALSE
INVARIANTS
    RecoveryIsProven
CHECK_DEADLOCK FALSE
