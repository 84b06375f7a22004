SPECIFICATION Spec
CONSTANTS
    N = 4
    ChunkSize = 2
    ById = {1, 3, 4}
    Instrument <- TwoInstruments
    Venues = {"Binance"}
INVARIANTS
    WritesAreTracked
CHECK_DEADLOCK FALSE
