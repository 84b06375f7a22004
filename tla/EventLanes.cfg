SPECIFICATION Spec
CONSTANTS
    c1 = c1
    c2 = c2
    Commands = {c1, c2}
    FromAck = {c1, c2}
    Followed = {c1}
    CommandBurst = 0
    Capacity = 2
    RecoveryFails = TRUE
    MaxForeign = 1
    MaxData = 5
INVARIANTS
    RateBound
    HandleMissesNothing
    WatcherMissesNothing
PROPERTIES
    CommandsGetThrough
    ResolvedReturns
CHECK_DEADLOCK FALSE
