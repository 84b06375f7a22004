SPECIFICATION Spec
CONSTANTS
    c1 = c1
    c2 = c2
    Commands = {c1}
    FromAck = {}
    Followed = {c1}
    CommandBurst = 1
    Capacity = 4
    RecoveryFails = FALSE
    MaxForeign = 0
    MaxData = 0
PROPERTIES
    EveryResolvedReturns
CHECK_DEADLOCK FALSE
