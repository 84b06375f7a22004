SPECIFICATION Spec
CONSTANTS
    Requests = {r1, r2}
    NoRequest = NoRequest
    MaxSessions = 2
    ReplyKinds = {"accept", "reject"}
    Venue = "Binance"
    Operations = {"CreateOrder", "AmendOrder", "CancelOrder", "ClosePosition",
                  "CancelAllOrders", "CancelAllInstruments", "SetLeverage",
                  "SetMarginMode", "SetPositionMode"}
SYMMETRY RequestSymmetry
INVARIANTS
    ExecutedAtMostOnce
    ReceiptIsProof
    WebSocketOnlyNeverRest
CHECK_DEADLOCK FALSE
