SPECIFICATION TransportSpec
CONSTANTS
    Requests = {r1, r2}
    NoRequest = NoRequest
    MaxSessions = 2
    ReplyKinds = {"accept", "reject"}
INVARIANTS
    TypeOK
    UnavailableNeverWritten
    WrittenAtMostOnce
    ReplyIsOwnVerdict
    WaiterIsOwedAnswer
    ConnectsOneAtATime
PROPERTIES
    EvictsOnlyTheFailedSession
    CallsReturn
    OrphanSessionsEnd
CHECK_DEADLOCK FALSE
