CONSTANTS
    alpha = alpha
    a1 = a1
    a2 = a2
    Calls = {r1, r2}
    Agents <- MCAgents
    Conns <- MCConns
    Owner <- MCOwner
    None = None
SPECIFICATION FairSpec
INVARIANTS
    TypeOK
    PendingIsInFlight
    OneWriter
    OkMeansDone
    AtMostOnce
PROPERTIES
    KeepsPromise
    CallsFinish
CHECK_DEADLOCK FALSE
