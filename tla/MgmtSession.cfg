CONSTANTS
    Conns = {c1, c2, c3}
    Agents = {alpha, beta}
    NoConn = NoConn
    NoAgent = NoAgent
    Overlap = {alpha}
SPECIFICATION FairSpec
INVARIANTS
    TypeOK
    OnlineHasHandler
    AuditTellsPresence
    OneLiveSession
    OfflineHasNoTelemetry
PROPERTIES
    NoFalseOffline
    LostGoesOffline
    AcceptedIsServed
