CONSTANTS
    Requests = {q1, q2}
    MaxSessions = 3
    MaxFails = 7
    None = None
SPECIFICATION FairSpec
INVARIANTS
    TelemetryInSession
    OneSender
    BackoffLaw
    StopBoundsSessions
PROPERTIES
    KeepsLoop
    KeepsTrying
    StopHeeded
    ResponsesFinish
CHECK_DEADLOCK FALSE
