CONSTANTS
    Streams = {s1, s2, s3}
    Pages = {p1, p2}
    Senders = {h1, h2}
    None = None
SPECIFICATION FairSpec
INVARIANTS
    NoEventLost
    LiveIsRegistered
    OneStream
PROPERTIES
    StreamsForgotten
    BroadcastFinishes
