CONSTANTS
    alpha = alpha
    beta = beta
    None = None
    NoValue = NoValue
    Octets = 2
    Floats <- MCFloats
    Finite <- MCFinite
    Whole <- MCWhole
    Names = {alpha, beta}
    Containers = {"nginx", "cron"}
    Verbs = {"start", "remove"}
    Whitelist <- MCWhitelist
    Stubs = {beta}
    Tokens = {"plain", "fancy", "wrong"}
    Ascii = {"plain", "wrong"}
    Secrets <- MCSecrets
    Envs <- MCEnvs
    Hosts <- MCHosts
    Boards <- MCBoards
    OtherTables <- MCOtherTables
SPECIFICATION Spec
INVARIANTS
    OnlyAsked
    AuditTellsAnswer
    PacketIsMagic
    ClientsTell
    ReadersAgree
