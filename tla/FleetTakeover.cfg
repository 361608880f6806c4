CONSTANTS
    alpha = alpha
    d1 = d1
    Conns = {c1, c2, c3}
    Agents = {alpha}
    NoConn = NoConn
    NoAgent = NoAgent
    Overlap = {alpha}
    Daemons = {d1}
    Name <- MCName
SPECIFICATION FairFleetSpec
PROPERTIES
    NotLeftOffline
