CONSTANTS
    r1 = r1
    r2 = r2
    c1 = c1
    None = None
    Absent = Absent
    Empty = Empty
    Proxy = Proxy
    Database = Database
    Relays <- OneRelay
    Clients <- OneClient
    Procs <- TwoProcs
    DbBacklog = 1
    ProxyBacklog = 1
    MaxKills = 1
    MaxPairs = 2
    InOrder = FALSE
SPECIFICATION FairSpec
CHECK_DEADLOCK FALSE
INVARIANTS TypeOK KeysBelongTogether RunningIsConnected
PROPERTIES KeysStable StartEnds AnsweredOrBehindRelay ProxyServedOrBehindRelay
