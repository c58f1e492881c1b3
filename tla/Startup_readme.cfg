CONSTANTS
    r1 = r1
    r2 = r2
    c1 = c1
    None = None
    Absent = Absent
    Empty = Empty
    Proxy = Proxy
    Database = Database
    Relays <- TwoRelays
    Clients <- OneClient
    Procs <- ThreeProcs
    DbBacklog = 3
    ProxyBacklog = 4
    MaxKills = 0
    MaxPairs = 1
    InOrder = TRUE
SPECIFICATION FairSpec
CHECK_DEADLOCK FALSE
PROPERTY ClientAnswered
