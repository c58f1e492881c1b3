CONSTANTS
    c1 = c1
    c2 = c2
    w1 = w1
    None = None
    Clients <- OneClient
    Relays <- NoRelay
    Workers <- OneWorker
    MaxSockets = 2
    Backlog = 1
    MaxBlocks = 2
    KeyBlocks <- KeysOnly
    RequestBlocks <- LoginsOnly
    PeersClose <- Nobody
    DatabaseFails = FALSE
    OperatorQuits = FALSE
SPECIFICATION FairSpec
CHECK_DEADLOCK FALSE
PROPERTY LoginAnswered
