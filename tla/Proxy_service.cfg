CONSTANTS
    c1 = c1
    c2 = c2
    w1 = w1
    None = None
    Clients <- TwoClients
    Relays <- NoRelay
    Workers <- OneWorker
    MaxSockets = 1
    Backlog = 1
    MaxBlocks = 3
    KeyBlocks <- AnyKey
    RequestBlocks <- AnyRequest
    PeersClose <- OneClient
    DatabaseFails = TRUE
    OperatorQuits = TRUE
SPECIFICATION FairSpec
CHECK_DEADLOCK FALSE
INVARIANTS TypeOK TurnsAreRegistered RequestsReachDatabase
PROPERTIES ServiceSpec KeyAnswered RequestTaken
