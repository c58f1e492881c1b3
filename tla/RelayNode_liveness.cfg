SPECIFICATION FairSpec
CONSTANTS
    c1 = c1
    c2 = c2
    w1 = w1
    w2 = w2
    None = None
    Clients <- TwoClients
    Workers <- OneWorker
    MaxFd = 4
    Window = 1
    Backlog = 1
    MaxBlocks = 2
    MaxReplies = 1
    ClosingSides <- NoSide
    SetupOutcomes <- ReachableOnly
    OperatorQuits = FALSE
CHECK_DEADLOCK FALSE
PROPERTIES BlocksForwarded SetupResolved
