SPECIFICATION FairSpec
CONSTANTS
    c1 = c1
    c2 = c2
    w1 = w1
    w2 = w2
    None = None
    Clients <- OneClient
    Workers <- OneWorker
    MaxFd = 2
    Window = 1
    Backlog = 1
    MaxBlocks = 2
    MaxReplies = 0
    ClosingSides <- ClientSide
    SetupOutcomes <- ReachableOnly
    OperatorQuits = FALSE
CHECK_DEADLOCK FALSE
PROPERTY DisconnectNoticed
