SPECIFICATION Spec
CONSTANTS
    c1 = c1
    c2 = c2
    w1 = w1
    w2 = w2
    None = None
    Clients <- TwoClients
    Workers <- TwoWorkers
    MaxFd = 4
    Window = 1
    Backlog = 1
    MaxBlocks = 1
    MaxReplies = 2
    ClosingSides <- ClientSide
    SetupOutcomes <- ReachableOnly
    OperatorQuits = FALSE
CHECK_DEADLOCK FALSE
SYMMETRY ClientSymmetry
INVARIANTS TypeOK DescriptorOwnership OpenAndKept
