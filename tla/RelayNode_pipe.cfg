SPECIFICATION Spec
CONSTANTS
    c1 = c1
    c2 = c2
    w1 = w1
    w2 = w2
    None = None
    Clients <- TwoClients
    Workers <- OneWorker
    MaxFd = 3
    Window = 1
    Backlog = 1
    MaxBlocks = 2
    MaxReplies = 2
    ClosingSides <- BothSides
    SetupOutcomes <- AllOutcomes
    OperatorQuits = TRUE
CHECK_DEADLOCK FALSE
INVARIANTS IInv PipeInv
PROPERTY PipeSpec
