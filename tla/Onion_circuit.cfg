CONSTANTS
    None = None
    N = 3
    Keys <- ThreeKeys
    Bodies <- TwoBodies
    Garbage <- TwoValues
    Refusing <- AnyHop
    Crashing <- AnyRelay
SPECIFICATION FairSpec
CHECK_DEADLOCK FALSE
INVARIANTS TypeOK PathAsRequested OnlyMessageLeaves ReplyReadable
PROPERTY ReplyArrives
