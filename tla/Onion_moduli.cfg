CONSTANTS
    None = None
    N = 3
    Keys <- ThreeKeys
    Bodies <- TwoBodies
    Garbage <- TwoValues
    Refusing <- NoHop
    Crashing <- NoHop
SPECIFICATION Spec
CHECK_DEADLOCK FALSE
INVARIANT ReplyAlwaysReadable
