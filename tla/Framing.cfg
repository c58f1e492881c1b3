CONSTANTS
    Waiting = Waiting
    Dead = Dead
    Base = 4
    BlockSize = 14
    Texts <- SmallTexts
    Setups <- SmallSetups
    Earlier <- OneEarlier
    Memory <- AnyMemory
    Hops = 2
    MaxCuts = 2
SPECIFICATION SmallSpec
CHECK_DEADLOCK FALSE
INVARIANTS TypeOK HopsActOnSetups HopsActOnTheirOwn WholeReadsBuild StreamKept
