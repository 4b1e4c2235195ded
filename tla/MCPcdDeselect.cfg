SPECIFICATION Spec
CONSTANTS
    ChainCapacity = 8
    PcdMaxInf = 2
    PcdLimits <- MCSmallLimits
    Apdus <- MCApdus
    SpontaneousDeselect = TRUE
    PeerFrames <- MCPeerFrames
INVARIANT
    AirTimeBounded
