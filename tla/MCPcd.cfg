SPECIFICATION Spec
CONSTANTS
    ChainCapacity = 8
    PcdMaxInf = 2
    PcdLimits <- MCPcdLimits
    Apdus <- MCApdus
    SpontaneousDeselect = FALSE
    PeerFrames <- MCPeerFrames
INVARIANTS
    TypeOK
    AirTimeBounded
PROPERTIES
    CallsReturn
    ChunksNumbered
    RecoveryRepeatsNumber
