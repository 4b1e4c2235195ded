SPECIFICATION Spec
CONSTANTS
    ChainCapacity = 3
    PeerBlocks <- MCPeerBlocks
    MaxDeselects = 1
    LimitChoices <- MCLimitChoices
INVARIANTS
    TypeOK
    NumbersAlternate
    CompleteIsAssembled
PROPERTIES
    WorkBounded
