SPECIFICATION Spec
CONSTANTS
    ChainCapacity = 4096
    PiccMaxInf = 13
    PiccLimits <- MCLimits
    Uid <- MCUid
    SendFaults = FALSE
    LossKinds <- AnyKind
    MaxLosses = 3
INVARIANTS
    TypeOK
    ActivatesThisCard
PROPERTY
    OnlyReadyBlocks
CHECK_DEADLOCK FALSE
