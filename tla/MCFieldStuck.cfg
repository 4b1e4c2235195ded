SPECIFICATION Spec
CONSTANTS
    ChainCapacity = 4096
    PiccMaxInf = 13
    PiccLimits <- MCLimits
    Uid <- MCUid
    SendFaults = FALSE
    LossKinds <- AnyKind
    MaxLosses = 1
PROPERTY
    EventuallyActivated
CHECK_DEADLOCK FALSE
