SPECIFICATION Spec
CONSTANTS
    ChainCapacity = 8
    PcdMaxInf = 1
    PiccMaxInf = 1
    PcdLimits <- MCLimits
    PiccLimits <- MCLimits
    Uid <- MCUid
    SendFaults = FALSE
    Commands <- MCCommands
    LossPhases <- AnyPhase
    MaxLossRun = 3
    LateAnswers = FALSE
    GoesOnAfterError = TRUE
INVARIANT
    ReceivesWholeCommands
