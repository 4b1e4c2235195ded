SPECIFICATION Spec
CONSTANTS
    ChainCapacity = 8
    PcdMaxInf = 1
    PiccMaxInf = 1
    PcdLimits <- MCLimits
    PiccLimits <- MCLimits
    Uid <- MCUid
    SendFaults = FALSE
    Commands <- MCCommands
    LossPhases <- AnyPhase
    MaxLossRun = 3
    LateAnswers = TRUE
    GoesOnAfterError = FALSE
INVARIANTS
    TypeOK
    NumbersAgree
    DeselectAgreed
    LossesRecovered
PROPERTY
    ImplementsChannel
    ExchangesConclude
