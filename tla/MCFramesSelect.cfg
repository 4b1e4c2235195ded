SPECIFICATION Spec
CONSTANTS
    FrameCapacity = 256
    Configurations <- MCConfigurations
    Strangers <- MCStrangers
    ForeignData <- MCForeignData
    Garbling <- Garblings
    MaxGarbledLength = 0
INVARIANT
    SelectedByUid
CHECK_DEADLOCK FALSE
