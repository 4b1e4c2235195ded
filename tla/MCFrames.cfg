SPECIFICATION Spec
CONSTANTS
    FrameCapacity = 256
    Configurations <- MCConfigurations
    Strangers <- MCStrangers
    ForeignData <- MCForeignData
    Garbling <- Garblings
    MaxGarbledLength = 16
INVARIANTS
    TypeOK
    IntactIsUnderstood
    GarbledIsRefused
    CidAsAnnounced
    ParsersAgree
    OneReading
CHECK_DEADLOCK FALSE
