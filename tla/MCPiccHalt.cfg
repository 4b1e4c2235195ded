SPECIFICATION Spec
CONSTANTS
    ChainCapacity = 4
    PiccMaxInf = 1
    Uid <- MCUid
    SendFaults = FALSE
    PiccLimits <- MCPiccLimits
    Responses <- MCResponses
    ReaderFrames <- MCReaderFrames
PROPERTY
    HaltedUntilWupa
