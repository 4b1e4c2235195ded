SPECIFICATION Spec
CONSTANTS
    ChainCapacity = 4
    PiccMaxInf = 1
    Uid <- MCUid
    SendFaults = TRUE
    PiccLimits <- MCPiccLimits
    Responses <- MCResponses
    ReaderFrames <- MCReaderFrames
INVARIANTS
    TypeOK
    AnswersBounded
PROPERTIES
    CommandsReturn
    BlocksInStep
