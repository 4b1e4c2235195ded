SPECIFICATION Spec
CONSTANTS
    ChainCapacity = 3
    PeerBlocks <- CommandBlocks
    MaxDeselects = 0
    LimitChoices <- MCLimitChoices
PROPERTIES
    LimitsTakeEffectNext
