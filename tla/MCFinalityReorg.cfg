SPECIFICATION FSpecInOrder
CONSTANTS
    K = 1
    Ids = {1, 2, 3, 4, 5, 6}
    Works = {1}
    GenesisWork = 1
    MaxParents = 1
    Depth = 1
PROPERTY
    FinalChainStable
CHECK_DEADLOCK FALSE
