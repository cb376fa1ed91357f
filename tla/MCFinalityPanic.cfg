SPECIFICATION FSpecInOrder
CONSTANTS
    K = 1
    Ids = {1, 2, 3, 4, 5, 6}
    Works = {1, 9}
    GenesisWork = 1
    MaxParents = 1
    Depth = 2
INVARIANTS
    NoPanic
CHECK_DEADLOCK FALSE
