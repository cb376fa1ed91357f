SPECIFICATION FSpecInOrder
CONSTANTS
    K = 1
    Ids = {1, 2, 3, 4, 5, 6}
    Works = {1}
    GenesisWork = 1
    MaxParents = 2
    Depth = 2
INVARIANTS
    FTypeOK TipHasState NoPanic
PROPERTY
    FinalityOnlyRises
CHECK_DEADLOCK FALSE
