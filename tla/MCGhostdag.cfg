SPECIFICATION Spec
CONSTANTS
    K = 1
    Ids = {1, 2, 3, 4}
    Works = {1, 3}
    GenesisWork = 1
    MaxParents = 2
INVARIANTS
    ChainKeyGrows KCluster CountsExact MergesetIsAnticone IInv
PROPERTIES
    ImplementsBlockDag
CHECK_DEADLOCK FALSE
