SPECIFICATION StoreSpec
CONSTANTS
    K = 1
    Subsidy = 2
    MaxValue = 9
    GenesisTxs <- MCGenesisTxs
    Ids = {1, 2, 3}
    Works = {1}
    MaxParents = 4
    TxIds = {"genesis", "subsidy"}
    Owners = {"founder"}
    Payloads <- MCPayloadsEmpty
    Cuts = {"header", "len", "body"}
INVARIANT
    LogRestores
PROPERTY
    AckedSurvive
