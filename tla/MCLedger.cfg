SPECIFICATION SpecInOrder
CONSTANTS
    K = 1
    Ids = {1, 2, 3, 4}
    Works = {1}
    MaxParents = 2
    Subsidy = 4
    MaxValue = 7
    TxIds = {"g", "pay", "again", "onward", "reward", "bonus"}
    Owners = {"alice", "bob", "carol"}
    Payloads <- MCPayloads
    GenesisTxs <- MCGenesisTxs
INVARIANTS
    StateEqualsReplay StatesAreViews
    SupplyConserved NoDoubleSpend RestoreIdentical
CHECK_DEADLOCK FALSE
