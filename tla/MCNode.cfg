SPECIFICATION SpecSavedOnce
CONSTANTS
    K = 1
    Subsidy = 4
    MaxValue = 9
    GenesisTxs <- MCGenesisTxs
    Spends <- MCSpends
    HalvingEra = 3
    MaxDrift = 1
    NoMiner = NoMiner
    IdOrder <- MCIdOrder
    Miner = "founder"
    Miners = {"founder"}
    PeerTxs <- MCPeerTxs
    PeerTotals = {0, 4}
    MaxClock = 2
INVARIANTS
    ProducedAccepted HistoryAddsUp
PROPERTY
    PendingIsWhatApplies
CHECK_DEADLOCK FALSE
