SPECIFICATION PlaysSpec
CONSTANTS
    K = 1
    Subsidy = 4
    MaxValue = 9
    GenesisTxs <- MCGenesisTxs
    Spends <- MCSpends
    HalvingEra = 1000
    MaxDrift = 4
    NoMiner = NoMiner
    Names = {1, 2, 3, 4}
    Clock <- MCClock
    Miner = "founder"
    IdOrder <- MCIdOrder
    MaxQueue = 2
    MaxFrame = 15
    LengthLimit = 20
    CountLimit = 2
    Hosts = {"demo", "solo", "peer"}
    Line <- MCLine
    PullFrom <- MCPullFrom
    Flags <- MCFlags
    WallClock = 9
    Miners = {"bob"}
    Missing = Missing
    Backlog = 2
    Gone = Gone
    MaxKills = 1
    MaxRequests = 2
INVARIANTS
    NoForeignLedger SavedWhenIdle
PROPERTIES
    PullAllOrNothing Responsive
