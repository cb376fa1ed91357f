SPECIFICATION SpecStarted
CONSTANTS
    K = 1
    Subsidy = 4
    MaxValue = 9
    GenesisTxs <- MCGenesisTxs
    Spends <- MCSpends
    HalvingEra = 1000
    MaxDrift = 4
    NoMiner = NoMiner
    Names = {1, 2, 3}
    Clock <- MCClock
    Miner = "founder"
    IdOrder <- MCIdOrder
    MaxQueue = 2
    MaxFrame = 15
    LengthLimit = 20
    CountLimit = 2
INVARIANTS
    OverlayCloses SeenIsHeld Converged SameBlocksSameLedger PullComplete RelayStream
PROPERTY
    FloodTerminates
CHECK_DEADLOCK FALSE
