SPECIFICATION SpecRuled
CONSTANTS
    K = 1
    Base = 8
    Ids = {63, 500, 900, 2000}
    Works = {1, 3}
    Timestamps = {0, 7}
    Retargets <- MCRetargets
    MaxParents = 3
INVARIANTS
    LinearizeTopological TailIsVirtualMergeset
    ArrivalOrderIrrelevant MinedAccepted WorkTracksRate TargetExact
CHECK_DEADLOCK FALSE
