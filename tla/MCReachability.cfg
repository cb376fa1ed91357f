SPECIFICATION Spec
CONSTANTS
    Ids = {1, 2, 3, 4, 5}
    MaxParents = 2
    RootCapacity = 12
INVARIANTS
    OracleExact IntervalsMirrorTree FcsMatchesBuild
CHECK_DEADLOCK FALSE
