CONSTANTS
    Shards <- MCShards
    Inputs <- MCInputs
SPECIFICATION Spec
INVARIANTS
    BatchBuilt
    BeaconAgrees
    ShardsAccept
    NetsEverything
    NoFitLeft
    FewAllocations
CHECK_DEADLOCK FALSE
