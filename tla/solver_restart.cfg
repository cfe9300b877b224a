SPECIFICATION Spec
CONSTANTS
    s0 = s0
    s1 = s1
    Shards <- MCShards
    NoBatch = NoBatch
    MaxHeight = 2
    MaxCrashes = 1
INVARIANTS NoSequenceError
CHECK_DEADLOCK FALSE
