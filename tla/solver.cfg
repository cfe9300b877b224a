SPECIFICATION FairSpec
CONSTANTS
    s0 = s0
    s1 = s1
    Shards <- MCShards
    NoBatch = NoBatch
    MaxHeight = 3
    MaxCrashes = 2
INVARIANTS TypeOK OneChain HeadAcceptable FinalizedExpected PendingOrSent SentIsCommitted
PROPERTIES BatchFinalizes
CHECK_DEADLOCK FALSE
