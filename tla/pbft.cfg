SPECIFICATION FairSpec
CONSTANTS
    n0 = n0
    n1 = n1
    n2 = n2
    n3 = n3
    NoMsg = NoMsg
    Leader = n0
    Replicas <- MCFour
    Live <- MCThree
    Stoppable <- MCNone
    catchUpThreshold = 1
    blocksFetchLimit = 1
    MaxSeq = 2
    MaxFailures = 0
CHECK_DEADLOCK FALSE
INVARIANTS
    QuorumBacked
PROPERTIES
    RoundCompletes
