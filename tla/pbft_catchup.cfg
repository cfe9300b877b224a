SPECIFICATION FairSpec
CONSTANTS
    n0 = n0
    n1 = n1
    n2 = n2
    n3 = n3
    NoMsg = NoMsg
    Leader = n0
    Replicas <- MCTwo
    Live <- MCTwo
    Stoppable <- MCNone
    catchUpThreshold = 1
    blocksFetchLimit = 1
    MaxSeq = 3
    MaxFailures = 0
CHECK_DEADLOCK FALSE
PROPERTIES
    LaggardCatchesUp
