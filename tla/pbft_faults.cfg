SPECIFICATION Spec
CONSTANTS
    n0 = n0
    n1 = n1
    n2 = n2
    n3 = n3
    NoMsg = NoMsg
    Leader = n0
    Replicas <- MCTwo
    Live <- MCTwo
    Stoppable <- MCStopFollower
    catchUpThreshold = 1
    blocksFetchLimit = 1
    MaxSeq = 2
    MaxFailures = 2
CHECK_DEADLOCK FALSE
INVARIANTS
    TypeOK
    Agreement
    VotesAgree
