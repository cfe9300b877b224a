CONSTANTS
    alice = alice
    bob = bob
    carol = carol
    broker = broker
    t1 = t1
    t2 = t2
    t3 = t3
    NoBroker = NoBroker
    Accounts = {alice, bob, carol}
    Brokers = {broker}
    Shards <- MCShards
    Payments = {t1, t2, t3}
    Sender <- MCSender
    Recipient <- MCRecipient
    Value <- MCValue
    InitBalance = 8
    BrokerInit = 3
    Word = 16
    ConsensusTypes <- MCTypes
    TxSource <- MCTxSource
    DefaultAccountLoc <- MCDefaultLoc
    BlockSizeLimit = 2
    TxInjectionSpeed <- MCSpeed
    MaxEpochs = 1
    MaxMoves = 1
SPECIFICATION FairSpec
INVARIANTS
    TypeOK
    OneHome
    BrokerSolvent
    OneCopy
PROPERTIES
    AllPaid
    PaysAsPromised
CHECK_DEADLOCK FALSE
