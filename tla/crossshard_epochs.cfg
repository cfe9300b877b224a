CONSTANTS
    alice = alice
    bob = bob
    carol = carol
    broker = broker
    t1 = t1
    t2 = t2
    t3 = t3
    NoBroker = NoBroker
    Accounts = {alice, bob, carol}
    Brokers = {broker}
    Shards <- MCShards
    Payments = {t1, t2, t3}
    Sender <- MCSender
    Recipient <- MCRecipient
    Value <- MCValue
    InitBalance = 8
    BrokerInit = 3
    Word = 16
    ConsensusTypes <- MCTypes
    TxSource <- MCTwoSource
    DefaultAccountLoc <- MCDefaultLoc
    BlockSizeLimit = 2
    TxInjectionSpeed <- MCSpeed
    MaxEpochs = 2
    MaxMoves = 1
SPECIFICATION Spec
INVARIANTS
    MigratedWhenAllSent
    BalanceTracks
CHECK_DEADLOCK FALSE
