----------------------------- MODULE MCCrossShard ----------------------------
EXTENDS CrossShard

CONSTANTS alice, bob, carol, broker, t1, t2, t3

MCShards == 0 .. 1
MCDefaultLoc == alice :> 0 @@ bob :> 1 @@ carol :> 0
MCTxSource == <<t1, t2, t3>>
MCTwoSource == <<t1, t3>>
MCSender == t1 :> alice @@ t2 :> carol @@ t3 :> alice
MCRecipient == t1 :> bob @@ t2 :> bob @@ t3 :> carol
MCValue == t1 :> 2 @@ t2 :> 2 @@ t3 :> 1
MCTypes == {"static_relay", "static_broker", "clpa_relay", "clpa_broker"}
MCSpeed == [static_relay |-> 1, static_broker |-> 1, clpa_relay |-> 3, clpa_broker |-> 2]
=============================================================================
