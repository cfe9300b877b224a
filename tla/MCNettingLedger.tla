--------------------------- MODULE MCNettingLedger ---------------------------
EXTENDS NettingLedger, TLC

CONSTANTS s0, s1, alice, bob, i1, i2, i3, b1, b2

Pay(from, to, src, dst, amount, nonce) ==
    [Sender |-> from, Recipient |-> to, SourceShard |-> src,
     DestinationShard |-> dst, Amount |-> amount, Nonce |-> nonce]

\* i1 and i2 net against each other and leave a rest of 1; i3, the second
\* intent of alice, is unmatched and exceeds what i1 leaves them.
MCPayment == i1 :> Pay(alice, bob, s0, s1, 3, 0)
          @@ i2 :> Pay(bob, alice, s1, s0, 2, 0)
          @@ i3 :> Pay(alice, bob, s0, s1, 2, 1)
MCBatch == b1 :> {i1, i2} @@ b2 :> {i3}
MCMatched == i1 :> 2 @@ i2 :> 2 @@ i3 :> 0
MCInitBalance == alice :> 4 @@ bob :> 3
MCMaxSends == i1 :> 1 @@ i2 :> 1 @@ i3 :> 2

\* The first batch alone.
MCPairPayment == i1 :> Pay(alice, bob, s0, s1, 3, 0)
              @@ i2 :> Pay(bob, alice, s1, s0, 2, 0)
MCPairBatch == b1 :> {i1, i2}
MCPairMatched == i1 :> 2 @@ i2 :> 2
MCPairMaxSends == i1 :> 3 @@ i2 :> 3
=============================================================================
