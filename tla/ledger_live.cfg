CONSTANTS
  s0 = s0
  s1 = s1
  alice = alice
  bob = bob
  i1 = i1
  i2 = i2
  i3 = i3
  b1 = b1
  b2 = b2
  NoBlock = NoBlock
  Shards = {s0, s1}
  Accounts = {alice, bob}
  Intents = {i1, i2}
  Batches = {b1}
  Payment <- MCPairPayment
  Batch <- MCPairBatch
  Matched <- MCPairMatched
  InitBalance <- MCInitBalance
  BlockSizeLimit = 2
  RootFirst = TRUE
  MaxSends <- MCPairMaxSends
  MaxLosses = 2
SPECIFICATION FairSpec
PROPERTIES
  BatchSettles
CHECK_DEADLOCK FALSE
