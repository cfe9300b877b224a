CONSTANTS
  s0 = s0
  s1 = s1
  alice = alice
  bob = bob
  i1 = i1
  i2 = i2
  i3 = i3
  b1 = b1
  b2 = b2
  NoBlock = NoBlock
  Shards = {s0, s1}
  Accounts = {alice, bob}
  Intents = {i1, i2, i3}
  Batches = {b1, b2}
  Payment <- MCPayment
  Batch <- MCBatch
  Matched <- MCMatched
  InitBalance <- MCInitBalance
  BlockSizeLimit = 2
  RootFirst = FALSE
  MaxSends <- MCMaxSends
  MaxLosses = 0
SPECIFICATION Spec
INVARIANTS
  TypeOK
  AssetsConserved
  EscrowCoversReservations
  PaidOnce
  CreditBacked
  FinishedMeansPaid
PROPERTY
  PaysAsPromised
CHECK_DEADLOCK FALSE
