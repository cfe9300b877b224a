SPECIFICATION FairSpec
CONSTANTS
  s0 = s0
  s1 = s1
  i1 = i1
  i2 = i2
  i3 = i3
  i4 = i4
  NoShard = NoShard
  Shards <- MCShards
  Intents <- MCIntents
  Hashes <- MCHashes
  Receipts <- MCReceipts
  Checkpoint <- MCCheckpoint
  BatchSize = 2
INVARIANTS
  TypeOK
  Restorable
  IntentInOneWindow
  CutsContiguous
  CutsCovered
PROPERTIES
  PendingIsSealed
