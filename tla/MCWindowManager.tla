------------------------- MODULE MCWindowManager -------------------------
(***************************************************************************)
(* Two shards that start at different checkpoints.  Shard s0 has a chain   *)
(* of three blocks and a fork at height 2; shard s1 has two blocks, and a  *)
(* third that repeats an intent of its first.  One receipt is malformed.   *)
(***************************************************************************)
EXTENDS WindowManager

CONSTANTS s0, s1, i1, i2, i3, i4

MCShards == {s0, s1}
MCIntents == {i1, i2, i3, i4}
MCHashes == {"a0", "a1", "a2", "a3", "x2", "b4", "b5", "b6", "b7"}

R(s, h, hash, parent, ids) ==
  [ShardID |-> s, Height |-> h, BlockHash |-> hash, ParentHash |-> parent,
   Intents |-> ids, malformed |-> FALSE]

MCReceipts ==
  { R(s0, 1, "a1", "a0", {i1}),
    R(s0, 2, "a2", "a1", {}),
    R(s0, 2, "x2", "b4", {i4}),
    R(s0, 3, "a3", "a2", {i2, i4}),
    R(s1, 5, "b5", "b4", {i3}),
    [R(s1, 6, "x2", "b5", {i1}) EXCEPT !.malformed = TRUE],
    R(s1, 6, "b6", "b5", {}),
    R(s1, 7, "b7", "b6", {i3}) }

MCCheckpoint ==
  [s \in MCShards |-> IF s = s0 THEN [Height |-> 0, BlockHash |-> "a0"]
                                ELSE [Height |-> 4, BlockHash |-> "b4"]]
=============================================================================
