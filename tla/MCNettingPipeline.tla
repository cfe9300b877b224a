-------------------------- MODULE MCNettingPipeline --------------------------
EXTENDS NettingPipeline

MCShards == 0 .. 2

(* The receipts that hold the given payments: every shard accepted its own  *)
(* in the order of their IDs, or every shard in the opposite order.         *)
ReceiptsOf(payments) ==
    LET Of(s) == {p \in payments : p.SourceShard = s}
    IN  {[s \in MCShards |-> SetToSortSeq(Of(s), LAMBDA p, q : p.ID < q.ID)],
         [s \in MCShards |-> SetToSortSeq(Of(s), LAMBDA p, q : p.ID > q.ID)]}

Payments(n, shards, amounts) ==
    {{[ID |-> i, SourceShard |-> f[i][1], DestinationShard |-> f[i][2], Amount |-> f[i][3]] :
        i \in 1 .. n} :
     f \in [1 .. n -> {<<s, t, a>> \in shards \X shards \X amounts : s # t}]}

(* Four payments of 1 to 3 between two shards, and three payments of 1 or 2 *)
(* between three.                                                           *)
MCInputs ==
    UNION {ReceiptsOf(ps) : ps \in Payments(4, 0 .. 1, 1 .. 3) \cup Payments(3, 0 .. 2, 1 .. 2)}
=============================================================================
