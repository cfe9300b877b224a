---------------------------- MODULE BatchBuilder -----------------------------
(* pkg/netting/batch and the two places that take a batch apart again: the  *)
(* Beacon's validator, which derives it from the receipts once more, and a  *)
(* shard's executor, which verifies its package and its instructions.       *)
(*                                                                          *)
(* A byte encoding is the value it encodes, for the fields it writes.  A    *)
(* list that the code sorts by a unique key is a set.                       *)
EXTENDS Matcher, Merkle

ErrEmptyWindow == [error |-> "ErrEmptyWindow"]
ErrInvalidShardCut == [error |-> "ErrInvalidShardCut"]
ErrInvalidIntent == [error |-> "ErrInvalidIntent"]
ErrMatchingInvariant == [error |-> "ErrMatchingInvariant"]
ErrMissingShardCut == [error |-> "ErrMissingShardCut"]
Failed(output) == "error" \in DOMAIN output

CutPayload(cut) == cut
ResultPayload(result) == <<result.Intent.ID, result.MatchedAmount, result.FallbackAmount>>

(* SettlementPayload writes the coordinates and the results, not the batch. *)
SettlementPayload(s) ==
    <<s.WindowID, s.ShardID, s.ChunkIndex, s.ChunkCount,
      {ResultPayload(r) : r \in s.Outgoing}, {ResultPayload(r) : r \in s.Incoming}>>

ShardCommitmentPayload(c) == <<c.ShardID, c.ShardRoot, c.ChunkCount>>

(* canonicalCuts refuses a cut that ends before it starts and a shard with  *)
(* two cuts.                                                                *)
CutsValid(cuts) ==
    /\ \A c \in cuts : c.ShardID >= 0 /\ c.EndHeight >= c.PreviousHeight
    /\ \A c, d \in cuts : c.ShardID = d.ShardID => c = d

ChunkTree(s) == Build("chunk", {[Key |-> s.ChunkIndex, Payload |-> SettlementPayload(s)]})

Commitment(s) ==
    [ShardID |-> s.ShardID, ShardRoot |-> ChunkTree(s).root, ChunkCount |-> s.ChunkCount]

ShardTree(settlements) ==
    Build("shard", {[Key |-> s.ShardID, Payload |-> ShardCommitmentPayload(Commitment(s))] :
                        s \in settlements})

(* Bug: a result is listed at its destination whatever was matched.         *)
Bug_IncomingUnmatched(results, shard) ==
    {r \in results : r.Intent.DestinationShard = shard}

IncomingAt(results, shard) ==
    {r \in results : r.Intent.DestinationShard = shard /\ r.MatchedAmount > 0}

(* buildSettlements: one settlement, of one chunk, for every shard cut.     *)
buildSettlements(windowID, shardIDs, results) ==
    {[WindowID |-> windowID, ShardID |-> shard, ChunkIndex |-> 0, ChunkCount |-> 1,
      Outgoing |-> {r \in results : r.Intent.SourceShard = shard},
      Incoming |-> IncomingAt(results, shard)] : shard \in shardIDs}

(* The digests of the commitment package.                                   *)
MatchRoot(cutRoot, intentResultRoot, shardSettlementRoot) ==
    <<"match", cutRoot, intentResultRoot, shardSettlementRoot>>
BatchID(previousBatchID, windowID, matchRoot) == <<"batch", previousBatchID, windowID, matchRoot>>

(***************************************************************************)
(* Builder.BuildMeasured, for a frozen window [WindowID, Cuts, Intents]: a  *)
(* proposal, or the error it returns.                                       *)
(***************************************************************************)
Proposal(frozen, previousBatchID, mode, results) ==
    LET shardIDs == {c.ShardID : c \in frozen.Cuts}
        settlements == buildSettlements(frozen.WindowID, shardIDs, results)
        cutRoot == Build("cut", {[Key |-> c.ShardID, Payload |-> CutPayload(c)] :
                                    c \in frozen.Cuts}).root
        resultRoot == Build("result", {[Key |-> r.Intent.ID, Payload |-> ResultPayload(r)] :
                                          r \in results}).root
        shardRoot == ShardTree(settlements).root
        matchRoot == MatchRoot(cutRoot, resultRoot, shardRoot)
        batchID == BatchID(previousBatchID, frozen.WindowID, matchRoot)
    IN  [Header |-> [BatchID |-> batchID, PreviousBatchID |-> previousBatchID,
                     WindowID |-> frozen.WindowID, MatcherMode |-> mode, CutRoot |-> cutRoot,
                     IntentResultRoot |-> resultRoot, ShardSettlementRoot |-> shardRoot,
                     MatchRoot |-> matchRoot, Cuts |-> frozen.Cuts],
         IntentResults |-> results,
         ShardSettlements |-> {[BatchID |-> batchID] @@ s : s \in settlements}]

BuildMeasured(frozen, previousBatchID, mode) ==
    LET work == MatchWithMode(frozen.Intents, mode)
        shardIDs == {c.ShardID : c \in frozen.Cuts}
    IN  CASE frozen.Intents = <<>> -> ErrEmptyWindow
          [] frozen.Intents # <<>> /\ ~CutsValid(frozen.Cuts) -> ErrInvalidShardCut
          [] OTHER ->
                IF ~Accepted(frozen.Intents) THEN ErrInvalidIntent
                ELSE IF work.failed THEN ErrMatchingInvariant
                ELSE IF \E i \in DOMAIN frozen.Intents :
                            ~({frozen.Intents[i].SourceShard,
                               frozen.Intents[i].DestinationShard} \subseteq shardIDs)
                THEN ErrMissingShardCut
                ELSE Proposal(frozen, previousBatchID, mode, buildResults(frozen.Intents, work))

(***************************************************************************)
(* BuildSettlementPackages and VerifySettlementPackage.                     *)
(***************************************************************************)
BuildSettlementPackages(p) ==
    LET shardTree == ShardTree(p.ShardSettlements)
    IN  {[Header |-> p.Header, Settlement |-> s,
          ChunkProof |-> Proof(ChunkTree(s), s.ChunkIndex),
          ShardCommitment |-> Commitment(s),
          ShardProof |-> Proof(shardTree, s.ShardID)] : s \in p.ShardSettlements}

VerifySettlementPackage(pack) ==
    /\ pack.Settlement.BatchID = pack.Header.BatchID
    /\ pack.Settlement.WindowID = pack.Header.WindowID
    /\ pack.Settlement.ShardID = pack.ShardCommitment.ShardID
    /\ pack.Settlement.ChunkCount = pack.ShardCommitment.ChunkCount
    /\ Verify("chunk", SettlementPayload(pack.Settlement), pack.ChunkProof,
              pack.ShardCommitment.ShardRoot)
    /\ Verify("shard", ShardCommitmentPayload(pack.ShardCommitment), pack.ShardProof,
              pack.Header.ShardSettlementRoot)
    /\ MatchRoot(pack.Header.CutRoot, pack.Header.IntentResultRoot,
                 pack.Header.ShardSettlementRoot) = pack.Header.MatchRoot
    /\ BatchID(pack.Header.PreviousBatchID, pack.Header.WindowID, pack.Header.MatchRoot)
          = pack.Header.BatchID

(***************************************************************************)
(* Executor: validateInstructions, with the reservations of the shard as a  *)
(* set of payments.                                                         *)
(***************************************************************************)
ResultValid(r) ==
    /\ r.MatchedAmount >= 0
    /\ r.FallbackAmount >= 0
    /\ r.MatchedAmount + r.FallbackAmount = r.Intent.Amount

MatchedSum(results) == MapThenSumSet(LAMBDA r : r.MatchedAmount, results)

validateInstructions(reservations, shard, s) ==
    LET To(peer) == {r \in s.Outgoing : r.Intent.DestinationShard = peer}
        From(peer) == {r \in s.Incoming : r.Intent.SourceShard = peer}
        peers == {r.Intent.DestinationShard : r \in s.Outgoing}
                    \cup {r.Intent.SourceShard : r \in s.Incoming}
    IN  /\ \A r \in s.Outgoing : /\ ResultValid(r)
                                 /\ r.Intent.SourceShard = shard
                                 /\ r.Intent \in reservations
        /\ \A r \in s.Incoming : /\ ResultValid(r)
                                 /\ r.Intent.DestinationShard = shard
                                 /\ r.MatchedAmount > 0
        /\ \A r, q \in s.Outgoing \cup s.Incoming : r.Intent.ID = q.Intent.ID => r = q
        /\ {r.Intent.ID : r \in s.Outgoing} \cap {r.Intent.ID : r \in s.Incoming} = {}
        /\ \A peer \in peers : MatchedSum(To(peer)) = MatchedSum(From(peer))
=============================================================================
