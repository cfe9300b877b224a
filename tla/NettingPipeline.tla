--------------------------- MODULE NettingPipeline ---------------------------
(* One batch from the shards' receipts to their settlements: the Solver     *)
(* builds the batch from its window, the Beacon derives it again from the   *)
(* receipts, and every shard checks the package cut out of it.  The three   *)
(* must come to the same result although they hold the payments in          *)
(* different orders: the window lists them by ID, the Beacon by shard and   *)
(* receipt.                                                                 *)
EXTENDS BatchBuilder

CONSTANTS
    Shards,     \* the shard IDs, 0 .. n - 1
    Inputs      \* the receipts considered: functions from Shards to lists of
                \* payments whose SourceShard is that shard

VARIABLES
    receipts,   \* the payments each shard accepted, in the order of its receipts
    mode,       \* Builder.MatcherMode
    proposal,   \* the Solver's proposal, once it is built
    settled,    \* the shards whose package was executed
    stage

vars == <<receipts, mode, proposal, settled, stage>>

PreviousBatchID == <<"genesis">>

Cuts == {[ShardID |-> s, PreviousHeight |-> 0, EndHeight |-> Len(receipts[s])] : s \in Shards}

(* FrozenWindow.Intents as the window manager lists them.                   *)
sortedPendingIntents ==
    SetToSortSeq(UNION {{receipts[s][i] : i \in DOMAIN receipts[s]} : s \in Shards},
                 LAMBDA p, q : p.ID < q.ID)

(* The intents as validateReceiptCoverage collects them.                    *)
coveredIntents ==
    FlattenSeq([s \in 1 .. Cardinality(Shards) |-> receipts[s - 1]])

Frozen(intents) == [WindowID |-> 1, Cuts |-> Cuts, Intents |-> intents]

Init ==
    /\ receipts \in Inputs
    /\ mode \in Modes
    /\ proposal = <<>>
    /\ settled = {}
    /\ stage = "window"

(* The Solver: Builder.BuildMeasured on the frozen window.                  *)
SolverBuilds ==
    /\ stage = "window"
    /\ sortedPendingIntents # <<>>
    /\ proposal' = BuildMeasured(Frozen(sortedPendingIntents), PreviousBatchID, mode)
    /\ stage' = IF Failed(proposal') THEN "failed" ELSE "proposed"
    /\ UNCHANGED <<receipts, mode, settled>>

(* The Beacon: the last part of Validator.Validate.                         *)
BeaconDerives ==
    /\ stage = "proposed"
    /\ LET expected == BuildMeasured(Frozen(coveredIntents), proposal.Header.PreviousBatchID,
                                     proposal.Header.MatcherMode)
       IN  stage' = IF expected = proposal THEN "confirmed" ELSE "refused"
    /\ UNCHANGED <<receipts, mode, proposal, settled>>

(* A shard: the checks of Executor.Execute on its package.                  *)
ShardSettles(s) ==
    /\ stage = "confirmed"
    /\ s \notin settled
    /\ LET pack == CHOOSE p \in BuildSettlementPackages(proposal) : p.Settlement.ShardID = s
           reservations == {receipts[s][i] : i \in DOMAIN receipts[s]}
       IN  IF /\ VerifySettlementPackage(pack)
              /\ validateInstructions(reservations, s, pack.Settlement)
           THEN settled' = settled \cup {s} /\ UNCHANGED stage
           ELSE stage' = "rejected" /\ UNCHANGED settled
    /\ UNCHANGED <<receipts, mode, proposal>>

Next == SolverBuilds \/ BeaconDerives \/ \E s \in Shards : ShardSettles(s)

Spec == Init /\ [][Next]_vars

-----------------------------------------------------------------------------
(* A window that closed can be built: the matcher never runs out of counter *)
(* items, and its amounts add up (ErrMatchingInvariant of matchRemaining    *)
(* and validateGroup is never returned).                                    *)
BatchBuilt == stage # "failed"

(* The Beacon never answers ErrDerivedBatchMismatch to an honest Solver: the*)
(* batch does not depend on the order in which the payments are listed.     *)
BeaconAgrees == stage # "refused"

(* Every shard accepts its package: both Merkle proofs lead to the header's *)
(* root, also where a level has an odd number of nodes, and the shard pays  *)
(* out to each peer what the peer pays out to it (Executor.Execute).        *)
ShardsAccept == stage # "rejected"

Direction(results, s, t) ==
    {r \in results : r.Intent.SourceShard = s /\ r.Intent.DestinationShard = t}
AmountSum(results) == MapThenSumSet(LAMBDA r : r.Intent.Amount, results)

(* Full mode nets as much as can be netted: between two shards the matched  *)
(* amount is the smaller of the two directions' totals (matchRemaining).    *)
NetsEverything ==
    stage = "proposed" /\ mode = FullMode =>
        \A s, t \in Shards :
            LET there == Direction(proposal.IntentResults, s, t)
                back == Direction(proposal.IntentResults, t, s)
            IN  MatchedSum(there) = Min({AmountSum(there), AmountSum(back)})

(* Outside exact-only mode the direction with less to net is netted as far  *)
(* as whole payments fit: one left unmatched is larger than what is left of *)
(* every opposite payment (lowerBound in matchRemaining).                   *)
NoFitLeft ==
    stage = "proposed" /\ mode # ExactOnlyMode =>
        \A s, t \in Shards : s < t =>
            LET there == Direction(proposal.IntentResults, s, t)
                back == Direction(proposal.IntentResults, t, s)
                active == IF AmountSum(there) <= AmountSum(back) THEN there ELSE back
            IN  \A p \in active, q \in (there \cup back) \ active :
                    p.MatchedAmount = 0 => q.FallbackAmount < p.Intent.Amount

(* A batch of n payments needs fewer than n allocations, none of them empty:*)
(* every allocation completes a payment, and not all of a group are         *)
(* completed one by one (matchExact and matchRemaining).                    *)
FewAllocations ==
    stage = "proposed" =>
        LET made == MatchWithMode(sortedPendingIntents, mode).allocations
        IN  /\ Len(made) < Len(sortedPendingIntents)
            /\ \A i \in DOMAIN made : made[i].Amount > 0
=============================================================================
