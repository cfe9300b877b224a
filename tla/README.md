# NetPay in TLA+

Models, model-checking runs and machine-checked proofs for NetPay: the
BlockEmulator-X sharded blockchain with batch netting of cross-shard payments.
Source paths below are relative to `src/`.

## 1. The system

A network of PBFT shards executes transactions; a Supervisor injects the workload.
A payment from one shard to another is an *intent*:

1. the source shard **reserves** the amount in its escrow account;
2. its leader sends a **receipt** of each committed block to the off-chain Solver;
3. the Solver's **window manager** groups contiguous blocks of all shards into a
   window, the **matcher** nets opposite intents, and the result is a **batch** that
   names its predecessor by hash;
4. the **Beacon** shard checks and commits the batch as a MatchRoot block and tells
   the Solver and all shard nodes;
5. the Solver sends a **settlement package** to every shard, which pays the matched
   part of its incoming intents from its own escrow;
6. the unmatched rest goes through an **outbox** to the destination shard, is sent
   again until that shard reports the credit, and is reported to the Supervisor.

Besides netting there are the emulator's own mechanisms: relay and broker transfers,
account migration steered by CLPA, the measurement of runs.

### Inventory

| Part | Source | State | Operations | Model |
|---|---|---|---|---|
| PBFT node | `consensus/pbft/node.go`, `pbftmeta.go`, `basicstructs/` | round, stage, proposal, vote sets, message pool, catch-up flags | three vote handlers, tick, propose, catch-up request and answer, stop | `Pbft` |
| Chain | `pkg/chain/` | block storage, account state, confirmed roots | validate, add, read blocks; execute intents, settlements, fallbacks, transfers, migrations | `Pbft`, `NettingLedger`, `TxExecution`, `CrossShard` |
| Window manager | `pkg/netting/window/` | streams, pending and assigned intents, frozen windows | `AddReceipt`, `TryClose`, `AcknowledgeFrozen`, `Snapshot`, `Restore` | `WindowManager` |
| Solver node | `pkg/netting/solver/`, `batchstore/` | manager state, chain tip, pending batches, `dispatched`; bbolt copy | `HandleReceipt`, `drainFrozen`, `dispatchPending`, `HandleFinalized`, restart | `SolverBeacon` |
| Beacon shard | `pkg/netting/beacon/`, `consensus/pbft/insideop/beaconop/` | queue, MatchRoot chain | queue, validate, commit, announce; derive the batch again | `SolverBeacon`, `NettingPipeline` |
| Reservation registry | `pkg/netting/registry/` | status, nonce per account, escrow | `Reserve`, `Consume` | `NettingLedger` |
| Settlement inbox, executor | `pkg/netting/settlement/` | confirmed roots, pending packages, executed batches | `Confirm`, `AddPackage`, `Execute` | `NettingLedger`, `BatchBuilder` |
| Fallback outbox, publisher | `pkg/netting/fallback/` | outbox entries, credited IDs, send times | `Create`, `ExecuteCredit`, publish, `Complete` | `NettingLedger` |
| Shard block operation | `consensus/pbft/insideop/`, `txblockop/relaytxblockop.go` | transaction pool | pack, build, validate, commit, publish | `NettingLedger` |
| Matcher | `pkg/netting/matcher/` | none | exact, best-fit and split matching | `Matcher` |
| Batch builder, commitments | `pkg/netting/batch/`, `commitment/`, `merkle/` | none | build a batch, cut it into packages, verify a package | `BatchBuilder`, `Merkle` |
| Relay and broker transfers | `txblockop/`, `pkg/chain/txexecute.go`, `pkg/broker/` | two-step transfers, the broker manager's map and ready lists | stage, execute, send on; create and confirm broker transactions | `TxExecution`, `BrokerManager`, `CrossShard` |
| Account migration | `consensus/pbft/migration/`, `dynamicshardop.go`, `migrationblockop/`, `outsideop/clpaloc.go` | epoch, account locations, collected states, early messages | repartition start, send and collect accounts, migrate pool, migration block | `AccountMigration`, `CrossShard` |
| Supervisor's committees | `supervisor/committee/` | unread payments, broker balances and reservations, partition map, epochs | inject, choose brokers, handle block infos, repartition | `CrossShard` (netting workload: `NettingLedger`) |
| CLPA | `pkg/partition/` | graph of payments | partition | any move of known accounts in `CrossShard` |
| Network, storage, VM, set-up, measurement | `pkg/network`, `pkg/storage`, `pkg/vm`, ... | | | environment of the models |

`PROJECT.json` lists every part with its sources and status.

### Where it is hard

* Nothing of the protocol between shards, Solver and Beacon is acknowledged, except
  fallbacks. Roots, packages, receipts and votes meet in any order.
* A follower validates a proposal against what *it* has received.
* The Solver may die between any two of: store a batch, send it, send its packages,
  store that it is done.
* One escrow pays for the settlements of all batches, and what it pays out belongs
  to intents reserved by others.
* A message may cause several changes of a loop, of which one fails.
* Solver, Beacon and shards derive the same batch from differently ordered lists.
* Shards enter an epoch one by one: accounts and transactions are sorted by old and
  new locations at the same time, and a transaction may chase its account.
* The supervisor decides by balances and locations that lag behind the shards.

What should hold in spite of that: replicas of a shard agree; every intent is in
exactly one window, whose cuts tile the shard chains; a restart never builds a second
batch for a window nor forgets one; money is conserved, and each intent is paid once
and, if messages arrive, completely; the Supervisor does not end the run earlier; an
account has one owner, which has its balance; a payment is in one place until it is paid.

## 2. Modules

| Module | What | Proofs |
|---|---|---|
| `Pbft` | one shard of consensus nodes | `PbftRoundProofs`, `PbftProofs` |
| `WindowManager` | the Solver's vector-cut windows | `WindowManagerProofs` |
| `NettingLedger` | reservation, settlement and fallback across shards | `NettingLedgerProofs`, `NettingLedgerRefinement` |
| `SolverBeacon` | receipts, batches, Beacon chain and packages, with crashes | `SolverBeaconProofs` |
| `Merkle`, `Matcher`, `BatchBuilder` | the algorithms that make and verify a batch, as operators | |
| `NettingPipeline` | one batch through Solver, Beacon and shards | |
| `TxExecution`, `BrokerManager`, `AccountMigration` | transactions, the broker manager and the migration record, as operators | |
| `CrossShard` | payments without netting in all four consensus types, with repartitions | |
| `PaymentService` | what any way of paying promises; implemented by `NettingLedger` and `CrossShard` | |
| `MC*` | constants for TLC | |

Definitions named `Bug_...` are deliberately wrong variants of the definition below
them. No specification uses them; put in its place, each makes TLC report the property
it is listed with in `PROJECT.json`, which shows that the property can fail.

### How the modules fit together

`WindowManager` proves that an intent is in at most one window and that cuts are
contiguous. `NettingLedger` assumes the former (`BatchAssumption`: batches are
disjoint), `SolverBeacon` uses the latter in its headers. `SolverBeacon` shows that
packages are sent for committed batches only; in `NettingLedger` a package exists
exactly for a finalized batch. `Pbft` shows that a shard's replicas agree;
`NettingLedger` treats a shard as one ledger and keeps of the followers only what
makes them refuse a block, `SolverBeacon` treats the Beacon as one chain, and
`CrossShard` treats a shard as its leader. `NettingPipeline` composes the algorithms and
shows what the other netting modules assume of a batch: the Beacon derives the one the
Solver proposes, and each shard accepts its package. `PaymentService` is the common
abstraction: `taken` are the payments taken from their senders, `paid` what was paid
out of each. A step may take payments, and may pay out of taken ones up to the amount.
`NettingLedger` maps reserved intents to `taken` and its credits, the matched part and
the fallback, to `paid`; `CrossShard` maps the executed halves of a payment.

### `Pbft`

One step is one iteration of `Node.run` for one message: the handler, then
`advanceConsensus` with as many stages as the pool allows. The pool, the stage, the
vote sets, `latestSeq`, `catchupStarted` and the chain are variables with the source's
names. A block is its hash, parent and number. A write to the block storage may fail
(`CommitBlock`), after which the code still moves the round on. The view never changes
in the code, so `ViewSeq` is `Seq`. `votes` and `log` are history.

### `WindowManager`

`AddReceipt` runs the loop `advanceStream` one iteration per step with `advancing` as
its program counter, so that the refusal of a buffered block in the middle of the loop
is visible. Receipts arrive in any order, repeated, conflicting or malformed. Time is
`openedAt` in `nil`, `running`, `elapsed`. `ValidState` is the validation in `Restore`.

### `NettingLedger`

A ledger per shard (`balance`, `escrow`, `status`, `nextNonce`, `executed`, `outbox`,
`credited`) and the leader's pool, inbox and block. A block is built one transaction at
a time (`ExecuteTx`) on a copy of the state. An intent that cannot be reserved is
skipped; any other failing transaction drops the whole proposal. `CommitAndDeliver`
applies the state, sends pending fallbacks and completions and reports progress.
The followers accept a block if they have the roots it needs, else the shard stalls
(`RejectProposal`): the leader waits for votes that never come. `received` is history.
`RootFirst` says whether every node gets a MatchRoot before the packages of its batch.

### `SolverBeacon`

A BatchID is the hash of a header that contains the previous BatchID; so a batch *is*
the sequence of headers of the chain that ends in it. `solver` is the Solver's memory,
`stored` its bbolt snapshot. `Crash` may happen between any two handlers,
`CrashWhileSending` inside `HandleFinalized` after the packages of some shards.
Assumptions of this module:

* each block carries at least one intent, so a window is open as soon as a height has
  passed the last cut;
* receipts of a shard arrive in order (its leader sends them one after the other), so
  a gap left by a crash is never filled;
* `drainFrozen` empties the frozen windows in the step that seals them;
* messages between Solver and Beacon leader keep their order and are lost only in a
  crash of the Solver;
* the Beacon's inner agreement is `Pbft`'s; here it is a proposal, then a commit;
* the stop message and failing bbolt writes are left out, and so is the expiry epoch,
  which stays 0 without account migration.

### `Merkle`, `Matcher`, `BatchBuilder`, `NettingPipeline`

A digest is the term it digests, so that equal roots mean equal contents; a byte
encoding is the tuple of the fields it writes; a list that the code sorts by a unique
key is a set. The order of the *payments* is kept, because it is what could make Solver
and Beacon differ: the window manager lists them by ID, the Beacon by shard and receipt.
The work items of the matcher are indexes into that list, and the b-tree is the set of
counter items with something left, ordered by (remaining, ID). `BuildMeasured` returns
the proposal or the error. A duplicate cut and a duplicate intent count as an invalid
cut and an invalid intent. `NettingPipeline` takes one window through `drainFrozen`, the
last part of `Validator.Validate` and the checks of `Executor.Execute`.

### `TxExecution`, `BrokerManager`, `AccountMigration`, `CrossShard`

`spv` is the supervisor's committee (unread payments, `bManager`, `brokerBalances`,
`pendingDeductions`, the partition map and epochs), `shard[s]` a leader with its pool,
locations, balances, migration record and current proposal. `consensusType` selects
`static_relay`, `static_broker`, `clpa_relay` or `clpa_broker`, as the configuration
does. A transaction is an item [tx, stage, Broker]. A block is built in one step and
committed in a later one, messages being handled in between; blocks without
transactions are proposed only where the supervisor has yet to learn the epoch from one.
`CLPAPartition` moves any known accounts anywhere (at most `MaxMoves` at a time).
`buildPartitionProposal` is two actions, `SendAccounts` and `BuildMigrationProposal`:
in the call that sends the accounts the own ones are still missing, so that the second
half of that call always fails. What a leader sends itself is in its buffer when the send
returns, and `Node.run` handles the buffer before it proposes (`ReadyToPropose`); so a
shard sends its accounts once in an epoch. `debits` and `credits` are history; so is
`sentIn`, the last epoch in which the shard sent its accounts.
Assumptions of this module:

* messages are neither lost nor copied by the network, which has no retry for them, and
  arrive in any order; no node's message buffer (2^20 entries) is ever full;
* the payments of the source have different hashes (`SourceAssumption`), so that
  `CreateRawTx` refuses none of them;
* no payment has a broker as its sender or recipient;
* an account that does not exist yet has its initial balance, and an account that was
  paid out to zero is not taken for a new one;
* the stop rule does not end the run: it counts empty blocks over time.

## 3. Runs

| Run | Instance | States | Shows |
|---|---|---|---|
| `window` | 2 shards, 8 receipts, 4 intents, batch size 2 | 3 418 | `Restorable`, `IntentInOneWindow`, `CutsContiguous`, `CutsCovered`; every pending intent is sealed |
| `pbft` | 4 nodes, one down, 2 rounds | 6 096 | blocks have a quorum (`QuorumBacked`), rounds complete |
| `pbft_faults` | 2 nodes, 2 failing writes, one node stops | 88 620 | `Agreement` until a write fails, `VotesAgree` always |
| `pbft_catchup` | 2 nodes, 3 rounds | violated | see finding 1 |
| `ledger` | 2 shards, 3 intents, 2 batches, i3 sent twice | 185 592 | `AssetsConserved`, `EscrowCoversReservations`, `PaidOnce`, `CreditBacked`, `FinishedMeansPaid`; implements `PaymentService` (`PaysAsPromised`) |
| `ledger_live` | 2 shards, 1 batch, 2 lost messages | 4 200 | every finalized batch is paid in full, if roots come first |
| `ledger_reorder` | the same, any order, no loss | violated | see finding 2 |
| `solver` | 2 shards, 3 blocks each, 2 crashes | 140 639 | `OneChain`, `HeadAcceptable`, `FinalizedExpected`, `PendingOrSent`, `SentIsCommitted`; without a crash every batch is settled |
| `solver_restart` | 2 shards, 2 blocks each, 1 crash | violated | see finding 3 |
| `pipeline` | all windows of 4 payments of 1..3 between 2 shards and of 3 payments of 1..2 between 3, three modes | 169 920 | a batch is always built (`BatchBuilt`), the Beacon derives the same one (`BeaconAgrees`), shards accept it (`ShardsAccept`); it nets what the mode can (`NetsEverything`, `NoFitLeft`) in few allocations (`FewAllocations`) |
| `crossshard` | 2 shards, 3 accounts, 1 broker, 3 payments, 4 consensus types, 1 repartition | 83 950 | `OneHome`, `BrokerSolvent`, `OneCopy`; every payment is paid (`AllPaid`); implements `PaymentService` |
| `crossshard_epochs` | the same, 2 payments, 2 repartitions | 115 584 | nothing of an epoch counts in the next (`MigratedWhenAllSent`); balances follow the accounts, also away and back (`BalanceTracks`) |

### Bounds

* `Pbft`: 4 nodes give f = 1 with one node down, where every quorum needs all live
  nodes. Failing writes and catch-up need only a leader and a follower. `MaxSeq` 2
  lets the leader be a round ahead; 3 is needed to be more than the threshold ahead.
* `WindowManager`: the receipts contain a fork, a repeated intent, a malformed receipt
  and gaps in both shards; with batch size 2 windows close by size and by time.
* `NettingLedger`: i1 and i2 net with a rest of 1; i3 is a second intent of the same
  sender, in another batch, unmatched, and cannot be reserved before money comes in.
  Two transactions per block make good and bad ones meet. Two sends give duplicates.
* `SolverBeacon`: three blocks allow up to six windows; the second crash can hit the
  recovery from the first.

* `NettingPipeline`: two amounts on each side suffice for exact, best-fit and split
  matches, four payments for a split over two items and a tie between equal amounts;
  three shards give several groups and trees with odd levels. Each shard's receipts
  list its payments by rising or by falling ID, so that the Beacon's list differs from
  the Solver's.
* `CrossShard`: alice and carol pay bob across shards, alice pays carol inside one, so
  that a move makes an inner payment a cross-shard one and the reverse. The broker
  starts with 3 and the two payments of 2 cannot both be reserved at once, so one of
  them falls back to relay. `Word` is 16, small enough for an unchecked subtraction to
  wrap. Blocks hold two transactions. `TxInjectionSpeed` is 1 with static sharding,
  and 3 or 2 with CLPA, where payments overtake repartitions. Two repartitions are
  needed for an account to come back and for what one epoch leaves to reach the next;
  they are run with two payments.

Deadlock is checked in `window`. The other models stop when the bounded workload is
done, and shards, followers and a Beacon with a blocked queue really may stall.

### Fairness

* `Pbft`: messages between live nodes are delivered and each tick handles all of them;
  the leader tries to propose and followers look for catch-up in every tick.
* `WindowManager`: the handler loop ends, the clock goes on. `TryClose` is strongly
  fair: it is called in every tick without a refused receipt, and a leader publishes a
  receipt once.
* `NettingLedger`: leaders go on proposing. Delivery of a root, package or fallback is
  strongly fair because a block under construction delays handling. `Elapse` is the
  republish timer. Losing a message is never required and is bounded.
* `SolverBeacon`: the Solver's ticker and the Beacon leader's loop. Neither a new block
  nor a crash is owed.
* `CrossShard`: the supervisor's loop goes on while it has something to do, and so does
  every shard, handler and leader together. A repartition, which comes by the clock, is
  not owed. This fairness is weak: a message once sent stays deliverable.

## 4. Proofs

All for every value of the constants that meets the named assumptions, hence without
the bounds of the runs.

**`WindowManagerProofs`** — `TypeCorrect`, `SnapshotsRestorable`, `OneWindowPerIntent`,
`ContiguousCuts`, `CoveredCuts`. The invariant describes each stream (watermark, what is buffered and
unassigned, one hash per height), ties the pending intents to the unassigned blocks and
the sealed windows to `assigned`. It is stated for given streams and pending intents
because four operations end in `TryClose`, which is treated in one lemma.

**`PbftProofs`** — `TypeCorrect`, `ShardAgreement`, `CommittedByQuorum`,
`OneBlockPerRound`, `CatchUpNeverStarts`. The leader opens a round once, so `log`
records all proposals there are; votes are for logged proposals, so the votes of a
round agree. Until a write fails the chain of a node is a prefix of `log`, so chains
agree. The same argument shows that an accepted proposal is always of the node's own
round: no follower notices that it is behind, which is finding 1 for every shard size.
A quorum is not needed to intersect another: all safety comes from the single leader.
`PbftRoundProofs` has the invariant and its preservation by `advanceConsensus`;
`PbftProofs` has the handlers, which all end in it, and the theorems.

**`NettingLedgerProofs`** — `EveryPartPaidOnce`, `CreditsBacked`. The argument follows
a fallback from outbox to credit to completion. `Known` and `Credited` only grow;
every message, queued or packed transaction refers to one of them; the state of a
block under construction is as sound as the ledger it extends.

**`NettingLedgerRefinement`** — `BackedInvariance`, `NettingPaysAsPromised`: the ledger
implements `PaymentService` for all shards, intents, batches, blocks and message orders.
A step maps to a stutter unless it commits a block; for that step the proof needs that
what a ledger has received of an intent is backed: its batch is executed there or its
fallback credited, which takes a finalized root, a package and a reservation at the
source. `RInv` states this for roots, batches, ledgers and the block being built, next
to the invariant of `NettingLedgerProofs`, from which at-most-once follows.

**`SolverBeaconProofs`** — `TypeCorrect`, `SolverOneChain`, `PendingHeadAcceptable`,
`NoUnexpectedFinalized`, `NoBatchForgotten`, `PackagesCommitted`. Every batch is a
prefix of the Solver's chain and so is known by its length. With d batches done, the
pending ones are d+1, d+2, ...; nothing longer than d+1 has left the Solver; the Beacon
chain has length d or d+1; a finalized message exists only when it is d+1. The saved
state equals the one in memory between handlers, so a crash does not change d.

Only model-checked: liveness (outside the prover's reach); the sums in
`AssetsConserved` and `EscrowCoversReservations` and what follows from them, type
correctness of `NettingLedger` included (they need induction over sets);
`FinishedMeansPaid`; the matcher and the trees, which are recursive, and `CrossShard`,
whose execution folds over the transactions of a block.

## 5. Findings

1. **Catch-up does not start** (`pbft_catchup`, `consensus/pbft/node.go:296`).
   `handlePreprepare` validates the proposal against the local tip and returns before
   `updateLatestViewSeq`. A follower that missed a block refuses all later proposals
   and never learns of them. The comment at `consensus/pbft/pbftmeta.go:27` says that
   a node `catchUpThreshold` behind will use Catch-Up.
2. **A root that comes late stops a shard** (`ledger_reorder`,
   `pkg/chain/settlement.go:61`). A follower without the MatchRoot fails to execute the
   settlement block and drops it; the proposal is not repeated. The design document
   (`docs/superpowers/specs/2026-09-03-block-netting-design.md:756`, `:730`) allows
   messages to be delayed and reordered and demands that all intents complete.
3. **A restarted Solver repeats a batch** (`solver_restart`,
   `pkg/netting/solver/node.go:339`). `dispatched` is not stored, and the Beacon
   compares a proposal with its queue only. A repeated batch that was committed
   meanwhile stays at the head of the queue and fails validation for ever. The report
   (`docs/netting-implementation-report.md:55`) says that a pending batch is submitted
   once, to avoid sequence errors.

## 6. Not modelled

* **Packing by bytes** (`pkg/core/txpool/queue/queue.go:97`): the models pack by number.
* **The stop rule** of the committees: empty blocks counted over wall-clock time.
* **The scores of CLPA**: any move of known accounts is allowed instead, so that what
  holds does not depend on the heuristic.
* **Brokers as parties of a payment**, and accounts that are emptied and then taken for
  new ones by `setInitBalanceIfNotExist`.
* **Loss of messages** other than fallbacks: the code has no retry for them, so that a
  loss only stops what waits for it.
* **Followers in an epoch change**: they learn of it from the migration block only; that
  a shard's replicas agree on blocks is `Pbft`'s result.
* **Blocks lost by a payment that is not covered**: `GenerateBlock` fails and the packed
  transactions are gone. The model has this path (`None` in `GenerateBlock`); balances
  in the instance cover all payments.
* Contract transactions, storage engines, virtual machine, transport, configuration,
  encodings, measurement and its output.
