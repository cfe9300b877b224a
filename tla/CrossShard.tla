----------------------------- MODULE CrossShard ------------------------------
(* Payments between shards without netting, in the four consensus types:    *)
(* the supervisor's committees (supervisor/committee), the shard leaders    *)
(* with their pools, chains and migration metadata (consensus/pbft/insideop,*)
(* outsideop, migration; pkg/chain) and the messages between them.          *)
(*                                                                          *)
(* A shard is its leader: the replicas of a shard agree on its blocks       *)
(* (module Pbft).  A block that is proposed is committed before the leader  *)
(* proposes the next one, and messages are handled in between.  Messages    *)
(* are neither lost nor copied, and arrive in any order; what a node sends  *)
(* itself is in its buffer at once and handled before it proposes again.    *)
EXTENDS BrokerManager, AccountMigration

CONSTANTS
    ConsensusTypes,     \* the consensus types considered
    TxSource,           \* the payments, in the order they are read
    DefaultAccountLoc,  \* the shard of an account that was never moved
    BlockSizeLimit,     \* transactions in a block
    TxInjectionSpeed,   \* payments read at a time, for each of the types
    MaxEpochs,          \* bound: repartitions
    MaxMoves            \* bound: accounts moved by a repartition

(* The payments of the source have different hashes, so that CreateRawTx    *)
(* meets none of them twice.                                                *)
ASSUME SourceAssumption == \A i, j \in DOMAIN TxSource : TxSource[i] = TxSource[j] => i = j

VARIABLES
    consensusType,      \* fixed by the configuration
    spv,                \* the supervisor's committee
    shard,              \* the state of every shard
    net,                \* the messages on their way
    debits, credits     \* how often each payment was debited and credited

vars == <<consensusType, spv, shard, net, debits, credits>>

Dynamic == consensusType \in {"clpa_relay", "clpa_broker"}
BrokerMode == consensusType \in {"static_broker", "clpa_broker"}
None == [type |-> "none"]

Init ==
    /\ consensusType \in ConsensusTypes
    /\ spv = [read |-> 0, bManager |-> NewManager,
              brokerBalances |-> [b \in Brokers |-> [s \in Shards |-> BrokerInit]],
              pendingDeductions |-> [b \in Brokers |-> [s \in Shards |-> 0]],
              vertices |-> {}, partitionMap |-> DefaultAccountLoc,
              supervisorEpoch |-> 0, shardEpoch |-> [s \in Shards |-> 0], epochSynced |-> TRUE]
    /\ shard = [s \in Shards |->
                  [pool |-> <<>>, loc |-> DefaultAccountLoc, epochID |-> 0,
                   bal |-> [a \in Accounts \cup Brokers |->
                              IF a \in Brokers THEN BrokerInit ELSE InitBalance],
                   amm |-> NewAccMigrateMetadata, proposal |-> None, sentIn |-> 0]]
    /\ net = {}
    /\ debits = [t \in Payments |-> 0]
    /\ credits = [t \in Payments |-> 0]

-----------------------------------------------------------------------------
(***************************************************************************)
(* The supervisor.                                                          *)
(***************************************************************************)

(* Bug: the first shard to enter the epoch marks it as synced.              *)
Bug_SyncedByOne == spv.epochSynced \/ \E s \in Shards : spv.shardEpoch[s] = spv.supervisorEpoch

(* CheckEpochSyncAndMark.                                                   *)
Synced == spv.epochSynced \/ \A s \in Shards : spv.shardEpoch[s] = spv.supervisorEpoch

(* The next payments of the source, and which of them classifyTxs calls     *)
(* cross-shard.                                                             *)
ReadTxs ==
    LET unread == SubSeq(TxSource, spv.read + 1, Len(TxSource))
    IN  Taken(unread, PackTxs(unread, TxInjectionSpeed[consensusType]))

IsCross(t) == /\ spv.partitionMap[Sender[t]] # spv.partitionMap[Recipient[t]]
              /\ Sender[t] \notin Brokers
              /\ Recipient[t] \notin Brokers

(* What the brokers chosen for the payments before the i-th have reserved.  *)
ReservedBefore(txs, chosen, b, s, i) ==
    SumFunctionOnSet([j \in DOMAIN txs |-> Value[txs[j]]],
        {j \in 1 .. i - 1 : chosen[j] = b /\ spv.partitionMap[Recipient[txs[j]]] = s})

(* Bug: what is reserved for payments under way is not counted.             *)
Bug_ForgetPending(txs, chosen, b, i) ==
    spv.brokerBalances[b][spv.partitionMap[Recipient[txs[i]]]] >= Value[txs[i]]

Available(txs, chosen, b, i) ==
    LET s == spv.partitionMap[Recipient[txs[i]]]
    IN  spv.brokerBalances[b][s] - spv.pendingDeductions[b][s]
            - ReservedBefore(txs, chosen, b, s, i) >= Value[txs[i]]

(* The brokers readTxsAndSend can choose: with static sharding one that has *)
(* the amount available in the recipient's shard, or none if no broker has; *)
(* with CLPA any broker.                                                    *)
BrokerChoice(txs, chosen) ==
    \A i \in DOMAIN txs :
        IF ~IsCross(txs[i]) THEN chosen[i] = NoBroker
        ELSE IF consensusType = "clpa_broker" THEN chosen[i] \in Brokers
        ELSE IF chosen[i] = NoBroker THEN \A b \in Brokers : ~Available(txs, chosen, b, i)
        ELSE Available(txs, chosen, chosen[i], i)

(* Where the supervisor sends an item (getTxLoc, getTxLocByCLPAState).      *)
SupervisorLoc(item) == spv.partitionMap[KeyAccount(item)]

(* readTxsAndSend of the relay committees, and of the broker committees:    *)
(* payments for which no broker is found become relay1 transactions.        *)
ReadTxsAndSend ==
    /\ Synced
    /\ ReadTxs # <<>> \/ spv.bManager.ready1 # <<>> \/ spv.bManager.ready2 # <<>>
    /\ \E chosen \in [DOMAIN ReadTxs -> Brokers \cup {NoBroker}] :
        /\ IF BrokerMode THEN BrokerChoice(ReadTxs, chosen)
                         ELSE \A i \in DOMAIN chosen : chosen[i] = NoBroker
        /\ LET index == [i \in DOMAIN ReadTxs |-> i]
               Fallback(i) == BrokerMode /\ chosen[i] = NoBroker /\ IsCross(ReadTxs[i])
               inner == SelectSeq(index, LAMBDA i : chosen[i] = NoBroker /\ ~Fallback(i))
               fallback == SelectSeq(index, Fallback)
               brokered == SelectSeq(index, LAMBDA i : chosen[i] # NoBroker)
               manager == CreateRawTxs(spv.bManager, ReadTxs, chosen, brokered)
               sent == [i \in DOMAIN inner |-> Raw(ReadTxs[inner[i]])]
                         \o [i \in DOMAIN fallback |->
                                [Raw(ReadTxs[fallback[i]]) EXCEPT !.stage = "relay1"]]
                         \o CreateBrokerTxs(manager)
           IN  /\ spv' = [spv EXCEPT !.epochSynced = TRUE,
                          !.read = @ + Len(ReadTxs),
                          !.bManager = ClearReady(manager),
                          !.pendingDeductions =
                            IF consensusType # "static_broker" THEN @
                            ELSE [b \in Brokers |-> [s \in Shards |->
                                    @[b][s] + ReservedBefore(ReadTxs, chosen, b, s,
                                                             Len(ReadTxs) + 1)]]]
               /\ net' = net \cup SendWrappedTxs2Shards(Supervisor, sent,
                                   [item \in ToSet(sent) |-> SupervisorLoc(item)])
    /\ UNCHANGED <<consensusType, shard, debits, credits>>

(* The CLPARepartitionStartMsg for every shard.                             *)
StartMessages(epoch, modifiedMap) ==
    {[type |-> "RepartitionStart", dest |-> s, Epoch |-> epoch, ModifiedMap |-> modifiedMap] :
        s \in Shards}

(* repartition.  CLPAPartition moves vertices of the graph of payments, for *)
(* this model any of them anywhere.                                         *)
Repartition ==
    /\ Dynamic
    /\ Synced
    /\ spv.supervisorEpoch < MaxEpochs
    /\ \E moved \in SUBSET spv.vertices :
        /\ Cardinality(moved) <= MaxMoves
        /\ \E modifiedMap \in [moved -> Shards] :
            /\ \A a \in moved : modifiedMap[a] # spv.partitionMap[a]
            /\ spv' = [spv EXCEPT !.supervisorEpoch = @ + 1, !.epochSynced = FALSE,
                                  !.partitionMap = modifiedMap @@ @]
            /\ net' = net \cup StartMessages(spv.supervisorEpoch + 1, modifiedMap)
    /\ UNCHANGED <<consensusType, shard, debits, credits>>

(* HandleMsg of a block info: the shard's epoch, the graph of payments that *)
(* were completed, and the confirmations of the broker manager with, for    *)
(* static sharding, the broker's balances.                                  *)
ConfirmInfo(c, info) ==
    FoldLeft(LAMBDA acc, item :
                IF ~Confirms(acc.bManager, item) THEN acc
                ELSE [bManager |-> ConfirmBrokerTx(acc.bManager, item),
                      brokerBalances |->
                        [acc.brokerBalances EXCEPT ![item.Broker][info.ShardID] =
                            IF item.stage = "sigma1" THEN @ + Value[item.tx]
                                                     ELSE @ - Value[item.tx]],
                      pendingDeductions |->
                        [acc.pendingDeductions EXCEPT ![item.Broker][info.ShardID] =
                            IF item.stage = "sigma1" THEN @
                            ELSE IF @ < Value[item.tx] THEN 0 ELSE @ - Value[item.tx]]],
             [bManager |-> c.bManager, brokerBalances |-> c.brokerBalances,
              pendingDeductions |-> c.pendingDeductions],
             OfStage(info.items, {"sigma1"}) \o OfStage(info.items, {"sigma2"}))

(* The vertices AddEdge adds to the graph for the payments completed.       *)
AddedVertices(info) ==
    LET done == ToSet(OfStage(info.items, {"raw", "relay2", "sigma2"}))
    IN  {Sender[item.tx] : item \in done} \cup {Recipient[item.tx] : item \in done}

HandleBlockInfo(info) ==
    /\ info \in net
    /\ info.type = "BlockInfo"
    /\ LET confirmed == ConfirmInfo(spv, info)
       IN  spv' = [spv EXCEPT
                    !.shardEpoch[info.ShardID] = IF @ < info.Epoch THEN info.Epoch ELSE @,
                    !.vertices = IF Dynamic THEN @ \cup AddedVertices(info) ELSE @,
                    !.bManager = IF BrokerMode THEN confirmed.bManager ELSE @,
                    !.brokerBalances = IF consensusType = "static_broker"
                                       THEN confirmed.brokerBalances ELSE @,
                    !.pendingDeductions = IF consensusType = "static_broker"
                                          THEN confirmed.pendingDeductions ELSE @]
    /\ net' = net \ {info}
    /\ UNCHANGED <<consensusType, shard, debits, credits>>

(* handleTxSendAgainMsg: inner-shard payments that a migration made cross-  *)
(* shard ones are run by brokers.                                           *)
HandleTxSendAgain(msg) ==
    /\ msg \in net
    /\ msg.type = "TxSendAgain"
    /\ \E chosen \in [DOMAIN msg.items -> Brokers] :
        LET index == [i \in DOMAIN msg.items |-> i]
            txs == [i \in DOMAIN msg.items |-> msg.items[i].tx]
        IN  spv' = [spv EXCEPT !.bManager = CreateRawTxs(@, txs, chosen, index)]
    /\ net' = net \ {msg}
    /\ UNCHANGED <<consensusType, shard, debits, credits>>

-----------------------------------------------------------------------------
(***************************************************************************)
(* The shards: messages from outside (outsideop).                           *)
(***************************************************************************)
ReceiveTxs(msg) ==
    /\ msg \in net
    /\ msg.type = "ReceiveTxs"
    /\ shard' = [shard EXCEPT ![msg.dest].pool = @ \o msg.items]
    /\ net' = net \ {msg}
    /\ UNCHANGED <<consensusType, spv, debits, credits>>

RepartitionStart(msg) ==
    /\ msg \in net
    /\ msg.type = "RepartitionStart"
    /\ shard' = [shard EXCEPT ![msg.dest].amm = UpdateByRepartitionStartMsg(@, msg)]
    /\ net' = net \ {msg}
    /\ UNCHANGED <<consensusType, spv, debits, credits>>

HandleAccountMigration(msg) ==
    /\ msg \in net
    /\ msg.type = "AccountMigration"
    /\ shard' = [shard EXCEPT ![msg.dest].amm = CollectStatesByMsg(@, msg)]
    /\ net' = net \ {msg}
    /\ UNCHANGED <<consensusType, spv, debits, credits>>

-----------------------------------------------------------------------------
(***************************************************************************)
(* The shards: proposals.                                                   *)
(***************************************************************************)
TxBlock(items) == [type |-> "tx", items |-> items]

(* Node.run: the leader proposes when it has no proposal under way and has  *)
(* handled what was in its buffer, the messages to itself among it          *)
(* (sendMessage puts them there before it returns).                         *)
ReadyToPropose(s) ==
    /\ shard[s].proposal = None
    /\ \A msg \in net : msg.dest = s /\ msg.type \in {"ReceiveTxs", "AccountMigration"}
                        => msg.SrcShard # s

(* GenerateBlock fails if a transfer is not covered: what was packed is     *)
(* lost then.                                                               *)
GenerateBlock(s, items) ==
    IF Execute(s, shard[s].loc, shard[s].bal, items).ok THEN TxBlock(items) ELSE None

BuildTxBlockProposal(s, items) ==
    GenerateBlock(s, IF BrokerMode THEN items ELSE modifyTxRelayOpt(s, shard[s].loc, items))

(* A block without transactions matters only where the supervisor has yet   *)
(* to learn the shard's epoch from it.                                      *)
WorthProposing(s) == shard[s].pool # <<>> \/ spv.shardEpoch[s] < shard[s].epochID

(* StaticShardOp.BuildProposal.                                             *)
BuildStatic(s) ==
    /\ ~Dynamic
    /\ ReadyToPropose(s)
    /\ WorthProposing(s)
    /\ LET n == PackTxs(shard[s].pool, BlockSizeLimit)
       IN  shard' = [shard EXCEPT ![s].pool = Remaining(@, n),
                                  ![s].proposal = BuildTxBlockProposal(s, Taken(shard[s].pool, n))]
    /\ UNCHANGED <<consensusType, spv, net, debits, credits>>

(* Where a shard with locations loc sends an item (packValidTxs), and the   *)
(* same for all items of its pool.                                          *)
Destination(loc, item) ==
    IF BrokerMode THEN DestinationInBroker(loc, item) ELSE DestinationInRelay(loc, item)

PoolDestinations(s, loc) == [item \in ToSet(shard[s].pool) |-> Destination(loc, item)]

(* Items that leave shard s: a message to every shard, or to the supervisor.*)
Forwarded(s, items, dest) ==
    LET again == SelectSeq(items, LAMBDA item : dest[item] = Supervisor)
    IN  SendWrappedTxs2Shards(s, items, dest)
            \cup IF again = <<>> THEN {}
                 ELSE {[type |-> "TxSendAgain", dest |-> Supervisor, items |-> again]}

(* DynamicShardOp.buildBlockProposal.                                       *)
BuildDynamic(s) ==
    /\ Dynamic
    /\ ReadyToPropose(s)
    /\ ~shard[s].amm.MigrationReady
    /\ WorthProposing(s)
    /\ LET dest == PoolDestinations(s, shard[s].loc)
           Here(item) == dest[item] = s
           n == packValidTxs(shard[s].pool, BlockSizeLimit, dest, s)
           taken == Taken(shard[s].pool, n)
       IN  /\ shard' = [shard EXCEPT
                            ![s].pool = Remaining(@, n),
                            ![s].proposal = BuildTxBlockProposal(s, SelectSeq(taken, Here))]
           /\ net' = net \cup Forwarded(s, SelectSeq(taken, LAMBDA item : ~Here(item)), dest)
    /\ UNCHANGED <<consensusType, spv, debits, credits>>

(* buildPartitionProposal while the leader has not heard its own accounts:  *)
(* MigrateAccounts sends every shard, the own one included, the accounts    *)
(* that move there, and migrateTxs the transactions that go with them.      *)
MovedLocation(s) == shard[s].amm.CurModifiedMap @@ [a \in Accounts |-> s]

(* Bug: a shard sends states of accounts that are not its own.              *)
Bug_SendAllStates(s) ==
    LET am == shard[s].amm
        Out(d) == {a \in DOMAIN am.CurModifiedMap : am.CurModifiedMap[a] = d}
    IN  {[type |-> "AccountMigration", dest |-> d, SrcShard |-> s, Epoch |-> am.Epoch,
          AccountStates |-> [a \in Out(d) |-> shard[s].bal[a]]] : d \in Shards}

MigrateAccounts(s) ==
    LET am == shard[s].amm
        Out(d) == {a \in DOMAIN am.CurModifiedMap :
                    shard[s].loc[a] = s /\ am.CurModifiedMap[a] = d}
    IN  {[type |-> "AccountMigration", dest |-> d, SrcShard |-> s, Epoch |-> am.Epoch,
          AccountStates |-> [a \in Out(d) |-> shard[s].bal[a]]] : d \in Shards}

(* migrateTxs: in relay mode an item of an account that does not move stays,*)
(* in broker mode one whose accounts are taken to stay here if they do not  *)
(* move (getMigratedTxDestLocInBroker).                                     *)
StaysInRelay(s, item) == KeyAccount(item) \notin DOMAIN shard[s].amm.CurModifiedMap
StaysInBroker(s, item) == DestinationInBroker(MovedLocation(s), item) = s

SendAccounts(s) ==
    /\ ReadyToPropose(s)
    /\ shard[s].amm.MigrationReady
    /\ s \notin DOMAIN shard[s].amm.MigratedAccountStates
    /\ LET dest == PoolDestinations(s, MovedLocation(s))
           Stays(item) == IF BrokerMode THEN StaysInBroker(s, item) ELSE StaysInRelay(s, item)
       IN  /\ shard' = [shard EXCEPT ![s].pool = SelectSeq(@, Stays),
                                     ![s].sentIn = shard[s].amm.Epoch]
           /\ net' = net \cup MigrateAccounts(s)
                        \cup Forwarded(s, SelectSeq(shard[s].pool, LAMBDA item : ~Stays(item)),
                                        dest)
    /\ UNCHANGED <<consensusType, spv, debits, credits>>

(* buildPartitionProposal once all shards were heard.                       *)
BuildMigrationProposal(s) ==
    /\ ReadyToPropose(s)
    /\ shard[s].amm.MigrationReady
    /\ s \in DOMAIN shard[s].amm.MigratedAccountStates
    /\ AllCollected(shard[s].amm, Shards)
    /\ \E states \in GetMigratedAddrStates(shard[s].amm, InitBalance) :
        shard' = [shard EXCEPT ![s].proposal =
                    [type |-> "migration", states |-> states,
                     location |-> shard[s].amm.CurModifiedMap]]
    /\ UNCHANGED <<consensusType, spv, net, debits, credits>>

-----------------------------------------------------------------------------
(***************************************************************************)
(* The shards: commits.                                                     *)
(***************************************************************************)

(* deliverBlockInfo2Supervisor, and sendRelayedTxs for the first halves.    *)
BlockInfo(s, items) ==
    [type |-> "BlockInfo", dest |-> Supervisor, ShardID |-> s,
     Epoch |-> shard[s].epochID, items |-> items]

RelayMessages(s, items) ==
    LET relayed == Relayed(items)
    IN  SendWrappedTxs2Shards(s, relayed,
            [item \in ToSet(relayed) |-> shard[s].loc[Recipient[item.tx]]])

(* BlockCommitAndDeliver of the leader.                                     *)
CommitTxBlock(s) ==
    /\ shard[s].proposal.type = "tx"
    /\ LET items == shard[s].proposal.items
           x == Execute(s, shard[s].loc, shard[s].bal, items)
       IN  /\ shard' = [shard EXCEPT ![s].bal = x.bal, ![s].proposal = None]
           /\ debits' = [t \in Payments |-> debits[t] + x.debited[t]]
           /\ credits' = [t \in Payments |-> credits[t] + x.credited[t]]
           /\ net' = net \cup {BlockInfo(s, items)} \cup RelayMessages(s, items)
    /\ UNCHANGED <<consensusType, spv>>

(* setMigratedStates2VMTrie, for the accounts that move to shard s.         *)
setMigratedStates(s, b) ==
    [a \in {a \in DOMAIN b.location : b.location[a] = s} |-> b.states[a]] @@ shard[s].bal

(* MigrationBlockCommit: every shard learns the new locations, the          *)
(* destination takes the state over (calcStateModification).                *)
CommitMigration(s) ==
    /\ shard[s].proposal.type = "migration"
    /\ LET b == shard[s].proposal
       IN  shard' = [shard EXCEPT
            ![s].bal = setMigratedStates(s, b),
            ![s].loc = b.location @@ @,
            ![s].epochID = shard[s].amm.Epoch,
            ![s].amm = MigrationStatusReset(@),
            ![s].proposal = None]
    /\ UNCHANGED <<consensusType, spv, net, debits, credits>>

-----------------------------------------------------------------------------
(* The three loops of the system: the supervisor's, and for every shard its *)
(* message handler and its leader.                                          *)
SupervisorLoop ==
    \/ ReadTxsAndSend
    \/ \E msg \in net : HandleBlockInfo(msg) \/ HandleTxSendAgain(msg)

HandlerLoop(s) ==
    \E msg \in net :
        /\ msg.dest = s
        /\ \/ ReceiveTxs(msg)
           \/ RepartitionStart(msg)
           \/ HandleAccountMigration(msg)

LeaderLoop(s) ==
    \/ BuildStatic(s)
    \/ BuildDynamic(s)
    \/ SendAccounts(s)
    \/ BuildMigrationProposal(s)
    \/ CommitTxBlock(s)
    \/ CommitMigration(s)

Next ==
    \/ SupervisorLoop
    \/ Repartition
    \/ \E s \in Shards : HandlerLoop(s) \/ LeaderLoop(s)

Spec == Init /\ [][Next]_vars

(* The supervisor and every shard go on while they have something to do:    *)
(* leaders propose and commit, the supervisor polls, and messages arrive.   *)
(* A repartition, which the supervisor starts by its clock, need not come.  *)
Fairness ==
    /\ WF_vars(SupervisorLoop)
    /\ \A s \in Shards : WF_vars(HandlerLoop(s) \/ LeaderLoop(s))

FairSpec == Spec /\ Fairness

-----------------------------------------------------------------------------
Balances == 0 .. Word - 1
PartialMaps(S, T) == UNION {[D -> T] : D \in SUBSET S}

(* The types of the variables; no payment is counted more than twice.       *)
TypeOK ==
    /\ consensusType \in ConsensusTypes
    /\ spv.read \in 0 .. Len(TxSource)
    /\ spv.brokerBalances \in [Brokers -> [Shards -> Int]]
    /\ spv.pendingDeductions \in [Brokers -> [Shards -> Nat]]
    /\ spv.partitionMap \in [Accounts -> Shards]
    /\ spv.supervisorEpoch \in 0 .. MaxEpochs
    /\ \A s \in Shards :
        /\ shard[s].pool \in Seq(Items)
        /\ shard[s].loc \in [Accounts -> Shards]
        /\ shard[s].bal \in [Accounts \cup Brokers -> Balances]
        /\ shard[s].epochID \in 0 .. MaxEpochs
        /\ shard[s].amm.CurModifiedMap \in PartialMaps(Accounts, Shards)
        /\ DOMAIN shard[s].amm.MigratedAccountStates \subseteq Shards
        /\ shard[s].proposal.type \in {"none", "tx", "migration"}
    /\ debits \in [Payments -> 0 .. 2]
    /\ credits \in [Payments -> 0 .. 2]

(* The shard that may run payments of an account.                           *)
Owner(s, a) == shard[s].loc[a] = s /\ ~shard[s].amm.MigrationReady

Ledger(a) ==
    InitBalance
        - SumFunctionOnSet([t \in Payments |-> debits[t] * Value[t]],
                           {t \in Payments : Sender[t] = a})
        + SumFunctionOnSet([t \in Payments |-> credits[t] * Value[t]],
                           {t \in Payments : Recipient[t] = a})

(* The owner of an account has the balance that the payments executed so    *)
(* far leave, in whichever shards they ran: no migration loses a change or  *)
(* brings back an older state (relayTxExecute, brokerTxExecute,             *)
(* setMigratedStates2VMTrie).                                               *)
BalanceTracks ==
    \A s \in Shards, a \in Accounts : Owner(s, a) => shard[s].bal[a] = Ledger(a) % Word

(* An account has at most one owner while shards enter an epoch one by one, *)
(* and once the supervisor counts the epoch as synced all shards locate the *)
(* accounts where the supervisor does (CheckEpochSyncAndMark).              *)
OneHome ==
    /\ \A a \in Accounts : \A s, t \in Shards : Owner(s, a) /\ Owner(t, a) => s = t
    /\ Synced => \A s \in Shards : shard[s].loc = spv.partitionMap

(* A shard migrates accounts only after every shard has sent the accounts   *)
(* of this epoch (MigrationStatusReset, GetMigratedAddrStates).             *)
MigratedWhenAllSent ==
    \A s \in Shards : shard[s].proposal.type = "migration" =>
        \A r \in Shards : shard[r].sentIn >= shard[s].amm.Epoch

Outstanding(b, s) ==
    SumFunctionOnSet(Value,
        {t \in Payments : /\ spv.bManager.unconfirmedTxInfo[t].Broker = b
                          /\ DefaultAccountLoc[Recipient[t]] = s
                          /\ credits[t] = 0})

(* With static sharding a broker has, in every shard, what it still has to  *)
(* pay out there: the unchecked SubBalance of sigma2 never goes below zero  *)
(* (pendingDeductions in readTxsAndSend, brokerTxExecute).                  *)
BrokerSolvent ==
    consensusType = "static_broker" =>
        \A b \in Brokers, s \in Shards : Outstanding(b, s) <= shard[s].bal[b]

CountIn(items, t) == Len(SelectSeq(items, LAMBDA item : item.tx = t))
CountTx(txs, t) == Len(SelectSeq(txs, LAMBDA u : u = t))

Copies(t) ==
    CountTx(spv.bManager.ready1, t) + CountTx(spv.bManager.ready2, t)
        + SumFunction([s \in Shards |->
            CountIn(shard[s].pool, t)
                + IF shard[s].proposal.type = "tx" THEN CountIn(shard[s].proposal.items, t) ELSE 0])
        + SumFunction([msg \in net |->
            CASE msg.type \in {"ReceiveTxs", "TxSendAgain"} -> CountIn(msg.items, t)
              [] msg.type = "BlockInfo" -> CountIn(OfStage(msg.items, {"sigma1"}), t)
              [] OTHER -> 0])

(* A payment that was read is in exactly one place until it is credited, and*)
(* in none afterwards: in a pool, a proposal, a message or the broker       *)
(* manager (packValidTxs, migrateTxs, sendRelayedTxs, ConfirmBrokerTx).     *)
OneCopy ==
    \A i \in 1 .. spv.read : Copies(TxSource[i]) = IF credits[TxSource[i]] = 0 THEN 1 ELSE 0

(* Every payment is credited, through stages, brokers and repartitions.     *)
AllPaid == <>(\A t \in Payments : credits[t] = 1)

(* The executed halves of the payments implement PaymentService.            *)
Service == INSTANCE PaymentService WITH
    Orders <- Payments,
    Amount <- Value,
    taken <- {t \in Payments : debits[t] > 0},
    paid <- [t \in Payments |-> credits[t] * Value[t]]

(* No payment is credited before it is debited, or twice, whichever shards  *)
(* execute its halves (relayTxExecute, brokerTxExecute).                    *)
PaysAsPromised == Service!Spec
=============================================================================
