---------------------------- MODULE NettingLedger ----------------------------
(***************************************************************************)
(* The settlement ledger of the shards (pkg/netting/registry, settlement   *)
(* and fallback, executed by pkg/chain and driven by the relay block op).  *)
(* A payment intent is reserved in its source shard's escrow.  Once the    *)
(* Beacon has finalized the batch that nets it, every shard executes one   *)
(* settlement: the matched part of an incoming intent is paid from the     *)
(* local escrow, and the unmatched rest of an outgoing one leaves the      *)
(* escrow through an outbox, from which it is sent, and sent again, to the *)
(* destination shard until that shard reports the credit.                  *)
(*                                                                         *)
(* A shard is its leader together with the followers whose votes its       *)
(* blocks need: only what those followers must know to accept a block is   *)
(* kept of them (followerRoots).  The Solver and the Beacon are reduced to *)
(* the finalized batches.  Accounts exist from the start: the code creates *)
(* one with its initial balance when it is first touched.                  *)
(***************************************************************************)
EXTENDS Integers, Sequences, FiniteSets, FiniteSetsExt

CONSTANTS Shards, Accounts, Intents, Batches,
          Payment,         \* the PaymentIntent of each member of Intents
          Batch,           \* the intents a batch nets
          Matched,         \* the amount of each intent its batch matched
          InitBalance,     \* account -> initial balance
          BlockSizeLimit,  \* transactions packed into one block
          RootFirst,       \* every node has a MatchRoot before its packages
          NoBlock

CONSTANTS MaxSends,        \* bound: times each fallback is sent
          MaxLosses        \* bound: fallback messages the network loses

PaymentType == [Sender : Accounts, Recipient : Accounts, SourceShard : Shards,
                DestinationShard : Shards, Amount : Nat \ {0}, Nonce : Nat]

ASSUME PaymentAssumption ==
    /\ Payment \in [Intents -> PaymentType]
    /\ \A i \in Intents : Payment[i].SourceShard # Payment[i].DestinationShard

\* What the Solver's matcher and the one-window-per-intent rule guarantee.
ASSUME BatchAssumption ==
    /\ Batch \in [Batches -> SUBSET Intents]
    /\ \A b, c \in Batches : b # c => Batch[b] \cap Batch[c] = {}
    /\ Matched \in [Intents -> Nat]
    /\ \A i \in Intents : Matched[i] <= Payment[i].Amount

ASSUME LedgerAssumption ==
    /\ InitBalance \in [Accounts -> Nat]
    /\ BlockSizeLimit \in Nat \ {0}
    /\ RootFirst \in BOOLEAN
    /\ MaxSends \in [Intents -> Nat]
    /\ MaxLosses \in Nat

VARIABLES ledger,         \* shard -> its committed state
          txPool,         \* shard -> the leader's queue of transactions
          block,          \* shard -> the block being built or voted on
          stalled,        \* shards whose proposal the followers dropped
          finalized,      \* batches the Beacon has committed
          confirmedRoots, \* shard -> roots the leader has
          followerRoots,  \* shard -> roots the followers have
          pending,        \* shard -> Inbox.pending
          enqueued,       \* shard -> Inbox.enqueued
          net,            \* copies of each fallback message on their way
          sends,          \* times each fallback was sent
          due,            \* fallbacks whose republishInterval has passed
          losses,         \* fallback messages lost
          submitted,      \* intents the Supervisor has injected
          completed       \* nettingWorkload.completed

inbox == <<confirmedRoots, followerRoots, pending, enqueued>>
delivery == <<net, sends, due, losses>>
vars == <<ledger, txPool, block, stalled, finalized, inbox, delivery,
          submitted, completed>>

-----------------------------------------------------------------------------
Src(i) == Payment[i].SourceShard
Dst(i) == Payment[i].DestinationShard
Fallback(i) == Payment[i].Amount - Matched[i]

\* The two halves of the ShardSettlement of batch b for shard s.
Outgoing(s, b) == {i \in Batch[b] : Src(i) = s}
Incoming(s, b) == {i \in Batch[b] : Dst(i) = s /\ Matched[i] > 0}

IntentTx(i) == [type |-> "Intent", id |-> i]
SettlementTx(b) == [type |-> "Settlement", id |-> b]
FallbackTx(i) == [type |-> "Fallback", id |-> i]
CompletedTx(i) == [type |-> "Completed", id |-> i]

Message == {FallbackTx(i) : i \in Intents} \cup {CompletedTx(i) : i \in Intents}
Tx == Message \cup {IntentTx(i) : i \in Intents}
              \cup {SettlementTx(b) : b \in Batches}

LedgerType == [balance   : [Accounts -> Nat],
               escrow    : Nat,
               status    : [Intents -> {"Unknown", "Reserved", "Consumed"}],
               nextNonce : [Accounts -> Nat],
               executed  : SUBSET Batches,
               outbox    : [Intents -> {"Unknown", "Pending", "Completed"}],
               credited  : SUBSET Intents,
               received  : [Intents -> Nat]]  \* history: paid to recipients
BlockType == [todo : Seq(Tx), done : Seq(Tx), state : LedgerType]

Init ==
    /\ ledger = [s \in Shards |->
                   [balance   |-> InitBalance,
                    escrow    |-> 0,
                    status    |-> [i \in Intents |-> "Unknown"],
                    nextNonce |-> [a \in Accounts |-> 0],
                    executed  |-> {},
                    outbox    |-> [i \in Intents |-> "Unknown"],
                    credited  |-> {},
                    received  |-> [i \in Intents |-> 0]]]
    /\ txPool = [s \in Shards |-> <<>>]
    /\ block = [s \in Shards |-> NoBlock]
    /\ stalled = {}
    /\ finalized = {}
    /\ confirmedRoots = [s \in Shards |-> {}]
    /\ followerRoots = [s \in Shards |-> {}]
    /\ pending = [s \in Shards |-> {}]
    /\ enqueued = [s \in Shards |-> {}]
    /\ net = [m \in Message |-> 0]
    /\ sends = [i \in Intents |-> 0]
    /\ due = {}
    /\ losses = 0
    /\ submitted = {}
    /\ completed = {}

-----------------------------------------------------------------------------
(* Transactions on a shard's state *)

Total(S, Value(_)) == MapThenSumSet(Value, S)
MatchedTotal(S) == Total(S, LAMBDA i : Matched[i])
FallbackTotal(S) == Total(S, LAMBDA i : Fallback(i))
AmountTotal(S) == Total(S, LAMBDA i : Payment[i].Amount)

\* Mutant: the sender's balance is not checked.
Bug_ReserveUncovered(L, i) ==
    /\ L.status[i] = "Unknown"
    /\ L.nextNonce[Payment[i].Sender] = Payment[i].Nonce

\* registry.Reserve accepts the intent.
CanReserve(L, i) ==
    /\ L.status[i] = "Unknown"
    /\ L.nextNonce[Payment[i].Sender] = Payment[i].Nonce
    /\ L.balance[Payment[i].Sender] >= Payment[i].Amount

Reserve(L, i) ==
    [L EXCEPT !.balance[Payment[i].Sender] = @ - Payment[i].Amount,
              !.escrow = @ + Payment[i].Amount,
              !.status[i] = "Reserved",
              !.nextNonce[Payment[i].Sender] = @ + 1]

\* validateInstructions: every outgoing intent is still reserved, and the
\* matched amounts balance against each counterparty shard.
ValidInstructions(L, s, b) ==
    /\ \A i \in Outgoing(s, b) : L.status[i] = "Reserved"
    /\ \A t \in Shards :
         MatchedTotal({i \in Outgoing(s, b) : Dst(i) = t})
           = MatchedTotal({i \in Incoming(s, b) : Src(i) = t})

\* Mutants: the escrow is not debited for the fallbacks, or for the matched
\* amounts it pays out.
Bug_FallbackNotDebited(s, b) == MatchedTotal(Incoming(s, b))
Bug_MatchedNotDebited(s, b) == FallbackTotal(Outgoing(s, b))

\* What executing the settlement takes from the escrow.
Required(s, b) == MatchedTotal(Incoming(s, b)) + FallbackTotal(Outgoing(s, b))

CanSettle(L, s, b) ==
    b \in L.executed \/ (ValidInstructions(L, s, b) /\ L.escrow >= Required(s, b))

\* Outbox.Create, for the intents of a settlement with an unmatched rest.
Created(s, b) == {i \in Outgoing(s, b) : Fallback(i) > 0}

\* settlement.Executor.Execute
Settle(L, s, b) ==
    IF b \in L.executed
    THEN L
    ELSE [L EXCEPT
            !.escrow = @ - Required(s, b),
            !.status = [i \in Intents |->
                          IF i \in Outgoing(s, b) THEN "Consumed" ELSE @[i]],
            !.outbox = [i \in Intents |->
                          IF i \in Created(s, b) THEN "Pending" ELSE @[i]],
            !.balance = [a \in Accounts |-> @[a] + MatchedTotal(
                           {i \in Incoming(s, b) : Payment[i].Recipient = a})],
            !.received = [i \in Intents |->
                            IF i \in Incoming(s, b) THEN @[i] + Matched[i]
                                                    ELSE @[i]],
            !.executed = @ \cup {b}]

\* Mutant: a fallback packed twice is credited twice.
Bug_CreditAgain(L, i) ==
    [L EXCEPT !.balance[Payment[i].Recipient] = @ + Fallback(i),
              !.received[i] = @ + Fallback(i),
              !.credited = @ \cup {i}]

\* fallback.ExecuteCredit
ExecuteCredit(L, i) ==
    IF i \in L.credited
    THEN L
    ELSE [L EXCEPT !.balance[Payment[i].Recipient] = @ + Fallback(i),
                   !.received[i] = @ + Fallback(i),
                   !.credited = @ \cup {i}]

\* The leader or a follower that knows roots can execute tx.  The batch of a
\* fallback is the one whose settlement created it.
RootOf(tx) ==
    CASE tx.type = "Settlement" -> {tx.id}
      [] tx.type = "Fallback"   -> {b \in Batches : tx.id \in Batch[b]}
      [] OTHER                  -> {}

CanExecute(L, s, tx) ==
    /\ RootOf(tx) \subseteq confirmedRoots[s]
    /\ CASE tx.type = "Intent"     -> CanReserve(L, tx.id)
         [] tx.type = "Settlement" -> CanSettle(L, s, tx.id)
         [] tx.type = "Fallback"   -> TRUE
         [] tx.type = "Completed"  -> L.outbox[tx.id] # "Unknown"

txExecute(L, s, tx) ==
    CASE tx.type = "Intent"     -> Reserve(L, tx.id)
      [] tx.type = "Settlement" -> Settle(L, s, tx.id)
      [] tx.type = "Fallback"   -> ExecuteCredit(L, tx.id)
      [] tx.type = "Completed"  -> [L EXCEPT !.outbox[tx.id] = "Completed"]

-----------------------------------------------------------------------------
(* The leader's message handlers.  Building a block is one call of the code *)
(* on the goroutine that handles messages, taken here one transaction at a  *)
(* time, so no message is handled in between.                               *)

Building(s) == block[s] # NoBlock /\ block[s].todo # <<>>

AddTx(s, tx) == txPool' = [txPool EXCEPT ![s] = Append(@, tx)]

\* The Supervisor injects an intent.  The transactions of one sender travel in
\* messages of their own, so they can reach the pool in any order.
SubmitIntent(i) ==
    /\ i \notin submitted
    /\ ~Building(Src(i))
    /\ submitted' = submitted \cup {i}
    /\ AddTx(Src(i), IntentTx(i))
    /\ UNCHANGED <<ledger, block, stalled, finalized, inbox, delivery, completed>>

\* The Beacon commits a batch, from receipts of blocks the shards have
\* committed: its intents are reserved.
Finalize(b) ==
    /\ b \notin finalized
    /\ \A i \in Batch[b] : ledger[Src(i)].status[i] = "Reserved"
    /\ finalized' = finalized \cup {b}
    /\ UNCHANGED <<ledger, txPool, block, stalled, inbox, delivery, submitted,
                   completed>>

\* Inbox.Confirm: the root of b reaches the leader of s.
Confirm(s, b) ==
    /\ b \in finalized \ confirmedRoots[s]
    /\ ~Building(s)
    /\ confirmedRoots' = [confirmedRoots EXCEPT ![s] = @ \cup {b}]
    /\ IF b \in pending[s]
       THEN /\ AddTx(s, SettlementTx(b))
            /\ enqueued' = [enqueued EXCEPT ![s] = @ \cup {b}]
            /\ pending' = [pending EXCEPT ![s] = @ \ {b}]
       ELSE UNCHANGED <<txPool, enqueued, pending>>
    /\ UNCHANGED <<ledger, block, stalled, finalized, followerRoots, delivery,
                   submitted, completed>>

\* ConfirmMatchRoot at the followers of s.
FollowersConfirm(s, b) ==
    /\ b \in finalized \ followerRoots[s]
    /\ followerRoots' = [followerRoots EXCEPT ![s] = @ \cup {b}]
    /\ UNCHANGED <<ledger, txPool, block, stalled, finalized, confirmedRoots,
                   pending, enqueued, delivery, submitted, completed>>

\* The Solver sends the packages of a finalized batch once, to the leaders.
\* RootFirst: it does so after the root has reached every node.
AddPackage(s, b) ==
    /\ b \in finalized \ (pending[s] \cup enqueued[s])
    /\ RootFirst => \A t \in Shards : b \in confirmedRoots[t] \cap followerRoots[t]
    /\ ~Building(s)
    /\ IF b \in confirmedRoots[s]
       THEN /\ AddTx(s, SettlementTx(b))
            /\ enqueued' = [enqueued EXCEPT ![s] = @ \cup {b}]
            /\ UNCHANGED pending
       ELSE /\ pending' = [pending EXCEPT ![s] = @ \cup {b}]
            /\ UNCHANGED <<txPool, enqueued>>
    /\ UNCHANGED <<ledger, block, stalled, finalized, confirmedRoots,
                   followerRoots, delivery, submitted, completed>>

\* A fallback message reaches the leader it is addressed to.
Addressee(m) == IF m.type = "Fallback" THEN Dst(m.id) ELSE Src(m.id)

\* Mutant: the completion is sent when the fallback arrives.
Bug_AckOnArrival(m) ==
    /\ net[m] > 0
    /\ ~Building(Addressee(m))
    /\ net' = [net EXCEPT ![m] = @ - 1,
                          ![CompletedTx(m.id)] = IF m.type = "Fallback" THEN @ + 1
                                                                        ELSE @]
    /\ AddTx(Addressee(m), m)
    /\ UNCHANGED <<ledger, block, stalled, finalized, inbox, sends, due, losses,
                   submitted, completed>>

HandleFallback(m) ==
    /\ net[m] > 0
    /\ ~Building(Addressee(m))
    /\ net' = [net EXCEPT ![m] = @ - 1]
    /\ AddTx(Addressee(m), m)
    /\ UNCHANGED <<ledger, block, stalled, finalized, inbox, sends, due, losses,
                   submitted, completed>>

\* SendMsg2Dest only logs a failure.
Lose(m) ==
    /\ net[m] > 0
    /\ losses < MaxLosses
    /\ net' = [net EXCEPT ![m] = @ - 1]
    /\ losses' = losses + 1
    /\ UNCHANGED <<ledger, txPool, block, stalled, finalized, inbox, sends, due,
                   submitted, completed>>

\* republishInterval passes after fallback i was sent.
Elapse(i) ==
    /\ sends[i] \in 1 .. MaxSends[i] - 1
    /\ i \notin due
    /\ due' = due \cup {i}
    /\ UNCHANGED <<ledger, txPool, block, stalled, finalized, inbox, net, sends,
                   losses, submitted, completed>>

-----------------------------------------------------------------------------
(* Blocks *)

\* BuildProposal takes the transactions out of the pool.
BuildProposal(s) ==
    LET n == IF Len(txPool[s]) > BlockSizeLimit THEN BlockSizeLimit
                                                ELSE Len(txPool[s])
    IN  /\ block[s] = NoBlock
        /\ block' = [block EXCEPT ![s] = [todo  |-> SubSeq(txPool[s], 1, n),
                                          done  |-> <<>>,
                                          state |-> ledger[s]]]
        /\ txPool' = [txPool EXCEPT
                        ![s] = SubSeq(txPool[s], n + 1, Len(txPool[s]))]
        /\ UNCHANGED <<ledger, stalled, finalized, inbox, delivery, submitted,
                       completed>>

\* GenerateBlock executes the next transaction.  A failing intent is dropped;
\* any other failure fails the proposal, and what was packed is gone.
ExecuteTx(s) ==
    LET B == block[s]
        tx == Head(B.todo)
    IN  /\ Building(s)
        /\ block' = [block EXCEPT ![s] =
             IF CanExecute(B.state, s, tx)
             THEN [todo |-> Tail(B.todo), done |-> Append(B.done, tx),
                   state |-> txExecute(B.state, s, tx)]
             ELSE IF tx.type = "Intent"
             THEN [B EXCEPT !.todo = Tail(B.todo)]
             ELSE NoBlock]
        /\ UNCHANGED <<ledger, txPool, stalled, finalized, inbox, delivery,
                       submitted, completed>>

Copies(txs, tx) == Cardinality({k \in DOMAIN txs : txs[k] = tx})

\* publishCompletions answers every fallback transaction of the block, each
\* copy of it.
Completions(txs, i) == Copies(txs, FallbackTx(i))

\* Mutant: a settlement reports all its outgoing intents.
Bug_ReportAtSettlement(s, txs) ==
    {i \in Intents : \E b \in Batches : /\ Copies(txs, SettlementTx(b)) > 0
                                        /\ i \in Outgoing(s, b)}

\* publishProgress, and the final metrics of the block.
Progress(s, txs) ==
    {i \in Intents :
       \/ Copies(txs, FallbackTx(i)) > 0
       \/ \E b \in Batches : /\ Copies(txs, SettlementTx(b)) > 0
                             /\ i \in Outgoing(s, b)
                             /\ Fallback(i) = 0}

\* Mutant: a fallback is sent once.
Bug_SendOnce(s) == {i \in Intents : /\ block[s].state.outbox[i] = "Pending"
                                    /\ sends[i] = 0}

\* PublishAfterBlock sends the pending fallbacks never sent or due again.
ToSend(s) == {i \in Intents : /\ block[s].state.outbox[i] = "Pending"
                              /\ sends[i] = 0 \/ i \in due}

Accepted(s) ==
    /\ block[s] # NoBlock
    /\ block[s].todo = <<>>
    /\ \A k \in DOMAIN block[s].done :
         RootOf(block[s].done[k]) \subseteq followerRoots[s]

\* The followers accept the block; the leader commits it and publishes.
CommitAndDeliver(s) ==
    LET sent(m) == IF m.type = "Completed"
                   THEN Completions(block[s].done, m.id)
                   ELSE IF m.id \in ToSend(s) THEN 1 ELSE 0
    IN  /\ s \notin stalled
        /\ Accepted(s)
        /\ ledger' = [ledger EXCEPT ![s] = block[s].state]
        /\ block' = [block EXCEPT ![s] = NoBlock]
        /\ net' = [m \in Message |-> net[m] + sent(m)]
        /\ sends' = [i \in Intents |-> IF i \in ToSend(s) THEN sends[i] + 1
                                                          ELSE sends[i]]
        /\ due' = due \ ToSend(s)
        /\ completed' = completed \cup Progress(s, block[s].done)
        /\ UNCHANGED <<txPool, stalled, finalized, inbox, losses, submitted>>

\* A root the block needs is unknown to the followers: they drop the
\* proposal, and the leader waits for their votes from then on.
RejectProposal(s) ==
    /\ s \notin stalled
    /\ block[s] # NoBlock
    /\ block[s].todo = <<>>
    /\ ~Accepted(s)
    /\ stalled' = stalled \cup {s}
    /\ UNCHANGED <<ledger, txPool, block, finalized, inbox, delivery, submitted,
                   completed>>

Next ==
    \/ \E i \in Intents : SubmitIntent(i) \/ Elapse(i)
    \/ \E b \in Batches : Finalize(b)
    \/ \E s \in Shards, b \in Batches :
         Confirm(s, b) \/ FollowersConfirm(s, b) \/ AddPackage(s, b)
    \/ \E m \in Message : HandleFallback(m) \/ Lose(m)
    \/ \E s \in Shards : \/ BuildProposal(s)
                         \/ ExecuteTx(s)
                         \/ CommitAndDeliver(s)
                         \/ RejectProposal(s)

Spec == Init /\ [][Next]_vars

\* Leaders keep proposing and handling what arrives, roots and packages reach
\* their addressees, and the republish timer runs.  Nothing has to be lost.
FairSpec ==
    /\ Spec
    /\ \A i \in Intents : WF_vars(Elapse(i))
    /\ \A s \in Shards, b \in Batches : /\ SF_vars(Confirm(s, b))
                                        /\ WF_vars(FollowersConfirm(s, b))
                                        /\ SF_vars(AddPackage(s, b))
    /\ \A m \in Message : SF_vars(HandleFallback(m))
    /\ \A s \in Shards : WF_vars(\/ BuildProposal(s)
                                 \/ ExecuteTx(s)
                                 \/ CommitAndDeliver(s)
                                 \/ RejectProposal(s))

-----------------------------------------------------------------------------
TypeOK ==
    /\ ledger \in [Shards -> LedgerType]
    /\ txPool \in [Shards -> Seq(Tx)]
    /\ block \in [Shards -> BlockType \cup {NoBlock}]
    /\ stalled \subseteq Shards
    /\ finalized \subseteq Batches
    /\ \A R \in {confirmedRoots, followerRoots, pending, enqueued} :
         R \in [Shards -> SUBSET finalized]
    /\ net \in [Message -> Nat]
    /\ sends \in [Intents -> Nat]
    /\ due \subseteq Intents
    /\ losses \in 0 .. MaxLosses
    /\ submitted \subseteq Intents
    /\ completed \subseteq Intents

\* Money is neither made nor lost: in every shard, balances, escrow and what
\* left through the outbox add up to the initial balances and the fallback
\* credits that came in (settlement/executor.go, fallback/outbox.go).
AssetsConserved ==
    \A s \in Shards :
      LET L == ledger[s]
      IN  Total(Accounts, LAMBDA a : L.balance[a]) + L.escrow
            + FallbackTotal({i \in Intents : L.outbox[i] # "Unknown"})
          = Total(Accounts, LAMBDA a : InitBalance[a]) + FallbackTotal(L.credited)

\* The escrow account holds exactly the amounts of the intents still reserved,
\* so a later settlement of the shard never finds it short, although what a
\* settlement pays out belongs to intents of other shards.
EscrowCoversReservations ==
    \A s \in Shards :
      ledger[s].escrow
        = AmountTotal({i \in Intents : ledger[s].status[i] = "Reserved"})

\* A recipient gets the matched part of an intent once, with the settlement of
\* its batch, and the rest once, however often the fallback is sent and packed.
PaidOnce ==
    \A i \in Intents :
      LET L == ledger[Dst(i)]
          settled == \E b \in L.executed : i \in Batch[b]
      IN  L.received[i] = (IF settled THEN Matched[i] ELSE 0)
                            + (IF i \in L.credited THEN Fallback(i) ELSE 0)

\* A fallback is credited at its destination only after its source shard took
\* it out of the escrow, and the source marks it completed, and stops sending
\* it, only after it was credited, in whatever order and number the messages
\* between the two arrive.
CreditBacked ==
    \A i \in Intents :
      /\ i \in ledger[Dst(i)].credited => ledger[Src(i)].outbox[i] # "Unknown"
      /\ ledger[Src(i)].outbox[i] = "Completed" => i \in ledger[Dst(i)].credited

Paid(i) == ledger[Dst(i)].received[i] = Payment[i].Amount

\* Every intent of a finalized batch is in the end paid in full and leaves no
\* pending outbox entry, although fallback messages are lost.
BatchSettles ==
    \A b \in Batches :
      b \in finalized ~> \A i \in Batch[b] :
                           Paid(i) /\ ledger[Src(i)].outbox[i] # "Pending"

\* nettingWorkload.finished, which lets the Supervisor end the run, holds only
\* when every intent has been paid.  The report of one intent does not say so:
\* its source shard reports a fully matched intent while the destination may
\* still have to settle.  But what the destination has matched against it are
\* intents of its own, and they are reported after the destination settled.
FinishedMeansPaid ==
    completed = Intents => \A i \in Intents : Paid(i)

\* The committed reservations and payouts implement PaymentService.
Service == INSTANCE PaymentService WITH
    Orders <- Intents,
    Amount <- [i \in Intents |-> Payment[i].Amount],
    taken <- {i \in Intents : ledger[Src(i)].status[i] # "Unknown"},
    paid <- [i \in Intents |-> ledger[Dst(i)].received[i]]

\* Netting keeps the promise of the plain cross-shard payments: nothing is paid
\* out, by a settlement or as a fallback, for an intent that its source shard
\* has not reserved, and never more than its amount (registry.Reserve,
\* Executor.Execute, ExecuteCredit in blocks of two shards).
PaysAsPromised == Service!Spec
=============================================================================
