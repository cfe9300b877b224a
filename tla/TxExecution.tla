---------------------------- MODULE TxExecution ------------------------------
(* Cross-shard transactions: their stages, where they belong, what a block  *)
(* does with them (pkg/chain/txexecute.go) and how a shard packs them       *)
(* (txblockop, dynamicshardop, the transaction pool).                       *)
(*                                                                          *)
(* A transaction of the pools is an item [tx, stage, Broker]: the payment,  *)
(* the stage of RelayTxOpt or BrokerTxOpt, and the broker of the latter.    *)
EXTENDS Integers, Sequences, SequencesExt, Functions, FiniteSets

CONSTANTS
    Accounts,       \* the accounts that pay and are paid
    Brokers,        \* the broker accounts, which every shard has
    NoBroker,       \* the Broker field of an item that has none
    Shards,         \* the shard IDs
    Payments,       \* the payments of the workload
    Sender, Recipient, Value,   \* fields of the payments
    InitBalance,    \* account.NormalInitBalanceStr
    BrokerInit,     \* account.BrokerInitBalanceStr
    Word            \* balances are numbers modulo Word (2^256)

Stages == {"raw", "relay1", "relay2", "sigma1", "sigma2"}

Items == [tx : Payments, stage : Stages, Broker : Brokers \cup {NoBroker}]

Raw(t) == [tx |-> t, stage |-> "raw", Broker |-> NoBroker]

(* The account whose location decides where an item is executed.            *)
KeyAccount(item) ==
    IF item.stage \in {"relay2", "sigma2"} THEN Recipient[item.tx] ELSE Sender[item.tx]

Supervisor == -1

(* The destination of an item, as getTxDestLocByAccountState and            *)
(* packValidTxsInRelay find it: an inner-shard payment of the broker mode   *)
(* whose accounts are no longer in one shard goes back to the supervisor.   *)
DestinationInRelay(loc, item) == loc[KeyAccount(item)]
DestinationInBroker(loc, item) ==
    IF item.stage = "raw" /\ loc[Sender[item.tx]] # loc[Recipient[item.tx]]
    THEN Supervisor ELSE loc[KeyAccount(item)]

(***************************************************************************)
(* txExecute.  x is the state of the executor of shard s: the balances, the *)
(* payments it debited and credited (each as many times as it occurs), and  *)
(* whether all transfers were covered.  Accounts that do not exist yet are  *)
(* kept at their initial balance.                                           *)
(***************************************************************************)
Debit(x, t) ==
    [x EXCEPT !.bal[Sender[t]] = (@ - Value[t]) % Word, !.debited[t] = @ + 1]
Credit(x, t) ==
    [x EXCEPT !.bal[Recipient[t]] = (@ + Value[t]) % Word, !.credited[t] = @ + 1]
CanTransfer(x, t) == x.bal[Sender[t]] >= Value[t]

normalTxExecute(x, item) ==
    IF CanTransfer(x, item.tx) THEN Credit(Debit(x, item.tx), item.tx)
    ELSE [x EXCEPT !.ok = FALSE]

(* Bug: the first half of a relayed payment pays the recipient as well.     *)
Bug_CreditAtOnce(s, loc, x, item) ==
    IF loc[KeyAccount(item)] # s THEN x
    ELSE IF item.stage = "relay2" THEN Credit(x, item.tx)
    ELSE normalTxExecute(x, item)

relayTxExecute(s, loc, x, item) ==
    IF loc[KeyAccount(item)] # s THEN x
    ELSE IF item.stage = "relay2" THEN Credit(x, item.tx)
    ELSE IF CanTransfer(x, item.tx) THEN Debit(x, item.tx)
    ELSE [x EXCEPT !.ok = FALSE]

(* Bug: balances are signed numbers.                                        *)
Bug_SignedBalance(s, loc, x, item) ==
    IF loc[KeyAccount(item)] # s THEN x
    ELSE IF item.stage = "sigma2"
         THEN Credit([x EXCEPT !.bal[item.Broker] = @ - Value[item.tx]], item.tx)
    ELSE Debit([x EXCEPT !.bal[item.Broker] = @ + Value[item.tx]], item.tx)

(* sigma2 takes the amount from the broker whatever the broker has.         *)
brokerTxExecute(s, loc, x, item) ==
    IF loc[KeyAccount(item)] # s THEN x
    ELSE IF item.stage = "sigma2"
         THEN Credit([x EXCEPT !.bal[item.Broker] = (@ - Value[item.tx]) % Word], item.tx)
    ELSE IF CanTransfer(x, item.tx)
         THEN Debit([x EXCEPT !.bal[item.Broker] = (@ + Value[item.tx]) % Word], item.tx)
    ELSE [x EXCEPT !.ok = FALSE]

txExecute(s, loc, x, item) ==
    CASE item.stage = "raw" -> normalTxExecute(x, item)
      [] item.stage \in {"relay1", "relay2"} -> relayTxExecute(s, loc, x, item)
      [] item.stage \in {"sigma1", "sigma2"} -> brokerTxExecute(s, loc, x, item)

(* calcStateModification on the transactions of a block.                    *)
Execute(s, loc, bal, items) ==
    FoldLeft(LAMBDA x, item : IF x.ok THEN txExecute(s, loc, x, item) ELSE x,
             [bal |-> bal, ok |-> TRUE,
              debited |-> [t \in Payments |-> 0], credited |-> [t \in Payments |-> 0]],
             items)

(***************************************************************************)
(* RelayTxBlockOp.modifyTxRelayOpt: an undetermined transaction becomes the *)
(* first half of a relayed one when its recipient is elsewhere.             *)
(***************************************************************************)
modifyTxRelayOpt(s, loc, items) ==
    LET Kept(item) == item.stage # "raw" \/ loc[Sender[item.tx]] = s
        Staged(item) == IF item.stage = "raw" /\ loc[Recipient[item.tx]] # s
                        THEN [item EXCEPT !.stage = "relay1"] ELSE item
        kept == SelectSeq(items, Kept)
    IN  [i \in DOMAIN kept |-> Staged(kept[i])]

(***************************************************************************)
(* The pool in its mode by number, and what packValidTxs takes out of it:   *)
(* the shortest front that holds size items of shard s, or all of it.  dest *)
(* gives the shard of every item.                                           *)
(***************************************************************************)
(* Bug: the last transaction of the pool is never taken.                    *)
Bug_KeepLast(pool, n) ==
    IF Len(pool) > n THEN n ELSE IF pool = <<>> THEN 0 ELSE Len(pool) - 1

PackTxs(pool, n) == IF Len(pool) > n THEN n ELSE Len(pool)

packValidTxs(pool, size, dest, s) ==
    LET Valid(n) == Cardinality({i \in 1 .. n : dest[pool[i]] = s})
        full == {n \in 0 .. Len(pool) : Valid(n) = size}
    IN  IF full = {} THEN Len(pool) ELSE CHOOSE n \in full : \A k \in full : n <= k

Taken(pool, n) == SubSeq(pool, 1, n)
Remaining(pool, n) == SubSeq(pool, n + 1, Len(pool))

(* SendWrappedTxs2Shards: one message for every shard that has an item.     *)
SendWrappedTxs2Shards(src, items, dest) ==
    LET For(s) == SelectSeq(items, LAMBDA item : dest[item] = s)
    IN  {[type |-> "ReceiveTxs", SrcShard |-> src, dest |-> s, items |-> For(s)] :
            s \in {d \in Shards : For(d) # <<>>}}

(* The items of a block that the block's shard passes on: relay2 where it   *)
(* committed relay1 (sendRelayedTxs).                                       *)
Relayed(items) ==
    LET r1 == SelectSeq(items, LAMBDA item : item.stage = "relay1")
    IN  [i \in DOMAIN r1 |-> [r1[i] EXCEPT !.stage = "relay2"]]

OfStage(items, stages) == SelectSeq(items, LAMBDA item : item.stage \in stages)
=============================================================================
