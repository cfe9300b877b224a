---------------------------- MODULE BrokerManager ----------------------------
(* The Manager of pkg/broker, which the supervisor of the broker modes uses *)
(* to run a payment in two halves, sigma1 in the sender's shard and sigma2  *)
(* in the recipient's.  Its state is a record:                              *)
(*    unconfirmedTxInfo   for every payment its confirmStage and rawTx's    *)
(*                        broker; stage "none" if it is not in the map      *)
(*    ready1, ready2      readyBroker1TxHashes and readyBroker2TxHashes     *)
(* The broker's nonce only makes the transactions of one broker differ.     *)
EXTENDS TxExecution

NewManager ==
    [unconfirmedTxInfo |-> [t \in Payments |-> [confirmStage |-> "none", Broker |-> NoBroker]],
     ready1 |-> <<>>, ready2 |-> <<>>]

(* A payment that is already in the map is refused.                         *)
CreateRawTx(m, t, b) ==
    IF m.unconfirmedTxInfo[t].confirmStage # "none" THEN m
    ELSE [m EXCEPT !.unconfirmedTxInfo[t] = [confirmStage |-> "wait1", Broker |-> b],
                   !.ready1 = Append(@, t)]

(* CreateRawTxsRandomBroker for the payments at the given places of txs: it *)
(* returns at the first one that is refused.                                *)
CreateRawTxs(m, txs, chosen, places) ==
    LET Refused(acc, t) == acc.unconfirmedTxInfo[t].confirmStage # "none"
        Step(acc, i) ==
            IF acc.failed \/ Refused(acc.m, txs[i]) THEN [acc EXCEPT !.failed = TRUE]
            ELSE [acc EXCEPT !.m = CreateRawTx(@, txs[i], chosen[i])]
    IN  FoldLeft(Step, [m |-> m, failed |-> FALSE], places).m

(* Bug: the second halves stay ready after they were created.               *)
Bug_KeepReady2(m) == [m EXCEPT !.ready1 = <<>>]

(* The transactions of CreateBrokerTxs, and the manager after it.           *)
BrokerItem(m, t, stage) ==
    [tx |-> t, stage |-> stage, Broker |-> m.unconfirmedTxInfo[t].Broker]

CreateBrokerTxs(m) ==
    LET b1 == SelectSeq(m.ready1, LAMBDA t : m.unconfirmedTxInfo[t].confirmStage = "wait1")
        b2 == SelectSeq(m.ready2, LAMBDA t : m.unconfirmedTxInfo[t].confirmStage = "wait2")
    IN  [i \in DOMAIN b1 |-> BrokerItem(m, b1[i], "sigma1")]
            \o [i \in DOMAIN b2 |-> BrokerItem(m, b2[i], "sigma2")]
ClearReady(m) == [m EXCEPT !.ready1 = <<>>, !.ready2 = <<>>]

(* ConfirmBrokerTx: which confirmations it accepts, and what it does then.  *)
Confirms(m, item) ==
    LET stage == m.unconfirmedTxInfo[item.tx].confirmStage
    IN  (stage = "wait1" /\ item.stage = "sigma1") \/ (stage = "wait2" /\ item.stage = "sigma2")

ConfirmBrokerTx(m, item) ==
    IF ~Confirms(m, item) THEN m
    ELSE IF item.stage = "sigma1"
         THEN [m EXCEPT !.unconfirmedTxInfo[item.tx].confirmStage = "wait2",
                        !.ready2 = Append(@, item.tx)]
         ELSE [m EXCEPT !.unconfirmedTxInfo[item.tx] =
                            [confirmStage |-> "none", Broker |-> NoBroker]]
=============================================================================
