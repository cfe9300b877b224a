------------------------- MODULE NettingLedgerProofs -------------------------
(***************************************************************************)
(* PaidOnce and CreditBacked hold for every set of shards, intents and     *)
(* batches, every order of messages and every number of fallback copies.   *)
(*                                                                         *)
(* The argument follows a fallback between its two shards.  Known and      *)
(* Credited only grow.  Every fallback transaction in flight, queued or    *)
(* packed is about a known intent, every completion about a credited one,  *)
(* and the state a block under construction has reached is as sound as the *)
(* committed one it extends.  What a state is worth is stated over the two *)
(* sets as parameters, so that a step only has to show that they grow.     *)
(* The sums of AssetsConserved and EscrowCoversReservations would need     *)
(* induction over sets: they are model-checked.                            *)
(***************************************************************************)
EXTENDS NettingLedger, FiniteSetTheorems, TLAPS

\* Intents whose fallback left the escrow, and those credited, as committed.
Known == {i \in Intents : ledger[Src(i)].outbox[i] # "Unknown"}
Credited == {i \in Intents : i \in ledger[Dst(i)].credited}

Elems(q) == {q[k] : k \in 1 .. Len(q)}

SoundTx(K, C, s, tx) ==
    /\ tx.type = "Fallback" => tx.id \in K /\ Dst(tx.id) = s
    /\ tx.type = "Completed" => tx.id \in C /\ Src(tx.id) = s

\* The shape of a ledger, with nothing said of the amounts.
Shape(L) ==
    L \in [balance : {L.balance}, escrow : {L.escrow}, status : {L.status},
           nextNonce : {L.nextNonce},
           executed : SUBSET Batches,
           outbox : [Intents -> {"Unknown", "Pending", "Completed"}],
           credited : SUBSET Intents,
           received : [Intents -> Nat]]

Settled(L, i) == \E b \in L.executed : i \in Batch[b]

Owed(L, i) == (IF Settled(L, i) THEN Matched[i] ELSE 0)
                + (IF i \in L.credited THEN Fallback(i) ELSE 0)

SoundState(K, C, s, L) ==
    /\ Shape(L)
    /\ \A i \in Intents : L.outbox[i] # "Unknown" => Src(i) = s
    /\ \A i \in Intents : L.outbox[i] = "Completed" => i \in C
    /\ \A i \in L.credited : Dst(i) = s /\ i \in K
    /\ \A i \in Intents : Dst(i) = s => L.received[i] = Owed(L, i)

Extended(L, M) ==
    /\ \A i \in Intents : L.outbox[i] # "Unknown" => M.outbox[i] # "Unknown"
    /\ L.credited \subseteq M.credited

SoundBlock(K, C, s, L, B) ==
    /\ B \in [todo : Seq(Tx), done : Seq(Tx), state : {B.state}]
    /\ SoundState(K, C, s, B.state)
    /\ Extended(L, B.state)
    /\ \A tx \in Elems(B.todo) : SoundTx(K, C, s, tx)
    /\ \A tx \in Elems(B.done) :
         tx.type = "Fallback" => tx.id \in B.state.credited

Shaped ==
    /\ DOMAIN ledger = Shards
    /\ txPool \in [Shards -> Seq(Tx)]
    /\ DOMAIN block = Shards
    /\ net \in [Message -> Nat]

LedgersSound == \A s \in Shards : SoundState(Known, Credited, s, ledger[s])

PoolsSound ==
    \A s \in Shards : \A tx \in Elems(txPool[s]) : SoundTx(Known, Credited, s, tx)

NetSound ==
    \A m \in Message : net[m] > 0 => SoundTx(Known, Credited, Addressee(m), m)

BlocksSound ==
    \A s \in Shards :
      block[s] # NoBlock => SoundBlock(Known, Credited, s, ledger[s], block[s])

IInv == Shaped /\ LedgersSound /\ PoolsSound /\ NetSound /\ BlocksSound

-----------------------------------------------------------------------------
(* Sequences and messages *)

\* What AddTxs, PackTxs and the walk through a block do to the transactions in
\* a sequence.
LEMMA ElemsFacts ==
    ASSUME NEW T, NEW q \in Seq(T)
    PROVE  /\ \A e \in T : /\ Append(q, e) \in Seq(T)
                           /\ Elems(Append(q, e)) \subseteq Elems(q) \cup {e}
           /\ q # <<>> => /\ Head(q) \in T
                          /\ Head(q) \in Elems(q)
                          /\ Tail(q) \in Seq(T)
                          /\ Elems(Tail(q)) \subseteq Elems(q)
           /\ \A n \in 0 .. Len(q) :
                /\ SubSeq(q, 1, n) \in Seq(T)
                /\ Elems(SubSeq(q, 1, n)) \subseteq Elems(q)
                /\ SubSeq(q, n + 1, Len(q)) \in Seq(T)
                /\ Elems(SubSeq(q, n + 1, Len(q))) \subseteq Elems(q)
  BY DEF Elems

\* Every transaction has one of four forms.
LEMMA TxForms ==
    ASSUME NEW tx \in Tx
    PROVE  \/ tx.type = "Intent" /\ tx.id \in Intents
           \/ tx.type = "Settlement" /\ tx.id \in Batches
           \/ tx.type = "Fallback" /\ tx.id \in Intents /\ tx = FallbackTx(tx.id)
           \/ tx.type = "Completed" /\ tx.id \in Intents
  BY DEF Tx, Message, FallbackTx, CompletedTx, IntentTx, SettlementTx

\* Fallback and completion messages, and the shards of an intent.
LEMMA MessageForms ==
    ASSUME NEW m \in Message
    PROVE  /\ m \in Tx
           /\ \/ m.type = "Fallback" /\ m.id \in Intents
              \/ m.type = "Completed" /\ m.id \in Intents
           /\ Addressee(m) \in Shards
           /\ m.id \in Intents => Src(m.id) \in Shards /\ Dst(m.id) \in Shards
  BY PaymentAssumption
     DEF Tx, Message, FallbackTx, CompletedTx, Addressee, Src, Dst, PaymentType

\* An intent's shards, and the two parts of its amount.
LEMMA IntentFacts ==
    ASSUME NEW i \in Intents
    PROVE  /\ Src(i) \in Shards
           /\ Dst(i) \in Shards
           /\ Matched[i] \in Nat
           /\ Fallback(i) \in Nat
  BY PaymentAssumption, BatchAssumption DEF Src, Dst, Fallback, PaymentType

\* The completions a block is answered with count its fallback transactions.
LEMMA CopiesFacts ==
    ASSUME NEW q \in Seq(Tx), NEW tx
    PROVE  /\ Copies(q, tx) \in Nat
           /\ Copies(q, tx) > 0 => tx \in Elems(q)
<1> DEFINE S == {k \in DOMAIN q : q[k] = tx}
<1>1. IsFiniteSet(S)
  <2>1. DOMAIN q = 1 .. Len(q) /\ Len(q) \in Nat
    OBVIOUS
  <2>2. IsFiniteSet(1 .. Len(q))
    BY <2>1, FS_Interval
  <2>3. S \in SUBSET (1 .. Len(q))
    BY <2>1
  <2> HIDE DEF S
  <2> QED
    BY <2>2, <2>3, FS_Subset, Zenon
<1>2. Cardinality(S) \in Nat
  BY <1>1, FS_CardinalityType
<1>3. ASSUME Cardinality(S) > 0
      PROVE  tx \in Elems(q)
  <2>1. Cardinality({}) = 0
    BY FS_EmptySet
  <2> HIDE DEF S
  <2>2. Cardinality(S) # 0
    BY <1>2, <1>3
  <2>3. S # {}
    BY <2>1, <2>2, Zenon
  <2> QED
    BY <2>3 DEF Elems, S
<1> QED
  BY <1>2, <1>3 DEF Copies

-----------------------------------------------------------------------------
(* Transactions on a state *)

\* A growing set of known and of credited intents keeps everything sound.
LEMMA SoundGrows ==
    ASSUME NEW K, NEW C, NEW K2, NEW C2, K \subseteq K2, C \subseteq C2,
           NEW s
    PROVE  /\ \A tx : SoundTx(K, C, s, tx) => SoundTx(K2, C2, s, tx)
           /\ \A L : SoundState(K, C, s, L) => SoundState(K2, C2, s, L)
  BY DEF SoundTx, SoundState

\* registry.Reserve touches neither the outbox nor what was paid.
LEMMA ReserveSound ==
    ASSUME NEW K, NEW C, NEW s, NEW L, SoundState(K, C, s, L), NEW i \in Intents
    PROVE  /\ SoundState(K, C, s, Reserve(L, i))
           /\ Extended(L, Reserve(L, i))
<1> DEFINE M == Reserve(L, i)
<1>1. Shape(L)
  BY DEF SoundState
<1>2. /\ M.executed = L.executed
      /\ M.outbox = L.outbox
      /\ M.credited = L.credited
      /\ M.received = L.received
  BY <1>1 DEF Reserve, Shape
<1>3. Shape(M)
  BY <1>1, Zenon DEF Reserve, Shape
<1> HIDE DEF M
<1>4. \A j \in Intents : Owed(M, j) = Owed(L, j)
  BY <1>2 DEF Owed, Settled
<1> QED
  BY <1>2, <1>3, <1>4 DEF SoundState, Extended, M

\* settlement.Executor.Execute pays every incoming intent of a batch that no
\* executed batch has paid before, and only adds outbox entries of this shard.
LEMMA SettleSound ==
    ASSUME NEW K, NEW C, NEW s, NEW L, SoundState(K, C, s, L), NEW b \in Batches
    PROVE  /\ SoundState(K, C, s, Settle(L, s, b))
           /\ Extended(L, Settle(L, s, b))
<1> DEFINE M == Settle(L, s, b)
<1>1. Shape(L)
  BY DEF SoundState
<1>2. CASE b \in L.executed
  BY <1>2 DEF Settle, Extended
<1>3. CASE b \notin L.executed
  <2>1. Incoming(s, b) \subseteq Intents /\ Created(s, b) \subseteq Intents
    BY BatchAssumption DEF Incoming, Created, Outgoing
  <2>2. /\ M.executed = L.executed \cup {b}
        /\ M.credited = L.credited
        /\ M.outbox = [i \in Intents |-> IF i \in Created(s, b) THEN "Pending"
                                                                ELSE L.outbox[i]]
        /\ M.received = [i \in Intents |->
                           IF i \in Incoming(s, b) THEN L.received[i] + Matched[i]
                                                   ELSE L.received[i]]
    BY <1>1, <1>3 DEF Settle, Shape
  <2>3. M \in [balance : {M.balance}, escrow : {M.escrow}, status : {M.status},
               nextNonce : {M.nextNonce}, executed : {M.executed},
               outbox : {M.outbox}, credited : {M.credited},
               received : {M.received}]
    BY <1>1, <1>3, Zenon DEF Settle, Shape
  <2> HIDE DEF M
  <2>4. Shape(M)
    BY <1>1, <2>2, <2>3, IntentFacts DEF Shape
  <2>5. ASSUME NEW i \in Intents, Dst(i) = s
        PROVE  M.received[i] = Owed(M, i)
    <3>1. L.received[i] = Owed(L, i)
      BY <2>5 DEF SoundState
    <3>2. CASE i \in Batch[b]
      <4>1. ~Settled(L, i) /\ Settled(M, i)
        BY <1>1, <1>3, <2>2, <3>2, BatchAssumption DEF Settled, Shape
      <4>2. M.received[i] = L.received[i] + Matched[i]
        BY <1>1, <2>2, <2>5, <3>2, IntentFacts DEF Incoming, Shape
      <4> QED
        BY <2>2, <3>1, <4>1, <4>2, IntentFacts DEF Owed
    <3>3. CASE i \notin Batch[b]
      <4>1. Settled(M, i) = Settled(L, i)
        BY <2>2, <3>3 DEF Settled
      <4>2. M.received[i] = L.received[i]
        BY <2>2, <3>3 DEF Incoming
      <4> QED
        BY <2>2, <3>1, <4>1, <4>2 DEF Owed
    <3> QED
      BY <3>2, <3>3
  <2>6. /\ \A i \in Intents : M.outbox[i] # "Unknown" => Src(i) = s
        /\ \A i \in Intents : M.outbox[i] = "Completed" => i \in C
        /\ Extended(L, M)
    BY <2>2 DEF SoundState, Extended, Created, Outgoing
  <2>7. \A i \in M.credited : Dst(i) = s /\ i \in K
    BY <2>2 DEF SoundState
  <2>8. SoundState(K, C, s, M)
    BY <2>4, <2>5, <2>6, <2>7 DEF SoundState
  <2> QED
    BY <2>6, <2>8 DEF M
<1> QED
  BY <1>2, <1>3

\* fallback.ExecuteCredit pays the rest of an intent unless it was paid.
LEMMA CreditSound ==
    ASSUME NEW K, NEW C, NEW s, NEW L, SoundState(K, C, s, L),
           NEW i \in Intents, i \in K, Dst(i) = s
    PROVE  /\ SoundState(K, C, s, ExecuteCredit(L, i))
           /\ Extended(L, ExecuteCredit(L, i))
           /\ i \in ExecuteCredit(L, i).credited
<1> DEFINE M == ExecuteCredit(L, i)
<1>1. Shape(L)
  BY DEF SoundState
<1>2. CASE i \in L.credited
  BY <1>2 DEF ExecuteCredit, Extended
<1>3. CASE i \notin L.credited
  <2>1. /\ M.executed = L.executed
        /\ M.credited = L.credited \cup {i}
        /\ M.outbox = L.outbox
        /\ M.received = [L.received EXCEPT ![i] = @ + Fallback(i)]
    BY <1>1, <1>3 DEF ExecuteCredit, Shape
  <2>2. M \in [balance : {M.balance}, escrow : {M.escrow}, status : {M.status},
               nextNonce : {M.nextNonce}, executed : {M.executed},
               outbox : {M.outbox}, credited : {M.credited},
               received : {M.received}]
    BY <1>1, <1>3, Zenon DEF ExecuteCredit, Shape
  <2> HIDE DEF M
  <2>3. Shape(M)
    BY <1>1, <2>1, <2>2, IntentFacts DEF Shape
  <2>4. ASSUME NEW j \in Intents, Dst(j) = s
        PROVE  M.received[j] = Owed(M, j)
    <3>1. L.received[j] = Owed(L, j) /\ Settled(M, j) = Settled(L, j)
      BY <2>1, <2>4 DEF SoundState, Settled
    <3> QED
      BY <1>1, <1>3, <2>1, <3>1, IntentFacts DEF Owed, Shape
  <2>5. SoundState(K, C, s, M) /\ Extended(L, M) /\ i \in M.credited
    BY <2>1, <2>3, <2>4 DEF SoundState, Extended
  <2> QED
    BY <2>5 DEF M
<1> QED
  BY <1>2, <1>3

\* Outbox.Complete is only executed for a credited intent.
LEMMA CompleteSound ==
    ASSUME NEW K, NEW C, NEW s, NEW L, SoundState(K, C, s, L),
           NEW i \in Intents, i \in C, Src(i) = s
    PROVE  LET M == [L EXCEPT !.outbox[i] = "Completed"]
           IN  SoundState(K, C, s, M) /\ Extended(L, M)
<1> DEFINE M == [L EXCEPT !.outbox[i] = "Completed"]
<1>1. Shape(L)
  BY DEF SoundState
<1>2. /\ M.executed = L.executed
      /\ M.credited = L.credited
      /\ M.outbox = [L.outbox EXCEPT ![i] = "Completed"]
      /\ M.received = L.received
  BY <1>1 DEF Shape
<1>3. Shape(M)
  BY <1>1 DEF Shape
<1> HIDE DEF M
<1>4. \A j \in Intents : Owed(M, j) = Owed(L, j)
  BY <1>2 DEF Owed, Settled
<1>5. SoundState(K, C, s, M) /\ Extended(L, M)
  BY <1>1, <1>2, <1>3, <1>4 DEF SoundState, Extended, Shape
<1> QED
  BY <1>5 DEF M

\* Whatever transaction a block executes, the state stays sound.
LEMMA ExecuteSound ==
    ASSUME NEW K, NEW C, NEW s, NEW L, SoundState(K, C, s, L),
           NEW tx \in Tx, SoundTx(K, C, s, tx)
    PROVE  LET M == txExecute(L, s, tx)
           IN  /\ SoundState(K, C, s, M)
               /\ Extended(L, M)
               /\ tx.type = "Fallback" => tx.id \in M.credited
<1>1. CASE tx.type = "Intent" /\ tx.id \in Intents
  BY <1>1, ReserveSound DEF txExecute
<1>2. CASE tx.type = "Settlement" /\ tx.id \in Batches
  BY <1>2, SettleSound DEF txExecute
<1>3. CASE tx.type = "Fallback" /\ tx.id \in Intents
  BY <1>3, CreditSound DEF txExecute, SoundTx
<1>4. CASE tx.type = "Completed" /\ tx.id \in Intents
  BY <1>4, CompleteSound DEF txExecute, SoundTx
<1> QED
  BY <1>1, <1>2, <1>3, <1>4, TxForms
-----------------------------------------------------------------------------
(* The invariant *)

\* The invariant holds before anything is submitted.
LEMMA InitInv == Init => IInv
<1> SUFFICES ASSUME Init PROVE IInv
  OBVIOUS
<1>1. Shaped
  BY DEF Init, Shaped
<1>2. ASSUME NEW s \in Shards
      PROVE  SoundState(Known, Credited, s, ledger[s])
  <2>1. Shape(ledger[s])
    BY <1>2 DEF Init, Shape
  <2>2. /\ ledger[s].outbox = [i \in Intents |-> "Unknown"]
        /\ ledger[s].credited = {}
        /\ ledger[s].executed = {}
        /\ ledger[s].received = [i \in Intents |-> 0]
    BY <1>2 DEF Init
  <2> QED
    BY <2>1, <2>2 DEF SoundState, Owed, Settled
<1>3. PoolsSound
  BY DEF Init, PoolsSound, Elems
<1>4. NetSound
  BY DEF Init, NetSound
<1>5. BlocksSound
  BY DEF Init, BlocksSound
<1> QED
  BY <1>1, <1>2, <1>3, <1>4, <1>5 DEF IInv, LedgersSound

\* Known and Credited follow the committed ledgers.
LEMMA SameLedger ==
    ASSUME UNCHANGED ledger
    PROVE  Known' = Known /\ Credited' = Credited
  BY DEF Known, Credited

\* A handler that only adds one sound transaction to a pool.
LEMMA AddTxInv ==
    ASSUME IInv, UNCHANGED <<ledger, block>>, NEW s \in Shards, NEW tx \in Tx,
           SoundTx(Known, Credited, s, tx), AddTx(s, tx)
    PROVE  /\ txPool' \in [Shards -> Seq(Tx)]
           /\ PoolsSound'
<1>1. txPool \in [Shards -> Seq(Tx)]
  BY DEF IInv, Shaped
<1>2. txPool' = [txPool EXCEPT ![s] = Append(txPool[s], tx)]
  BY DEF AddTx
<1>3. /\ Append(txPool[s], tx) \in Seq(Tx)
      /\ Elems(Append(txPool[s], tx)) \subseteq Elems(txPool[s]) \cup {tx}
  BY <1>1, ElemsFacts
<1>4. txPool' \in [Shards -> Seq(Tx)]
  BY <1>1, <1>2, <1>3
<1>5. ASSUME NEW t \in Shards, NEW u \in Elems(txPool'[t])
      PROVE  SoundTx(Known, Credited, t, u)
  <2>1. CASE t = s
    <3>1. u \in Elems(txPool[s]) \cup {tx}
      BY <1>1, <1>2, <1>3, <1>5, <2>1
    <3> QED
      BY <2>1, <3>1 DEF IInv, PoolsSound
  <2>2. CASE t # s
    BY <1>1, <1>2, <1>5, <2>2 DEF IInv, PoolsSound
  <2> QED
    BY <2>1, <2>2
<1> QED
  BY <1>4, <1>5, SameLedger DEF PoolsSound

\* The parts of the invariant a step leaves alone.
LEMMA QuietInv ==
    ASSUME IInv, UNCHANGED ledger
    PROVE  /\ LedgersSound'
           /\ UNCHANGED txPool => PoolsSound'
           /\ UNCHANGED net => NetSound'
           /\ UNCHANGED block => BlocksSound'
  BY SameLedger DEF IInv, LedgersSound, PoolsSound, NetSound, BlocksSound

\* The message handlers and the network.
LEMMA HandlerInv ==
    ASSUME IInv,
           \/ \E i \in Intents : SubmitIntent(i) \/ Elapse(i)
           \/ \E b \in Batches : Finalize(b)
           \/ \E s \in Shards, b \in Batches :
                Confirm(s, b) \/ FollowersConfirm(s, b) \/ AddPackage(s, b)
           \/ \E m \in Message : HandleFallback(m) \/ Lose(m)
    PROVE  IInv'
<1> USE DEF inbox, delivery
<1>0. Shaped
  BY DEF IInv
<1>1. ASSUME NEW i \in Intents, SubmitIntent(i)
      PROVE  IInv'
  <2>1. IntentTx(i) \in Tx /\ SoundTx(Known, Credited, Src(i), IntentTx(i))
    BY DEF Tx, IntentTx, SoundTx
  <2>2. UNCHANGED <<ledger, block, net>> /\ AddTx(Src(i), IntentTx(i))
    BY <1>1 DEF SubmitIntent
  <2> QED
    BY <1>0, <2>1, <2>2, IntentFacts, AddTxInv, QuietInv DEF IInv, Shaped
<1>2. ASSUME UNCHANGED <<ledger, block, net, txPool>>
      PROVE  IInv'
  BY <1>0, <1>2, QuietInv DEF IInv, Shaped
<1>3. ASSUME NEW s \in Shards, NEW b \in Batches,
             Confirm(s, b) \/ AddPackage(s, b)
      PROVE  IInv'
  <2>1. SettlementTx(b) \in Tx /\ SoundTx(Known, Credited, s, SettlementTx(b))
    BY SMTT(30) DEF Tx, SettlementTx, SoundTx
  <2>2. /\ UNCHANGED <<ledger, block, net>>
        /\ UNCHANGED txPool \/ AddTx(s, SettlementTx(b))
    BY <1>3 DEF Confirm, AddPackage
  <2> QED
    BY <1>0, <1>2, <2>1, <2>2, AddTxInv, QuietInv DEF IInv, Shaped
<1>4. ASSUME NEW m \in Message, HandleFallback(m) \/ Lose(m)
      PROVE  IInv'
  <2>1. /\ UNCHANGED <<ledger, block>>
        /\ net[m] > 0
        /\ net' = [net EXCEPT ![m] = net[m] - 1]
        /\ UNCHANGED txPool \/ AddTx(Addressee(m), m)
    BY <1>4 DEF HandleFallback, Lose
  <2>2. SoundTx(Known, Credited, Addressee(m), m)
    BY <2>1 DEF IInv, NetSound
  <2>3. net' \in [Message -> Nat]
    BY <1>0, <2>1 DEF Shaped
  <2>4. \A k \in Message : net'[k] > 0 => net[k] > 0
    BY <1>0, <2>1 DEF Shaped
  <2>5. NetSound'
    BY <2>1, <2>4, SameLedger DEF IInv, NetSound
  <2>6. txPool' \in [Shards -> Seq(Tx)] /\ PoolsSound'
    BY <1>0, <2>1, <2>2, MessageForms, AddTxInv, QuietInv, SMTT(30) DEF Shaped
  <2> QED
    BY <1>0, <2>1, <2>3, <2>5, <2>6, QuietInv DEF IInv, Shaped
<1>5. ASSUME NEW i \in Intents, Elapse(i)
      PROVE  IInv'
  BY <1>2, <1>5 DEF Elapse
<1>6. ASSUME NEW b \in Batches, Finalize(b)
      PROVE  IInv'
  BY <1>2, <1>6 DEF Finalize
<1>7. ASSUME NEW s \in Shards, NEW b \in Batches, FollowersConfirm(s, b)
      PROVE  IInv'
  BY <1>2, <1>7 DEF FollowersConfirm
<1> QED
  BY <1>1, <1>3, <1>4, <1>5, <1>6, <1>7
\* Packing a block starts it from the committed state.
LEMMA BuildInv ==
    ASSUME IInv, NEW s \in Shards, BuildProposal(s)
    PROVE  IInv'
<1> USE DEF inbox, delivery
<1> DEFINE n == IF Len(txPool[s]) > BlockSizeLimit THEN BlockSizeLimit
                                                   ELSE Len(txPool[s])
<1>1. /\ UNCHANGED <<ledger, net>>
      /\ block' = [block EXCEPT ![s] = [todo |-> SubSeq(txPool[s], 1, n),
                                        done |-> <<>>, state |-> ledger[s]]]
      /\ txPool' = [txPool EXCEPT ![s] = SubSeq(txPool[s], n + 1, Len(txPool[s]))]
  BY DEF BuildProposal
<1>2. Shaped
  BY DEF IInv
<1>3. n \in 0 .. Len(txPool[s]) /\ txPool[s] \in Seq(Tx)
  BY <1>2, LedgerAssumption DEF Shaped
<1> HIDE DEF n
<1>4. /\ SubSeq(txPool[s], 1, n) \in Seq(Tx)
      /\ Elems(SubSeq(txPool[s], 1, n)) \subseteq Elems(txPool[s])
      /\ SubSeq(txPool[s], n + 1, Len(txPool[s])) \in Seq(Tx)
      /\ Elems(SubSeq(txPool[s], n + 1, Len(txPool[s]))) \subseteq Elems(txPool[s])
  BY <1>3, ElemsFacts
<1>5. txPool' \in [Shards -> Seq(Tx)]
  BY <1>1, <1>2, <1>4 DEF Shaped
<1>6. \A t \in Shards : Elems(txPool'[t]) \subseteq Elems(txPool[t])
  BY <1>1, <1>2, <1>4 DEF Shaped
<1>7. PoolsSound'
  BY <1>1, <1>6, SameLedger DEF IInv, PoolsSound
<1>8. ASSUME NEW t \in Shards, block'[t] # NoBlock
      PROVE  SoundBlock(Known, Credited, t, ledger[t], block'[t])
  <2>1. CASE t = s
    <3> DEFINE B == block'[s]
    <3>1. /\ B.todo = SubSeq(txPool[s], 1, n)
          /\ B.done = <<>>
          /\ B.state = ledger[s]
          /\ B \in [todo : {B.todo}, done : {B.done}, state : {B.state}]
      BY <1>1, <1>2, Zenon DEF Shaped
    <3> HIDE DEF B
    <3>2. /\ B \in [todo : Seq(Tx), done : Seq(Tx), state : {B.state}]
          /\ Elems(B.done) = {}
      <4>1. B.todo \in Seq(Tx) /\ B.done \in Seq(Tx)
        BY <1>4, <3>1
      <4>2. Len(B.done) = 0
        BY <3>1
      <4>3. Elems(B.done) = {}
        BY <4>2 DEF Elems
      <4> QED
        BY <3>1, <4>1, <4>3, Zenon
    <3>3. SoundState(Known, Credited, s, B.state) /\ Extended(ledger[s], B.state)
      BY <3>1 DEF IInv, LedgersSound, Extended
    <3>4. \A tx \in Elems(B.todo) : SoundTx(Known, Credited, s, tx)
      BY <1>4, <3>1 DEF IInv, PoolsSound
    <3>5. SoundBlock(Known, Credited, s, ledger[s], B)
      BY <3>2, <3>3, <3>4 DEF SoundBlock
    <3> QED
      BY <2>1, <3>5 DEF B
  <2>2. CASE t # s
    BY <1>1, <1>2, <1>8, <2>2 DEF IInv, BlocksSound, Shaped
  <2> QED
    BY <2>1, <2>2
<1>9. BlocksSound'
  BY <1>1, <1>8, SameLedger, Zenon DEF BlocksSound
<1> QED
  BY <1>1, <1>2, <1>5, <1>7, <1>9, QuietInv DEF IInv, Shaped

\* Executing one transaction of the block.
LEMMA ExecuteInv ==
    ASSUME IInv, NEW s \in Shards, ExecuteTx(s)
    PROVE  IInv'
<1> USE DEF inbox, delivery
<1>1. PICK B : B = block[s]
  OBVIOUS
<1>2. PICK tx : tx = Head(B.todo)
  OBVIOUS
<1>3. PICK D : block' = [block EXCEPT ![s] = D]
               /\ \/ D = [todo |-> Tail(B.todo), done |-> Append(B.done, tx),
                          state |-> txExecute(B.state, s, tx)]
                  \/ D = [B EXCEPT !.todo = Tail(B.todo)]
                  \/ D = NoBlock
  <2>1. CASE CanExecute(B.state, s, tx)
    BY <1>1, <1>2, <2>1, Zenon DEF ExecuteTx
  <2>2. CASE ~CanExecute(B.state, s, tx) /\ tx.type = "Intent"
    BY <1>1, <1>2, <2>2, Zenon DEF ExecuteTx
  <2>3. CASE ~CanExecute(B.state, s, tx) /\ tx.type # "Intent"
    BY <1>1, <1>2, <2>3, Zenon DEF ExecuteTx
  <2> QED
    BY <2>1, <2>2, <2>3
<1>4. UNCHANGED <<ledger, net, txPool>> /\ B # NoBlock /\ B.todo # <<>>
  BY <1>1 DEF ExecuteTx, Building
<1>5. Shaped
  BY DEF IInv
<1>6. SoundBlock(Known, Credited, s, ledger[s], B)
  BY <1>1, <1>4 DEF IInv, BlocksSound
<1>7. /\ B.todo \in Seq(Tx)
      /\ B.done \in Seq(Tx)
      /\ B \in [todo : Seq(Tx), done : Seq(Tx), state : {B.state}]
      /\ SoundState(Known, Credited, s, B.state)
      /\ Extended(ledger[s], B.state)
      /\ \A u \in Elems(B.todo) : SoundTx(Known, Credited, s, u)
      /\ \A u \in Elems(B.done) : u.type = "Fallback" => u.id \in B.state.credited
  BY <1>6 DEF SoundBlock
<1>8. /\ tx \in Tx
      /\ SoundTx(Known, Credited, s, tx)
      /\ Tail(B.todo) \in Seq(Tx)
      /\ Elems(Tail(B.todo)) \subseteq Elems(B.todo)
  BY <1>2, <1>4, <1>7, ElemsFacts
<1>9. ASSUME D # NoBlock
      PROVE  SoundBlock(Known, Credited, s, ledger[s], D)
  <2>1. CASE D = [todo |-> Tail(B.todo), done |-> Append(B.done, tx),
                  state |-> txExecute(B.state, s, tx)]
    <3>1. PICK M : M = txExecute(B.state, s, tx)
      OBVIOUS
    <3>2. /\ SoundState(Known, Credited, s, M)
          /\ Extended(B.state, M)
          /\ tx.type = "Fallback" => tx.id \in M.credited
      BY <1>7, <1>8, <3>1, ExecuteSound
    <3>3. /\ Append(B.done, tx) \in Seq(Tx)
          /\ Elems(Append(B.done, tx)) \subseteq Elems(B.done) \cup {tx}
      BY <1>7, <1>8, ElemsFacts
    <3>4. /\ D.todo = Tail(B.todo) /\ D.done = Append(B.done, tx) /\ D.state = M
          /\ D \in [todo : Seq(Tx), done : Seq(Tx), state : {D.state}]
      BY <1>8, <2>1, <3>1, <3>3
    <3>5. Extended(ledger[s], M)
      BY <1>7, <3>2 DEF Extended
    <3>6. \A u \in Elems(D.done) : u.type = "Fallback" => u.id \in M.credited
      BY <1>7, <3>2, <3>3, <3>4 DEF Extended
    <3> QED
      BY <1>7, <1>8, <3>2, <3>4, <3>5, <3>6 DEF SoundBlock
  <2>2. CASE D = [B EXCEPT !.todo = Tail(B.todo)]
    <3>1. /\ D.todo = Tail(B.todo) /\ D.done = B.done /\ D.state = B.state
          /\ D \in [todo : Seq(Tx), done : Seq(Tx), state : {D.state}]
      BY <1>7, <1>8, <2>2, Zenon
    <3> QED
      BY <1>7, <1>8, <3>1 DEF SoundBlock
  <2> QED
    BY <1>3, <1>9, <2>1, <2>2
<1>10. \A t \in Shards : block'[t] = IF t = s THEN D ELSE block[t]
  BY <1>3, <1>5 DEF Shaped
<1>11. \A t \in Shards : block'[t] # NoBlock =>
         SoundBlock(Known, Credited, t, ledger[t], block'[t])
  BY <1>9, <1>10 DEF IInv, BlocksSound
<1>12. BlocksSound'
  BY <1>4, <1>11, SameLedger DEF BlocksSound
<1>13. DOMAIN block' = Shards
  BY <1>3, <1>5 DEF Shaped
<1> QED
  BY <1>4, <1>5, <1>12, <1>13, QuietInv DEF IInv, Shaped

\* Committing a block makes its fallbacks known and its credits visible before
\* the messages about them leave.
LEMMA CommitInv ==
    ASSUME IInv, NEW s \in Shards, CommitAndDeliver(s)
    PROVE  IInv'
<1> USE DEF inbox, delivery
<1>1. PICK B : B = block[s]
  OBVIOUS
<1>2. PICK T : T = ToSend(s)
  OBVIOUS
<1>3. /\ ledger' = [ledger EXCEPT ![s] = B.state]
      /\ block' = [block EXCEPT ![s] = NoBlock]
      /\ net' = [m \in Message |->
                   net[m] + (IF m.type = "Completed"
                             THEN Completions(B.done, m.id)
                             ELSE IF m.id \in T THEN 1 ELSE 0)]
      /\ UNCHANGED txPool
      /\ B # NoBlock
  BY <1>1, <1>2 DEF CommitAndDeliver, Accepted
<1>4. Shaped
  BY DEF IInv
<1>5. SoundBlock(Known, Credited, s, ledger[s], B)
  BY <1>1, <1>3 DEF IInv, BlocksSound
<1>6. /\ B.done \in Seq(Tx)
      /\ SoundState(Known, Credited, s, B.state)
      /\ Extended(ledger[s], B.state)
      /\ \A u \in Elems(B.done) : u.type = "Fallback" => u.id \in B.state.credited
  BY <1>5 DEF SoundBlock
<1>7. \A t \in Shards : ledger'[t] = IF t = s THEN B.state ELSE ledger[t]
  BY <1>3, <1>4 DEF Shaped
<1>8. Known \subseteq Known' /\ Credited \subseteq Credited'
  BY <1>6, <1>7, IntentFacts DEF Known, Credited, Extended
<1>9. LedgersSound'
  <2>1. \A t \in Shards : SoundState(Known, Credited, t, ledger'[t])
    BY <1>6, <1>7 DEF IInv, LedgersSound
  <2>2. \A t \in Shards : SoundState(Known', Credited', t, ledger'[t])
    BY <1>8, <2>1, SoundGrows
  <2> QED
    BY <2>2 DEF LedgersSound
<1>10. PoolsSound'
  <2>1. \A t \in Shards : \A tx \in Elems(txPool[t]) :
          SoundTx(Known', Credited', t, tx)
    BY <1>8, SoundGrows DEF IInv, PoolsSound
  <2> QED
    BY <1>3, <2>1 DEF PoolsSound
<1>11. BlocksSound'
  <2>1. ASSUME NEW t \in Shards, block'[t] # NoBlock
        PROVE  SoundBlock(Known', Credited', t, ledger'[t], block'[t])
    <3>1. t # s /\ block'[t] = block[t] /\ ledger'[t] = ledger[t]
      BY <1>3, <1>4, <1>7, <2>1 DEF Shaped
    <3>2. SoundBlock(Known, Credited, t, ledger[t], block[t])
      BY <2>1, <3>1, SMTT(30) DEF IInv, BlocksSound
    <3>3. SoundBlock(Known', Credited', t, ledger[t], block[t])
      BY <1>8, <3>2, SoundGrows, Zenon DEF SoundBlock
    <3> QED
      BY <3>1, <3>3
  <2> QED
    BY <2>1 DEF BlocksSound
<1>12. ASSUME NEW m \in Message
       PROVE  /\ net'[m] \in Nat
              /\ net'[m] > 0 => SoundTx(Known', Credited', Addressee(m), m)
  <2>1. net[m] \in Nat /\ (net[m] > 0 => SoundTx(Known', Credited', Addressee(m), m))
    BY <1>4, <1>8, SoundGrows, Zenon DEF Shaped, IInv, NetSound
  <2>2. CASE m.type = "Completed"
    <3>1. PICK c : c = Completions(B.done, m.id)
      BY SMTT(30)
    <3>2. /\ c \in Nat
          /\ c > 0 => FallbackTx(m.id) \in Elems(B.done)
      BY <1>6, <3>1, CopiesFacts DEF Completions
    <3>3. ASSUME c > 0
          PROVE  SoundTx(Known', Credited', Addressee(m), m)
      <4>1. m.id \in B.state.credited
        BY <1>6, <3>2, <3>3, SMTT(30) DEF FallbackTx
      <4>2. Dst(m.id) = s /\ m.id \in Intents
        BY <1>6, <2>2, <4>1, MessageForms DEF SoundState
      <4>3. m.id \in Credited'
        BY <1>7, <4>1, <4>2 DEF Credited
      <4> QED
        BY <2>2, <4>3 DEF SoundTx, Addressee
    <3>4. net'[m] = net[m] + c
      BY <1>3, <2>2, <3>1
    <3> QED
      BY <2>1, <3>2, <3>3, <3>4
  <2>3. CASE m.type = "Fallback"
    <3>1. ASSUME m.id \in T
          PROVE  SoundTx(Known', Credited', Addressee(m), m)
      <4>1. m.id \in Intents /\ B.state.outbox[m.id] = "Pending"
        BY <1>1, <1>2, <3>1 DEF ToSend
      <4>2. Src(m.id) = s
        BY <1>6, <4>1 DEF SoundState
      <4>3. m.id \in Known'
        BY <1>7, <4>1, <4>2 DEF Known
      <4> QED
        BY <2>3, <4>3 DEF SoundTx, Addressee
    <3>2. net'[m] = net[m] + (IF m.id \in T THEN 1 ELSE 0)
      BY <1>3, <2>3
    <3> QED
      BY <2>1, <3>1, <3>2
  <2> QED
    BY <2>2, <2>3, MessageForms
<1>13. NetSound'
  BY <1>12 DEF NetSound
<1>14. Shaped'
  <2>1. net' \in [Message -> Nat]
    BY <1>3, <1>12
  <2> QED
    BY <1>3, <1>4, <2>1 DEF Shaped
<1> QED
  BY <1>9, <1>10, <1>11, <1>13, <1>14 DEF IInv

\* Every step preserves the invariant.
LEMMA NextInv == IInv /\ [Next]_vars => IInv'
<1> SUFFICES ASSUME IInv, [Next]_vars
             PROVE  IInv'
  OBVIOUS
<1>1. CASE UNCHANGED vars
  BY <1>1, QuietInv DEF vars, inbox, delivery, IInv, Shaped
<1>2. ASSUME NEW s \in Shards, RejectProposal(s)
      PROVE  IInv'
  BY <1>2, QuietInv, SMTT(30) DEF RejectProposal, inbox, delivery, IInv, Shaped
<1> QED
  BY <1>1, <1>2, HandlerInv, BuildInv, ExecuteInv, CommitInv DEF Next

\* The invariant gives the two properties.
LEMMA InvImplies == IInv => PaidOnce /\ CreditBacked
<1> SUFFICES ASSUME IInv, NEW i \in Intents
             PROVE  /\ ledger[Dst(i)].received[i] = Owed(ledger[Dst(i)], i)
                    /\ i \in ledger[Dst(i)].credited
                         => ledger[Src(i)].outbox[i] # "Unknown"
                    /\ ledger[Src(i)].outbox[i] = "Completed"
                         => i \in ledger[Dst(i)].credited
  BY DEF PaidOnce, CreditBacked, Owed, Settled
<1>1. Src(i) \in Shards /\ Dst(i) \in Shards
  BY IntentFacts
<1>2. /\ SoundState(Known, Credited, Src(i), ledger[Src(i)])
      /\ SoundState(Known, Credited, Dst(i), ledger[Dst(i)])
  BY <1>1 DEF IInv, LedgersSound
<1> QED
  BY <1>2 DEF SoundState, Known, Credited

\* The strengthened invariant holds throughout.
THEOREM Invariance == Spec => []IInv
  BY InitInv, NextInv, PTL DEF Spec

\* Recipients are paid every part of an intent at most once, however often
\* the source leader repeats a fallback (fallback/executor.go, publisher.go).
THEOREM EveryPartPaidOnce == Spec => []PaidOnce
  BY Invariance, InvImplies, PTL

\* A credit at the destination is always covered by an outbox entry of the
\* source, and an entry is only closed after the credit (fallback/outbox.go).
THEOREM CreditsBacked == Spec => []CreditBacked
  BY Invariance, InvImplies, PTL
=============================================================================
