----------------------- MODULE NettingLedgerRefinement -----------------------
(***************************************************************************)
(* The netting ledger implements PaymentService, for every set of shards,  *)
(* intents and batches.                                                    *)
(*                                                                         *)
(* What a recipient has received is fixed by the batches its shard has     *)
(* executed and the fallbacks it has credited (IInv), and both only grow.  *)
(* That a payout has a reservation behind it needs more: an executed batch *)
(* was finalized, a finalized batch has all its intents reserved, and an   *)
(* outbox entry belongs to a reserved intent (RInv).                       *)
(***************************************************************************)
EXTENDS NettingLedgerProofs

Taken == {i \in Intents : ledger[Src(i)].status[i] # "Unknown"}

Backed(F, L) ==
    /\ L.status \in [Intents -> {"Unknown", "Reserved", "Consumed"}]
    /\ L.executed \subseteq F
    /\ \A i \in Intents : L.outbox[i] # "Unknown" => L.status[i] # "Unknown"

Grown(L, M) ==
    /\ \A i \in Intents : L.status[i] # "Unknown" => M.status[i] # "Unknown"
    /\ L.executed \subseteq M.executed
    /\ L.credited \subseteq M.credited

RootsFinal ==
    /\ finalized \subseteq Batches
    /\ DOMAIN confirmedRoots = Shards
    /\ \A s \in Shards : confirmedRoots[s] \subseteq finalized
BatchesTaken == \A b \in finalized : Batch[b] \subseteq Taken
LedgersBacked == \A s \in Shards : Backed(finalized, ledger[s])
BlocksBacked ==
    \A s \in Shards : block[s] # NoBlock =>
        Backed(finalized, block[s].state) /\ Grown(ledger[s], block[s].state)

RInv == RootsFinal /\ BatchesTaken /\ LedgersBacked /\ BlocksBacked

\* What the two invariants say of the amounts received.
ReceivedBacked ==
    \A i \in Intents :
      LET L == ledger[Dst(i)]
      IN  /\ L.received[i] \in Nat
          /\ L.received[i] = Owed(L, i)
          /\ L.received[i] <= Payment[i].Amount
          /\ L.received[i] # 0 => i \in Taken

-----------------------------------------------------------------------------
\* Executing a transaction of a block: a settlement needs its root, a
\* completion its outbox entry.
LEMMA ExecuteBacked ==
    ASSUME NEW F, NEW s, NEW L, Shape(L), Backed(F, L), NEW tx \in Tx,
           tx.type = "Settlement" => tx.id \in F,
           tx.type = "Completed" => L.outbox[tx.id] # "Unknown"
    PROVE  LET M == txExecute(L, s, tx)
           IN  Backed(F, M) /\ Grown(L, M)
<1>1. CASE tx.type = "Intent" /\ tx.id \in Intents
  <2>1. PICK M : M = Reserve(L, tx.id)
    OBVIOUS
  <2>2. /\ M.status = [L.status EXCEPT ![tx.id] = "Reserved"]
        /\ M.executed = L.executed
        /\ M.outbox = L.outbox
        /\ M.credited = L.credited
    BY <2>1 DEF Shape, Reserve
  <2>3. Backed(F, M) /\ Grown(L, M)
    BY <1>1, <2>2 DEF Backed, Grown
  <2> QED
    BY <1>1, <2>1, <2>3 DEF txExecute
<1>2. CASE tx.type = "Settlement" /\ tx.id \in Batches
  <2>1. PICK b : b = tx.id
    OBVIOUS
  <2>2. PICK M : M = Settle(L, s, b)
    OBVIOUS
  <2>3. CASE b \in L.executed
    BY <1>2, <2>1, <2>3 DEF txExecute, Settle, Grown
  <2>4. CASE b \notin L.executed
    <3>1. /\ M.status = [i \in Intents |-> IF i \in Outgoing(s, b) THEN "Consumed"
                                                                   ELSE L.status[i]]
          /\ M.executed = L.executed \cup {b}
          /\ M.outbox = [i \in Intents |-> IF i \in Created(s, b) THEN "Pending"
                                                                  ELSE L.outbox[i]]
          /\ M.credited = L.credited
      BY <2>2, <2>4 DEF Shape, Settle
    <3>2. Created(s, b) \subseteq Outgoing(s, b)
      BY DEF Created
    <3>3. Backed(F, M) /\ Grown(L, M)
      BY <1>2, <2>1, <3>1, <3>2 DEF Backed, Grown
    <3> QED
      BY <1>2, <2>1, <2>2, <3>3 DEF txExecute
  <2> QED
    BY <2>3, <2>4
<1>3. CASE tx.type = "Fallback" /\ tx.id \in Intents
  <2>1. PICK M : M = ExecuteCredit(L, tx.id)
    OBVIOUS
  <2>2. /\ M.status = L.status
        /\ M.executed = L.executed
        /\ M.outbox = L.outbox
        /\ L.credited \subseteq M.credited
    BY <2>1 DEF Shape, ExecuteCredit
  <2>3. Backed(F, M) /\ Grown(L, M)
    BY <2>2 DEF Backed, Grown
  <2> QED
    BY <1>3, <2>1, <2>3 DEF txExecute
<1>4. CASE tx.type = "Completed" /\ tx.id \in Intents
  <2>1. PICK M : M = [L EXCEPT !.outbox[tx.id] = "Completed"]
    BY Zenon
  <2>2. /\ M.status = L.status
        /\ M.executed = L.executed
        /\ M.outbox = [L.outbox EXCEPT ![tx.id] = "Completed"]
        /\ M.credited = L.credited
    BY <2>1 DEF Shape
  <2>3. L.outbox \in [Intents -> {"Unknown", "Pending", "Completed"}]
    BY DEF Shape
  <2>4. Backed(F, M) /\ Grown(L, M)
    BY <1>4, <2>2, <2>3 DEF Backed, Grown
  <2> QED
    BY <1>4, <2>1, <2>4 DEF txExecute
<1> QED
  BY <1>1, <1>2, <1>3, <1>4, TxForms

-----------------------------------------------------------------------------
\* Nothing is executed or finalized at the start.
LEMMA InitBacked == Init => RInv
<1> SUFFICES ASSUME Init PROVE RInv
  OBVIOUS
<1>1. RootsFinal /\ BatchesTaken /\ BlocksBacked
  BY DEF Init, RootsFinal, BatchesTaken, BlocksBacked
<1>2. ASSUME NEW s \in Shards PROVE Backed(finalized, ledger[s])
  <2>1. /\ ledger[s].status = [i \in Intents |-> "Unknown"]
        /\ ledger[s].executed = {}
        /\ ledger[s].outbox = [i \in Intents |-> "Unknown"]
    BY <1>2 DEF Init
  <2> QED
    BY <2>1 DEF Backed
<1> QED
  BY <1>1, <1>2 DEF RInv, LedgersBacked

\* The steps that leave the ledgers, the blocks and the roots of leaders alone.
LEMMA QuietBacked ==
    ASSUME RInv, UNCHANGED <<ledger, block, finalized, confirmedRoots>>
    PROVE  RInv'
  BY DEF RInv, RootsFinal, BatchesTaken, LedgersBacked, BlocksBacked, Taken

\* The Beacon finalizes a batch whose intents are reserved.
LEMMA FinalizeBacked ==
    ASSUME RInv, NEW b \in Batches, Finalize(b)
    PROVE  RInv'
<1>1. /\ UNCHANGED <<ledger, block, confirmedRoots>>
      /\ finalized' = finalized \cup {b}
      /\ \A i \in Batch[b] : ledger[Src(i)].status[i] = "Reserved"
  BY DEF Finalize, inbox
<1>2. Batch[b] \subseteq Taken /\ Taken' = Taken
  BY <1>1, BatchAssumption DEF Taken
<1>3. RootsFinal' /\ BatchesTaken'
  BY <1>1, <1>2 DEF RInv, RootsFinal, BatchesTaken
<1>4. \A L : Backed(finalized, L) => Backed(finalized', L)
  BY <1>1 DEF Backed
<1>5. LedgersBacked' /\ BlocksBacked'
  BY <1>1, <1>4 DEF RInv, LedgersBacked, BlocksBacked
<1> QED
  BY <1>3, <1>5 DEF RInv

\* A leader learns the root of a finalized batch.
LEMMA ConfirmBacked ==
    ASSUME RInv, NEW s \in Shards, NEW b \in Batches, Confirm(s, b)
    PROVE  RInv'
<1>1. /\ UNCHANGED <<ledger, block, finalized>>
      /\ b \in finalized
      /\ confirmedRoots' = [confirmedRoots EXCEPT ![s] = confirmedRoots[s] \cup {b}]
  BY DEF Confirm
<1>2. RootsFinal'
  BY <1>1 DEF RInv, RootsFinal
<1> QED
  BY <1>1, <1>2 DEF RInv, BatchesTaken, LedgersBacked, BlocksBacked, Taken

\* A block starts from the committed state.
LEMMA BuildBacked ==
    ASSUME IInv, RInv, NEW s \in Shards, BuildProposal(s)
    PROVE  RInv'
<1>1. PICK D : block' = [block EXCEPT ![s] = D] /\ D.state = ledger[s]
  <2>1. PICK q, n : block' = [block EXCEPT ![s] = [todo |-> SubSeq(q, 1, n), done |-> <<>>,
                                                   state |-> ledger[s]]]
    BY Zenon DEF BuildProposal
  <2>2. [todo |-> SubSeq(q, 1, n), done |-> <<>>, state |-> ledger[s]].state = ledger[s]
    OBVIOUS
  <2> QED
    BY <2>1, <2>2, Zenon
<1>2. UNCHANGED <<ledger, finalized, confirmedRoots>> /\ DOMAIN block = Shards
  BY DEF BuildProposal, inbox, IInv, Shaped
<1>3. Backed(finalized, D.state) /\ Grown(ledger[s], D.state)
  BY <1>1 DEF RInv, LedgersBacked, Grown
<1>4. BlocksBacked'
  BY <1>1, <1>2, <1>3 DEF RInv, BlocksBacked
<1> QED
  BY <1>2, <1>4 DEF RInv, RootsFinal, BatchesTaken, LedgersBacked, Taken

\* A block executes its next transaction, or drops it, or fails.
LEMMA ExecuteTxBacked ==
    ASSUME IInv, RInv, NEW s \in Shards, ExecuteTx(s)
    PROVE  RInv'
<1>1. PICK B : B = block[s]
  OBVIOUS
<1>2. PICK tx : tx = Head(B.todo)
  OBVIOUS
<1>3. UNCHANGED <<ledger, finalized, confirmedRoots>> /\ DOMAIN block = Shards
  BY DEF ExecuteTx, inbox, IInv, Shaped
<1>4. B # NoBlock /\ B.todo # <<>>
  BY <1>1 DEF ExecuteTx, Building
<1>5. SoundBlock(Known, Credited, s, ledger[s], B)
  BY <1>1, <1>4 DEF IInv, BlocksSound
<1>6. /\ B.todo \in Seq(Tx)
      /\ B \in [todo : Seq(Tx), done : Seq(Tx), state : {B.state}]
      /\ Shape(B.state)
      /\ tx \in Tx
  BY <1>2, <1>4, <1>5, ElemsFacts DEF SoundBlock, SoundState
<1>7. Backed(finalized, B.state) /\ Grown(ledger[s], B.state)
  BY <1>1, <1>4 DEF RInv, BlocksBacked
<1>8. PICK D : /\ block' = [block EXCEPT ![s] = D]
               /\ \/ /\ CanExecute(B.state, s, tx)
                     /\ D = [todo |-> Tail(B.todo), done |-> Append(B.done, tx),
                             state |-> txExecute(B.state, s, tx)]
                  \/ D = [B EXCEPT !.todo = Tail(B.todo)]
                  \/ D = NoBlock
  <2>1. CASE CanExecute(B.state, s, tx)
    BY <1>1, <1>2, <2>1, Zenon DEF ExecuteTx
  <2>2. CASE ~CanExecute(B.state, s, tx) /\ tx.type = "Intent"
    BY <1>1, <1>2, <2>2, Zenon DEF ExecuteTx
  <2>3. CASE ~CanExecute(B.state, s, tx) /\ tx.type # "Intent"
    BY <1>1, <1>2, <2>3, Zenon DEF ExecuteTx
  <2> QED
    BY <2>1, <2>2, <2>3, Zenon
<1>9. ASSUME D # NoBlock
      PROVE  Backed(finalized, D.state) /\ Grown(ledger[s], D.state)
  <2>1. CASE CanExecute(B.state, s, tx) /\ D.state = txExecute(B.state, s, tx)
    <3>1. tx.type = "Settlement" => tx.id \in finalized
      BY <2>1 DEF CanExecute, RootOf, RInv, RootsFinal
    <3>2. tx.type = "Completed" => B.state.outbox[tx.id] # "Unknown"
      BY <2>1 DEF CanExecute
    <3>3. Backed(finalized, D.state) /\ Grown(B.state, D.state)
      BY <1>6, <1>7, <2>1, <3>1, <3>2, ExecuteBacked
    <3> QED
      BY <1>7, <3>3 DEF Grown
  <2>2. CASE D = [B EXCEPT !.todo = Tail(B.todo)]
    <3>1. D.state = B.state
      BY <1>6, <2>2, Zenon
    <3> QED
      BY <1>7, <3>1
  <2> QED
    BY <1>8, <1>9, <2>1, <2>2
<1>10. BlocksBacked'
  BY <1>3, <1>8, <1>9 DEF RInv, BlocksBacked
<1> QED
  BY <1>3, <1>10 DEF RInv, RootsFinal, BatchesTaken, LedgersBacked, Taken

\* A block is committed.
LEMMA CommitBacked ==
    ASSUME IInv, RInv, NEW s \in Shards, CommitAndDeliver(s)
    PROVE  /\ RInv'
           /\ \A t \in Shards : Grown(ledger[t], ledger'[t])
<1>1. /\ ledger' = [ledger EXCEPT ![s] = block[s].state]
      /\ block' = [block EXCEPT ![s] = NoBlock]
      /\ UNCHANGED <<finalized, confirmedRoots>>
      /\ block[s] # NoBlock
  BY DEF CommitAndDeliver, Accepted, inbox
<1>2. DOMAIN ledger = Shards /\ DOMAIN block = Shards
  BY DEF IInv, Shaped
<1>3. Backed(finalized, block[s].state) /\ Grown(ledger[s], block[s].state)
  BY <1>1 DEF RInv, BlocksBacked
<1>4. \A t \in Shards : ledger'[t] = IF t = s THEN block[s].state ELSE ledger[t]
  BY <1>1, <1>2
<1>5. \A t \in Shards : Grown(ledger[t], ledger'[t])
  BY <1>3, <1>4 DEF Grown
<1>6. \A t \in Shards : Backed(finalized, ledger'[t])
  BY <1>3, <1>4 DEF RInv, LedgersBacked
<1>7. Taken \subseteq Taken'
  BY <1>5, IntentFacts DEF Taken, Grown
<1>8. RootsFinal' /\ BatchesTaken' /\ LedgersBacked'
  BY <1>1, <1>6, <1>7 DEF RInv, RootsFinal, BatchesTaken, LedgersBacked
<1>9. ASSUME NEW t \in Shards, block'[t] # NoBlock
      PROVE  Backed(finalized, block'[t].state) /\ Grown(ledger'[t], block'[t].state)
  <2>1. t # s /\ block'[t] = block[t] /\ ledger'[t] = ledger[t]
    BY <1>1, <1>2, <1>4, <1>9
  <2> QED
    BY <1>9, <2>1 DEF RInv, BlocksBacked
<1>10. BlocksBacked'
  BY <1>1, <1>9 DEF BlocksBacked
<1> QED
  BY <1>5, <1>8, <1>10 DEF RInv

\* Every step keeps RInv, and only a commit changes the ledgers.
LEMMA NextBacked ==
    ASSUME IInv, RInv, [Next]_vars
    PROVE  /\ RInv'
           /\ UNCHANGED ledger \/ \A t \in Shards : Grown(ledger[t], ledger'[t])
<1> USE DEF inbox, delivery
<1>1. CASE UNCHANGED vars
  BY <1>1, QuietBacked DEF vars
<1>2. ASSUME NEW i \in Intents, SubmitIntent(i) \/ Elapse(i)
      PROVE  RInv' /\ UNCHANGED ledger
  BY <1>2, QuietBacked DEF SubmitIntent, Elapse
<1>3. ASSUME NEW b \in Batches, Finalize(b)
      PROVE  RInv' /\ UNCHANGED ledger
  BY <1>3, FinalizeBacked DEF Finalize
<1>4. ASSUME NEW s \in Shards, NEW b \in Batches, Confirm(s, b)
      PROVE  RInv' /\ UNCHANGED ledger
  BY <1>4, ConfirmBacked, Zenon DEF Confirm
<1>5. ASSUME NEW s \in Shards, NEW b \in Batches, FollowersConfirm(s, b) \/ AddPackage(s, b)
      PROVE  RInv' /\ UNCHANGED ledger
  BY <1>5, QuietBacked DEF FollowersConfirm, AddPackage
<1>6. ASSUME NEW m \in Message, HandleFallback(m) \/ Lose(m)
      PROVE  RInv' /\ UNCHANGED ledger
  BY <1>6, QuietBacked DEF HandleFallback, Lose
<1>7. ASSUME NEW s \in Shards, RejectProposal(s)
      PROVE  RInv' /\ UNCHANGED ledger
  BY <1>7, QuietBacked DEF RejectProposal
<1>8. ASSUME NEW s \in Shards, BuildProposal(s)
      PROVE  RInv' /\ UNCHANGED ledger
  BY <1>8, BuildBacked, Zenon DEF BuildProposal
<1>9. ASSUME NEW s \in Shards, ExecuteTx(s)
      PROVE  RInv' /\ UNCHANGED ledger
  BY <1>9, ExecuteTxBacked, Zenon DEF ExecuteTx
<1> QED
  BY <1>1, <1>2, <1>3, <1>4, <1>5, <1>6, <1>7, <1>8, <1>9, CommitBacked DEF Next

\* Only reserved intents have been paid out, and at most their amounts.
LEMMA ReceivedFacts == IInv /\ RInv => ReceivedBacked
<1> SUFFICES ASSUME IInv, RInv, NEW i \in Intents
             PROVE  LET L == ledger[Dst(i)]
                    IN  /\ L.received[i] \in Nat
                        /\ L.received[i] = Owed(L, i)
                        /\ L.received[i] <= Payment[i].Amount
                        /\ L.received[i] # 0 => i \in Taken
  BY DEF ReceivedBacked
<1>1. Src(i) \in Shards /\ Dst(i) \in Shards /\ Matched[i] \in Nat /\ Fallback(i) \in Nat
  BY IntentFacts
<1>2. PICK L : L = ledger[Dst(i)]
  OBVIOUS
<1>3. SoundState(Known, Credited, Dst(i), L)
  BY <1>1, <1>2 DEF IInv, LedgersSound
<1>4. L.received[i] \in Nat /\ L.received[i] = Owed(L, i)
  BY <1>3 DEF SoundState, Shape
<1>5. Payment[i].Amount \in Nat /\ Matched[i] + Fallback(i) = Payment[i].Amount
  BY <1>1, PaymentAssumption DEF Fallback, PaymentType
<1>6. Owed(L, i) <= Payment[i].Amount
  BY <1>1, <1>5 DEF Owed
<1>7. Owed(L, i) # 0 => Settled(L, i) \/ i \in L.credited
  BY DEF Owed
<1>8. Settled(L, i) => i \in Taken
  BY <1>1, <1>2 DEF Settled, RInv, LedgersBacked, Backed, BatchesTaken
<1>9. i \in L.credited => i \in Taken
  <2>1. i \in L.credited => ledger[Src(i)].outbox[i] # "Unknown"
    BY <1>3 DEF SoundState, Known
  <2> QED
    BY <1>1, <2>1 DEF Taken, RInv, LedgersBacked, Backed
<1> QED
  BY <1>2, <1>4, <1>6, <1>7, <1>8, <1>9

\* A ledger that grows pays out no less.
LEMMA OwedGrows ==
    ASSUME NEW L, NEW M, Grown(L, M), NEW i \in Intents
    PROVE  Owed(L, i) <= Owed(M, i)
<1>1. Settled(L, i) => Settled(M, i)
  BY DEF Settled, Grown
<1>2. i \in L.credited => i \in M.credited
  BY DEF Grown
<1> QED
  BY <1>1, <1>2, IntentFacts DEF Owed

-----------------------------------------------------------------------------
\* The refinement, step by step: the initial ledgers hold no payment.
LEMMA InitService == Init => Service!Init
<1> SUFFICES ASSUME Init PROVE Service!Init
  OBVIOUS
<1>1. ASSUME NEW i \in Intents
      PROVE  ledger[Src(i)].status[i] = "Unknown" /\ ledger[Dst(i)].received[i] = 0
  BY IntentFacts DEF Init
<1> QED
  BY <1>1 DEF Service!Init

\* A commit is a block of the service, every other step stutters.
LEMMA NextService ==
    ASSUME IInv, RInv, ReceivedBacked, ReceivedBacked', [Next]_vars
    PROVE  [Service!Block]_(Service!pvars)
<1>1. CASE UNCHANGED ledger
  BY <1>1 DEF Service!pvars
<1>2. CASE \A t \in Shards : Grown(ledger[t], ledger'[t])
  <2>1. Taken \subseteq Taken'
    BY <1>2, IntentFacts DEF Taken, Grown
  <2>2. ASSUME NEW i \in Intents
        PROVE  /\ ledger[Dst(i)].received[i] \in Nat
               /\ ledger'[Dst(i)].received[i] \in Nat
               /\ ledger[Dst(i)].received[i] <= ledger'[Dst(i)].received[i]
               /\ ledger'[Dst(i)].received[i] <= Payment[i].Amount
               /\ ledger'[Dst(i)].received[i] # ledger[Dst(i)].received[i] => i \in Taken'
    <3>1. PICK u, v : /\ u = ledger[Dst(i)].received[i]
                      /\ v = ledger'[Dst(i)].received[i]
      OBVIOUS
    <3>2. u \in Nat /\ u = Owed(ledger[Dst(i)], i)
      BY <3>1 DEF ReceivedBacked
    <3>3. /\ v \in Nat
          /\ v = Owed(ledger'[Dst(i)], i)
          /\ v <= Payment[i].Amount
          /\ v # 0 => i \in Taken'
      BY <3>1 DEF ReceivedBacked, Owed, Settled
    <3>4. u <= v
      BY <1>2, <3>2, <3>3, IntentFacts, OwedGrows
    <3>5. v # u => v # 0
      BY <3>2, <3>3, <3>4
    <3> QED
      BY <3>1, <3>2, <3>3, <3>4, <3>5
  <2> QED
    BY <2>1, <2>2 DEF Service!Block, Taken
<1> QED
  BY <1>1, <1>2, NextBacked

\* Payouts have a reservation behind them, throughout.
THEOREM BackedInvariance == Spec => []RInv
  BY InitBacked, NextBacked, Invariance, PTL DEF Spec

\* Netting implements PaymentService: an intent is paid out, by settlements and
\* fallbacks together, only after its reservation and at most its amount
\* (registry.Reserve, Executor.Execute, ExecuteCredit).
THEOREM NettingPaysAsPromised == Spec => PaysAsPromised
<1>1. /\ IInv /\ RInv
      /\ ReceivedBacked /\ ReceivedBacked'
      /\ [Next]_vars
      => [Service!Block]_(Service!pvars)
  BY NextService
<1> QED
  BY <1>1, InitService, ReceivedFacts, Invariance, BackedInvariance, PTL
     DEF Spec, PaysAsPromised, Service!Spec
=============================================================================
