----------------------- MODULE WindowManagerProofs -----------------------
(***************************************************************************)
(* Proofs about WindowManager for every set of shards, intents, receipts   *)
(* and every batch size.                                                   *)
(*                                                                         *)
(* The invariant is stated over explicit streams, pending intents and      *)
(* opened time, because AddReceipt computes those first and TryClose then  *)
(* either keeps them or seals a window from them: lemma CloseInvariant     *)
(* treats that last step once for the four operations that end with it.    *)
(***************************************************************************)
EXTENDS WindowManager, TLAPS

\* The hash of the block that the last sealed cut of shard s ends with.
LastHash(s) ==
  IF sealed = <<>> THEN Checkpoint[s].BlockHash
  ELSE sealed[Len(sealed)].Cuts[s].EndBlockHash

\* One shard's stream; `running` says that its advanceStream loop is active.
StreamOK(s, strm, last, lastHash, running) ==
  /\ strm.NextExpectedHeight = strm.ContinuousHeight + 1
  /\ last <= strm.ContinuousHeight
  /\ <<strm.ContinuousHeight, strm.ContinuousHash>> \in strm.SeenHashes
  /\ <<last, lastHash>> \in strm.SeenHashes
  /\ \A p, q \in strm.SeenHashes : p[1] = q[1] => p = q
  /\ \A h \in last + 1 .. strm.ContinuousHeight :
       \E r \in strm.UnassignedBlocks : r.Height = h
  /\ \A r \in strm.UnassignedBlocks :
       /\ r.ShardID = s
       /\ last < r.Height /\ r.Height <= strm.ContinuousHeight
       /\ <<r.Height, r.BlockHash>> \in strm.SeenHashes
       /\ <<r.Height - 1, r.ParentHash>> \in strm.SeenHashes
  /\ \A r, q \in strm.UnassignedBlocks : r.Height = q.Height => r = q
  /\ \A r \in strm.BufferedBlocks :
       /\ r.ShardID = s
       /\ r.Height >= strm.NextExpectedHeight
       /\ running \/ r.Height # strm.NextExpectedHeight
       /\ <<r.Height, r.BlockHash>> \in strm.SeenHashes
  /\ \A r, q \in strm.BufferedBlocks : r.Height = q.Height => r = q

StreamsOK(strms, adv) ==
  \A s \in Shards : StreamOK(s, strms[s], lastAssigned[s], LastHash(s), adv = s)

\* The open window holds exactly the intents of the unassigned blocks.
PendingOK(strms, pend, opened) ==
  /\ \A s, z \in Shards :
       \A r \in strms[s].UnassignedBlocks, q \in strms[z].UnassignedBlocks :
         r # q => r.Intents \cap q.Intents = {}
  /\ pend = UNION {r.Intents : r \in UNION {strms[s].UnassignedBlocks : s \in Shards}}
  /\ \A i \in pend : assigned[i] = 0
  /\ (pend = {}) <=> (opened = "nil")

\* What has been sealed: CutsContiguous, and who is in which window.
SealedOK ==
  /\ nextWindowID = Len(sealed) + 1
  /\ \A i \in Intents : assigned[i] < nextWindowID
  /\ \A k \in 1 .. Len(sealed) : sealed[k].Intents = {i \in Intents : assigned[i] = k}
  /\ Len(sealed) = 0 => \A s \in Shards : lastAssigned[s] = Checkpoint[s].Height
  /\ CutsContiguous

FrozenOK ==
  /\ Len(frozen) < nextWindowID
  /\ \A k \in 1 .. Len(frozen) :
       frozen[k].WindowID = nextWindowID - 1 - Len(frozen) + k

IInv ==
  /\ TypeOK
  /\ StreamsOK(streams, advancing)
  /\ PendingOK(streams, pending, openedAt)
  /\ SealedOK
  /\ CutsCovered
  /\ FrozenOK
-----------------------------------------------------------------------------
OpenedValues == {"nil", "running", "elapsed"}

\* The initial state satisfies the invariant.
LEMMA InitInvariant == Init => IInv
<1> SUFFICES ASSUME Init PROVE IInv
  OBVIOUS
<1>1. TypeOK
  BY CheckpointAssumption DEF Init, TypeOK, StreamType
<1>2. StreamsOK(streams, advancing)
  <2> SUFFICES ASSUME NEW s \in Shards
               PROVE  StreamOK(s, streams[s], lastAssigned[s], LastHash(s), advancing = s)
    BY DEF StreamsOK
  <2>1. /\ Checkpoint[s].Height \in Nat
        /\ LastHash(s) = Checkpoint[s].BlockHash
        /\ lastAssigned[s] = Checkpoint[s].Height
    BY CheckpointAssumption DEF Init, LastHash
  <2>2. streams[s] =
          [NextExpectedHeight |-> Checkpoint[s].Height + 1,
           ContinuousHeight   |-> Checkpoint[s].Height,
           ContinuousHash     |-> Checkpoint[s].BlockHash,
           BufferedBlocks     |-> {},
           UnassignedBlocks   |-> {},
           SeenHashes         |-> {<<Checkpoint[s].Height, Checkpoint[s].BlockHash>>}]
    BY DEF Init
  <2> QED
    BY <2>1, <2>2 DEF StreamOK
<1>3. PendingOK(streams, pending, openedAt)
  BY DEF Init, PendingOK
<1>4. SealedOK /\ CutsCovered /\ FrozenOK
  BY DEF Init, SealedOK, CutsContiguous, CutsCovered, FrozenOK
<1> QED
  BY <1>1, <1>2, <1>3, <1>4 DEF IInv

\* The window that seal builds has its type.
LEMMA NewWindowType ==
  ASSUME TypeOK, NEW strms \in [Shards -> StreamType], NEW pend \in SUBSET Intents
  PROVE  /\ NewWindow(strms, pend) \in WindowType
         /\ \A s \in Shards : InCut(strms[s], lastAssigned[s]) \subseteq Receipts
<1>1. \A s \in Shards : InCut(strms[s], lastAssigned[s]) \subseteq Receipts
  BY DEF InCut, StreamType
<1>2. UNION {InCut(strms[s], lastAssigned[s]) : s \in Shards} \in SUBSET Receipts
  BY <1>1
<1>3. [s \in Shards |->
        [PreviousHeight |-> lastAssigned[s],
         EndHeight      |-> strms[s].ContinuousHeight,
         EndBlockHash   |-> strms[s].ContinuousHash]] \in [Shards -> CutType]
  BY DEF TypeOK, StreamType, CutType
<1> QED
  BY <1>1, <1>2, <1>3 DEF NewWindow, WindowType, TypeOK

\* TryClose preserves the types.
LEMMA CloseType ==
  ASSUME TypeOK, NEW strms \in [Shards -> StreamType], NEW pend \in SUBSET Intents,
         NEW opened \in OpenedValues, TryCloseWith(strms, pend, opened),
         advancing' \in Shards \cup {NoShard}
  PROVE  TypeOK'
<1>1. CASE Seal(strms, pend)
  <2>1. NewWindow(strms, pend) \in WindowType
    BY NewWindowType
  <2>2. sealed' \in Seq(WindowType) /\ frozen' \in Seq(WindowType)
    BY <1>1, <2>1 DEF Seal, TypeOK
  <2>3. streams' \in [Shards -> StreamType]
    BY <1>1, NewWindowType, ZenonT(40) DEF Seal, StreamType
  <2>4. lastAssigned' \in [Shards -> Nat] /\ assigned' \in [Intents -> Nat]
    BY <1>1, Zenon DEF Seal, TypeOK, StreamType
  <2> QED
    BY <1>1, <2>2, <2>3, <2>4 DEF Seal, TypeOK
<1>2. CASE ~ReadyToClose(pend, opened)
  BY <1>2 DEF TryCloseWith, TypeOK, OpenedValues
<1> QED
  BY <1>1, <1>2 DEF TryCloseWith

\* A window sealed from sound streams leaves sound streams.
LEMMA CloseStreams ==
  ASSUME TypeOK, NEW strms \in [Shards -> StreamType], NEW pend \in SUBSET Intents,
         NEW opened \in OpenedValues, NEW adv,
         StreamsOK(strms, adv), TryCloseWith(strms, pend, opened)
  PROVE  \A s \in Shards :
           StreamOK(s, streams'[s], lastAssigned'[s], LastHash(s)', adv = s)
<1> SUFFICES ASSUME NEW s \in Shards
             PROVE  StreamOK(s, streams'[s], lastAssigned'[s], LastHash(s)', adv = s)
  OBVIOUS
<1>1. StreamOK(s, strms[s], lastAssigned[s], LastHash(s), adv = s)
  BY DEF StreamsOK
<1>2. CASE ~ReadyToClose(pend, opened)
  <2>1. LastHash(s)' = LastHash(s) /\ streams'[s] = strms[s] /\ lastAssigned'[s] = lastAssigned[s]
    BY <1>2 DEF TryCloseWith, LastHash
  <2> QED
    BY <1>1, <2>1
<1>3. CASE Seal(strms, pend)
  <2> DEFINE strm == strms[s]
  <2>1. strm \in StreamType /\ lastAssigned[s] \in Nat
    BY DEF TypeOK
  <2>2. InCut(strm, lastAssigned[s]) = strm.UnassignedBlocks
    BY <1>1, <2>1, Zenon DEF InCut, StreamOK, StreamType
  <2>3. streams'[s] = [strm EXCEPT !.UnassignedBlocks = {}]
    BY <1>3, <2>1, <2>2, ZenonT(40) DEF Seal, StreamType
  <2>4. lastAssigned'[s] = strm.ContinuousHeight
    BY <1>3 DEF Seal
  <2>5. LastHash(s)' = strm.ContinuousHash
    <3>1. NewWindow(strms, pend) \in WindowType
      BY NewWindowType
    <3>2. /\ sealed' # <<>>
          /\ sealed'[Len(sealed')] = NewWindow(strms, pend)
      BY <1>3, <3>1, SMTT(30) DEF Seal, TypeOK
    <3> QED
      BY <3>2 DEF LastHash, NewWindow
  <2> QED
    BY <1>1, <2>1, <2>3, <2>4, <2>5 DEF StreamOK, StreamType
<1> QED
  BY <1>2, <1>3 DEF TryCloseWith

\* TryClose keeps the open window equal to the unassigned blocks.
LEMMA ClosePending ==
  ASSUME TypeOK, NEW strms \in [Shards -> StreamType], NEW pend \in SUBSET Intents,
         NEW opened \in OpenedValues, NEW adv,
         StreamsOK(strms, adv), PendingOK(strms, pend, opened),
         TryCloseWith(strms, pend, opened)
  PROVE  PendingOK(streams, pending, openedAt)'
<1>1. CASE ~ReadyToClose(pend, opened)
  BY <1>1 DEF TryCloseWith, PendingOK
<1>2. CASE Seal(strms, pend)
  <2>1. \A s \in Shards : streams'[s].UnassignedBlocks = {}
    <3> SUFFICES ASSUME NEW s \in Shards PROVE streams'[s].UnassignedBlocks = {}
      OBVIOUS
    <3>1. InCut(strms[s], lastAssigned[s]) = strms[s].UnassignedBlocks
      BY Zenon DEF InCut, StreamsOK, StreamOK, StreamType
    <3> QED
      BY <1>2, <3>1 DEF Seal, StreamType
  <2>2. UNION {r.Intents : r \in UNION {streams'[s].UnassignedBlocks : s \in Shards}} = {}
    BY <2>1
  <2>3. pending' = {} /\ openedAt' = "nil"
    BY <1>2 DEF Seal
  <2> QED
    BY <2>1, <2>2, <2>3 DEF PendingOK
<1> QED
  BY <1>1, <1>2 DEF TryCloseWith

\* TryClose keeps the record of sealed windows sound.
LEMMA CloseSealed ==
  ASSUME TypeOK, NEW strms \in [Shards -> StreamType], NEW pend \in SUBSET Intents,
         NEW opened \in OpenedValues, NEW adv,
         StreamsOK(strms, adv), PendingOK(strms, pend, opened), SealedOK,
         TryCloseWith(strms, pend, opened)
  PROVE  SealedOK'
<1>1. CASE ~ReadyToClose(pend, opened)
  BY <1>1 DEF TryCloseWith, SealedOK, CutsContiguous, CutBefore
<1>2. CASE Seal(strms, pend)
  <2> DEFINE w == NewWindow(strms, pend)
             n == Len(sealed)
  <2>1. w \in WindowType /\ n \in Nat
    BY NewWindowType DEF TypeOK
  <2>2. /\ Len(sealed') = n + 1
        /\ sealed'[n + 1] = w
        /\ \A k \in 1 .. n : sealed'[k] = sealed[k]
    BY <1>2, <2>1 DEF Seal, TypeOK
  <2>3. nextWindowID = n + 1 /\ nextWindowID' = n + 2
    BY <1>2, <2>1 DEF Seal, SealedOK
  <2>4. \A i \in Intents : assigned'[i] < nextWindowID'
    BY <1>2, <2>1, <2>3 DEF Seal, SealedOK, TypeOK
  <2>5. \A k \in 1 .. Len(sealed') :
          sealed'[k].Intents = {i \in Intents : assigned'[i] = k}
    <3>1. ASSUME NEW k \in 1 .. n
          PROVE  sealed'[k].Intents = {i \in Intents : assigned'[i] = k}
      <4>1. \A i \in Intents : assigned'[i] = k <=> assigned[i] = k
        BY <1>2, <2>1, <2>3, SMTT(30) DEF Seal, PendingOK, TypeOK
      <4> QED
        BY <2>2, <4>1 DEF SealedOK
    <3>2. sealed'[n + 1].Intents = {i \in Intents : assigned'[i] = n + 1}
      <4>1. \A i \in Intents : assigned'[i] = n + 1 <=> i \in pend
        BY <1>2, <2>1, <2>3 DEF Seal, SealedOK, TypeOK
      <4>2. w.Intents = pend
        BY DEF NewWindow
      <4> QED
        BY <2>2, <4>1, <4>2
    <3> QED
      BY <2>1, <2>2, <3>1, <3>2
  <2>6. CutsContiguous'
    <3> SUFFICES ASSUME NEW k \in 1 .. n + 1, NEW s \in Shards
                 PROVE  /\ sealed'[k].WindowID = k
                        /\ sealed'[k].Cuts[s].PreviousHeight = CutBefore(k, s)'.Height
                        /\ sealed'[k].Cuts[s].PreviousHeight <= sealed'[k].Cuts[s].EndHeight
                        /\ k = n + 1 => lastAssigned'[s] = sealed'[k].Cuts[s].EndHeight
      BY <2>1, <2>2, <2>3 DEF CutsContiguous
    <3>1. CutBefore(k, s)' = CutBefore(k, s)
      BY <2>1, <2>2 DEF CutBefore
    <3>2. CASE k \in 1 .. n
      BY <2>1, <2>2, <3>1, <3>2 DEF SealedOK, CutsContiguous
    <3>3. CASE k = n + 1
      <4>1. /\ w.WindowID = n + 1
            /\ w.Cuts[s].PreviousHeight = lastAssigned[s]
            /\ w.Cuts[s].EndHeight = strms[s].ContinuousHeight
        BY <2>3 DEF NewWindow
      <4>2. lastAssigned'[s] = strms[s].ContinuousHeight
        BY <1>2 DEF Seal
      <4>3. lastAssigned[s] <= strms[s].ContinuousHeight
        BY Zenon DEF StreamsOK, StreamOK
      <4>4. lastAssigned[s] = CutBefore(n + 1, s).Height
        <5>1. CASE n = 0
          BY <5>1 DEF CutBefore, SealedOK
        <5>2. CASE n # 0
          BY <5>2, <2>1 DEF CutBefore, SealedOK, CutsContiguous
        <5> QED
          BY <5>1, <5>2
      <4> QED
        BY <2>2, <3>1, <3>3, <4>1, <4>2, <4>3, <4>4
    <3> QED
      BY <2>1, <3>2, <3>3
  <2> QED
    BY <2>1, <2>2, <2>3, <2>4, <2>5, <2>6 DEF SealedOK
<1> QED
  BY <1>1, <1>2 DEF TryCloseWith

\* A window sealed from sound streams covers its cuts.
LEMMA CloseCovered ==
  ASSUME TypeOK, NEW strms \in [Shards -> StreamType], NEW pend \in SUBSET Intents,
         NEW opened \in OpenedValues, NEW adv,
         StreamsOK(strms, adv), PendingOK(strms, pend, opened), SealedOK, CutsCovered,
         TryCloseWith(strms, pend, opened)
  PROVE  CutsCovered'
<1>1. CASE ~ReadyToClose(pend, opened)
  BY <1>1 DEF TryCloseWith, CutsCovered, WindowCovered, CutBefore
<1>2. CASE Seal(strms, pend)
  <2> DEFINE w == NewWindow(strms, pend)
  <2>0. PICK n \in Nat : n = Len(sealed)
    BY DEF TypeOK
  <2>1. w \in WindowType
    BY NewWindowType
  <2>2. /\ Len(sealed') = n + 1
        /\ sealed'[n + 1] = w
        /\ \A k \in 1 .. n : sealed'[k] = sealed[k]
    BY <1>2, <2>0, <2>1 DEF Seal, TypeOK
  <2>3. \A k \in 1 .. n + 1, s \in Shards : CutBefore(k, s)' = CutBefore(k, s)
    BY <2>0, <2>2 DEF CutBefore
  <2>4. \A s \in Shards : CutBefore(n + 1, s).BlockHash = LastHash(s)
    BY <2>0 DEF CutBefore, LastHash, TypeOK
  <2>5. \A s \in Shards : InCut(strms[s], lastAssigned[s]) = strms[s].UnassignedBlocks
    BY Zenon DEF InCut, StreamsOK, StreamOK, StreamType
  <2>6. w.Receipts = UNION {strms[s].UnassignedBlocks : s \in Shards}
    BY <2>5 DEF NewWindow
  <2>7. \A r \in w.Receipts :
          /\ r \in Receipts
          /\ r.ShardID \in Shards
          /\ r \in strms[r.ShardID].UnassignedBlocks
    <3> SUFFICES ASSUME NEW r \in w.Receipts
                 PROVE  r \in Receipts /\ r.ShardID \in Shards
                        /\ r \in strms[r.ShardID].UnassignedBlocks
      OBVIOUS
    <3>1. PICK s \in Shards : r \in strms[s].UnassignedBlocks
      BY <2>6
    <3>2. r.ShardID = s
      BY <3>1, Zenon DEF StreamsOK, StreamOK
    <3>3. r \in Receipts
      BY <3>1 DEF StreamType
    <3> QED
      BY <3>1, <3>2, <3>3
  <2>8. \A s \in Shards :
          /\ w.Cuts[s].PreviousHeight = lastAssigned[s]
          /\ w.Cuts[s].EndHeight = strms[s].ContinuousHeight
          /\ w.Cuts[s].EndBlockHash = strms[s].ContinuousHash
          /\ strms[s] \in StreamType
          /\ lastAssigned[s] \in Nat
          /\ StreamOK(s, strms[s], lastAssigned[s], LastHash(s), adv = s)
    BY DEF NewWindow, StreamsOK, TypeOK
  <2>9. w.Intents = UNION {r.Intents : r \in w.Receipts}
    BY <2>6 DEF NewWindow, PendingOK
  <2>10. ASSUME NEW r \in w.Receipts
         PROVE  /\ w.Cuts[r.ShardID].PreviousHeight < r.Height
                /\ r.Height <= w.Cuts[r.ShardID].EndHeight
                /\ \A q \in w.Receipts :
                     /\ q.ShardID = r.ShardID /\ q.Height = r.Height => q = r
                     /\ q.ShardID = r.ShardID /\ q.Height = r.Height + 1
                          => q.ParentHash = r.BlockHash
                /\ r.Height = w.Cuts[r.ShardID].PreviousHeight + 1
                     => r.ParentHash = CutBefore(n + 1, r.ShardID).BlockHash
                /\ r.Height = w.Cuts[r.ShardID].EndHeight
                     => r.BlockHash = w.Cuts[r.ShardID].EndBlockHash
    <3> DEFINE s == r.ShardID
               strm == strms[s]
    <3>1. s \in Shards /\ r \in strm.UnassignedBlocks /\ r.Height \in Nat
      BY <2>7, ReceiptsAssumption DEF ReceiptType
    <3>2. \A q \in w.Receipts : q.ShardID = s =>
            q \in strm.UnassignedBlocks /\ q.Height \in Nat
      BY <2>7, ReceiptsAssumption DEF ReceiptType
    <3>0. StreamOK(s, strm, lastAssigned[s], LastHash(s), adv = s)
      BY <2>8, <3>1
    <3>3. \A p, q \in strm.SeenHashes : p[1] = q[1] => p[2] = q[2]
      <4>1. \A p, q \in strm.SeenHashes : p[1] = q[1] => p = q
        BY <3>0 DEF StreamOK
      <4> QED
        BY <4>1
    <3>4. ASSUME NEW q \in w.Receipts, q.ShardID = s, q.Height = r.Height + 1
          PROVE  q.ParentHash = r.BlockHash
      <4>1. /\ <<q.Height - 1, q.ParentHash>> \in strm.SeenHashes
            /\ <<r.Height, r.BlockHash>> \in strm.SeenHashes
        BY <2>8, <3>1, <3>2, <3>4, Zenon DEF StreamOK
      <4>2. q.Height - 1 = r.Height
        BY <3>1, <3>4
      <4> QED
        BY <3>3, <4>1, <4>2
    <3>5. ASSUME r.Height = lastAssigned[s] + 1
          PROVE  r.ParentHash = LastHash(s)
      <4>1. /\ <<r.Height - 1, r.ParentHash>> \in strm.SeenHashes
            /\ <<lastAssigned[s], LastHash(s)>> \in strm.SeenHashes
        BY <2>8, <3>1, Zenon DEF StreamOK
      <4>2. r.Height - 1 = lastAssigned[s]
        BY <2>8, <3>1, <3>5
      <4> QED
        BY <3>3, <4>1, <4>2
    <3>6. ASSUME r.Height = strm.ContinuousHeight
          PROVE  r.BlockHash = strm.ContinuousHash
      <4>1. /\ <<r.Height, r.BlockHash>> \in strm.SeenHashes
            /\ <<strm.ContinuousHeight, strm.ContinuousHash>> \in strm.SeenHashes
        BY <2>8, <3>1, Zenon DEF StreamOK
      <4> QED
        BY <3>3, <3>6, <4>1
    <3>7. \A q \in w.Receipts : q.ShardID = s /\ q.Height = r.Height => q = r
      <4>1. \A a, q \in strm.UnassignedBlocks : a.Height = q.Height => a = q
        BY <3>0 DEF StreamOK
      <4> QED
        BY <3>1, <3>2, <4>1
    <3>8. lastAssigned[s] < r.Height /\ r.Height <= strm.ContinuousHeight
      BY <2>8, <3>1, Zenon DEF StreamOK
    <3> QED
      BY <2>4, <2>8, <3>1, <3>4, <3>5, <3>6, <3>7, <3>8
  <2>11. ASSUME NEW s \in Shards,
                NEW h \in w.Cuts[s].PreviousHeight + 1 .. w.Cuts[s].EndHeight
         PROVE  \E r \in w.Receipts : r.ShardID = s /\ r.Height = h
    <3>1. h \in lastAssigned[s] + 1 .. strms[s].ContinuousHeight
      BY <2>8
    <3>0. StreamOK(s, strms[s], lastAssigned[s], LastHash(s), adv = s)
      BY <2>8
    <3>2. PICK r \in strms[s].UnassignedBlocks : r.Height = h
      BY <3>0, <3>1 DEF StreamOK
    <3>3. r.ShardID = s
      BY <3>0, <3>2, Zenon DEF StreamOK
    <3> QED
      BY <2>6, <3>2, <3>3
  <2>12. ASSUME NEW k \in 1 .. n, NEW r \in sealed[k].Receipts
         PROVE  r.ShardID \in Shards
    <3>1. sealed[k] \in WindowType
      BY <2>0 DEF TypeOK
    <3>2. r \in Receipts
      BY <3>1, Zenon DEF WindowType
    <3> QED
      BY <3>2, ReceiptsAssumption DEF ReceiptType
  <2>13. ASSUME NEW k \in 1 .. n
         PROVE  WindowCovered(k)'
    <3>1. WindowCovered(k)
      BY <2>0, <2>13 DEF CutsCovered
    <3>2. sealed'[k] = sealed[k] /\ \A s \in Shards : CutBefore(k, s)' = CutBefore(k, s)
      BY <2>0, <2>2, <2>3
    <3> QED
      BY <2>12, <3>1, <3>2 DEF WindowCovered
  <2>14. WindowCovered(n + 1)'
    <3>1. \A s \in Shards : CutBefore(n + 1, s)' = CutBefore(n + 1, s)
      BY <2>0, <2>3
    <3> QED
      BY <2>2, <2>7, <2>9, <2>10, <2>11, <3>1 DEF WindowCovered
  <2> QED
    <3>1. \A k \in 1 .. n + 1 : WindowCovered(k)'
      BY <2>0, <2>13, <2>14
    <3> QED
      BY <2>2, <3>1 DEF CutsCovered
<1> QED
  BY <1>1, <1>2, Zenon DEF TryCloseWith

\* The queue of unacknowledged windows stays the tail of the sealed ones.
LEMMA CloseFrozen ==
  ASSUME TypeOK, NEW strms \in [Shards -> StreamType], NEW pend \in SUBSET Intents,
         NEW opened \in OpenedValues, FrozenOK, TryCloseWith(strms, pend, opened)
  PROVE  FrozenOK'
<1>1. CASE ~ReadyToClose(pend, opened)
  BY <1>1 DEF TryCloseWith, FrozenOK
<1>2. CASE Seal(strms, pend)
  <2>1. NewWindow(strms, pend) \in WindowType
    BY NewWindowType
  <2>2. /\ Len(frozen') = Len(frozen) + 1
        /\ frozen'[Len(frozen) + 1].WindowID = nextWindowID
        /\ \A k \in 1 .. Len(frozen) : frozen'[k] = frozen[k]
    BY <1>2, <2>1 DEF Seal, TypeOK, NewWindow
  <2> QED
    BY <1>2, <2>2 DEF Seal, FrozenOK, TypeOK
<1> QED
  BY <1>1, <1>2 DEF TryCloseWith

-----------------------------------------------------------------------------
\* The part of the invariant TryClose is responsible for.
LEMMA CloseInvariant ==
  ASSUME TypeOK, SealedOK, CutsCovered, FrozenOK,
         NEW strms \in [Shards -> StreamType], NEW pend \in SUBSET Intents,
         NEW opened \in OpenedValues, NEW adv \in Shards \cup {NoShard},
         StreamsOK(strms, adv), PendingOK(strms, pend, opened),
         TryCloseWith(strms, pend, opened), advancing' = adv
  PROVE  IInv'
<1>1. TypeOK'
  BY CloseType
<1>2. \A s \in Shards : StreamOK(s, streams'[s], lastAssigned'[s], LastHash(s)', adv = s)
  BY CloseStreams
<1>3. StreamsOK(streams, advancing)'
  BY <1>2 DEF StreamsOK
<1>4. PendingOK(streams, pending, openedAt)'
  BY ClosePending
<1>5. SealedOK' /\ CutsCovered'
  BY CloseSealed, CloseCovered
<1>6. FrozenOK'
  BY CloseFrozen
<1> QED
  BY <1>1, <1>3, <1>4, <1>5, <1>6 DEF IInv

\* Buffering a receipt keeps the streams sound.
LEMMA AddReceiptInvariant ==
  ASSUME IInv, NEW r \in Receipts, AddReceipt(r)
  PROVE  IInv'
<1> DEFINE z == r.ShardID
<1>1. r \in ReceiptType /\ z \in Shards
  BY ReceiptsAssumption DEF ReceiptType
<1>2. TypeOK'
  <2>1. streams[z] \in StreamType /\ <<r.Height, r.BlockHash>> \in Nat \X Hashes
    BY <1>1 DEF IInv, TypeOK, ReceiptType
  <2>2. [streams[z] EXCEPT !.BufferedBlocks = @ \cup {r},
                           !.SeenHashes = @ \cup {<<r.Height, r.BlockHash>>}] \in StreamType
    BY <2>1, Zenon DEF StreamType
  <2>3. streams' \in [Shards -> StreamType]
    BY <1>1, <2>2, Zenon DEF IInv, TypeOK, AddReceipt
  <2> QED
    BY <1>1, <2>3 DEF IInv, TypeOK, AddReceipt
<1>3. \A s \in Shards : LastHash(s)' = LastHash(s) /\ lastAssigned'[s] = lastAssigned[s]
  BY DEF AddReceipt, LastHash
<1>4. StreamsOK(streams, advancing)'
  <2> SUFFICES ASSUME NEW s \in Shards
               PROVE  StreamOK(s, streams'[s], lastAssigned[s], LastHash(s), advancing' = s)
    BY <1>3 DEF StreamsOK
  <2>1. StreamOK(s, streams[s], lastAssigned[s], LastHash(s), FALSE)
    BY ShardsAssumption, Zenon DEF IInv, StreamsOK, AddReceipt
  <2>2. CASE s # z
    <3>1. streams'[s] = streams[s]
      BY <2>2 DEF AddReceipt, IInv, TypeOK
    <3> QED
      BY <2>1, <3>1 DEF StreamOK
  <2>3. CASE s = z
    <3> DEFINE strm == streams[s]
    <3>1. /\ strm \in StreamType
          /\ lastAssigned[s] \in Nat
          /\ advancing' = s
          /\ streams'[s] = [strm EXCEPT !.BufferedBlocks = @ \cup {r},
                                        !.SeenHashes = @ \cup {<<r.Height, r.BlockHash>>}]
          /\ \A p \in strm.SeenHashes : p[1] # r.Height
          /\ r.Height >= strm.NextExpectedHeight
      BY <2>3, Zenon DEF AddReceipt, IInv, TypeOK
    <3> DEFINE new == <<r.Height, r.BlockHash>>
               seen == strm.SeenHashes \cup {new}
               buffered == strm.BufferedBlocks \cup {r}
    <3>2. streams'[s] = [strm EXCEPT !.BufferedBlocks = buffered, !.SeenHashes = seen]
      BY <3>1 DEF StreamType
    <3>3. ASSUME NEW q \in strm.BufferedBlocks PROVE q.Height # r.Height
      <4>1. <<q.Height, q.BlockHash>> \in strm.SeenHashes
        BY <2>1 DEF StreamOK
      <4> QED
        BY <3>1, <4>1
    <3>4. \A p, q \in seen : p[1] = q[1] => p = q
      <4>1. new[1] = r.Height
        OBVIOUS
      <4>2. \A p, q \in strm.SeenHashes : p[1] = q[1] => p = q
        BY <2>1 DEF StreamOK
      <4> QED
        BY <3>1, <4>1, <4>2
    <3>5. /\ \A q \in buffered :
               /\ q.ShardID = s
               /\ q.Height >= strm.NextExpectedHeight
               /\ <<q.Height, q.BlockHash>> \in seen
          /\ \A p, q \in buffered : p.Height = q.Height => p = q
      BY <2>1, <2>3, <3>1, <3>3 DEF StreamOK
    <3> HIDE DEF seen, buffered
    <3>6. strm.SeenHashes \subseteq seen
      BY DEF seen
    <3>7. /\ streams'[s].SeenHashes = seen
          /\ streams'[s].BufferedBlocks = buffered
          /\ streams'[s].UnassignedBlocks = strm.UnassignedBlocks
          /\ streams'[s].ContinuousHeight = strm.ContinuousHeight
          /\ streams'[s].ContinuousHash = strm.ContinuousHash
          /\ streams'[s].NextExpectedHeight = strm.NextExpectedHeight
      BY <3>1, <3>2, Zenon DEF StreamType
    <3> QED
      BY <2>1, <3>1, <3>4, <3>5, <3>6, <3>7 DEF StreamOK
  <2> QED
    BY <2>2, <2>3
<1>5. \A s \in Shards : streams'[s].UnassignedBlocks = streams[s].UnassignedBlocks
  BY <1>1 DEF AddReceipt, IInv, TypeOK, StreamType
<1>6. PendingOK(streams, pending, openedAt)'
  <2>1. {streams'[s].UnassignedBlocks : s \in Shards} = {streams[s].UnassignedBlocks : s \in Shards}
    BY <1>5
  <2> QED
    BY <1>5, <2>1, Zenon DEF AddReceipt, IInv, PendingOK
<1>7. SealedOK' /\ CutsCovered' /\ FrozenOK'
  <2>1. SealedOK'
    BY SMTT(30) DEF AddReceipt, IInv, SealedOK, CutsContiguous, CutBefore
  <2>2. CutsCovered'
    BY DEF AddReceipt, IInv, CutsCovered, WindowCovered, CutBefore
  <2>3. FrozenOK'
    BY DEF AddReceipt, IInv, FrozenOK
  <2> QED
    BY <2>1, <2>2, <2>3
<1> QED
  BY <1>2, <1>4, <1>6, <1>7 DEF IInv

\* Moving a block gives a stream.
LEMMA MoveBlockType ==
  ASSUME NEW strm \in StreamType, NEW r \in Receipts,
         r.Height \in Nat, r.BlockHash \in Hashes
  PROVE  MoveBlock(strm, r) \in StreamType
<1>1. /\ strm.NextExpectedHeight + 1 \in Nat
      /\ strm.BufferedBlocks \ {r} \in SUBSET Receipts
      /\ strm.UnassignedBlocks \cup {r} \in SUBSET Receipts
      /\ strm.SeenHashes \in SUBSET (Nat \X Hashes)
  BY DEF StreamType
<1> QED
  BY <1>1 DEF StreamType, MoveBlock

\* An iteration of advanceStream that moves a block keeps the invariant.
LEMMA AdvanceStreamInvariant ==
  ASSUME IInv, NEW s \in Shards, NEW r \in Receipts, AdvanceStream(s, r)
  PROVE  IInv'
<1> DEFINE strm == streams[s]
           strms == [streams EXCEPT ![s] = MoveBlock(@, r)]
           pend == pending \cup r.Intents
           opened == IF r.Intents # {} /\ openedAt = "nil" THEN "running" ELSE openedAt
<1>1. /\ r \in ReceiptType
      /\ strm \in StreamType
      /\ streams \in [Shards -> StreamType]
      /\ lastAssigned[s] \in Nat
  BY ReceiptsAssumption DEF IInv, TypeOK
<1>2. /\ r \in strm.BufferedBlocks
      /\ r.Height = strm.NextExpectedHeight
      /\ r.ParentHash = strm.ContinuousHash
      /\ \A i \in r.Intents : i \notin pending /\ assigned[i] = 0
      /\ TryCloseWith(strms, pend, opened)
      /\ advancing = s /\ advancing' = s
  BY DEF AdvanceStream, Acceptable
<1>3. strms \in [Shards -> StreamType]
  <2>0. r.Height \in Nat /\ r.BlockHash \in Hashes
    BY <1>1 DEF ReceiptType
  <2>1. MoveBlock(strm, r) \in StreamType
    BY <1>1, <2>0, MoveBlockType, SMTT(30)
  <2> QED
    BY <1>1, <2>1
<1>4. /\ strms[s].BufferedBlocks = strm.BufferedBlocks \ {r}
      /\ strms[s].UnassignedBlocks = strm.UnassignedBlocks \cup {r}
      /\ strms[s].ContinuousHeight = r.Height
      /\ strms[s].ContinuousHash = r.BlockHash
      /\ strms[s].NextExpectedHeight = strm.NextExpectedHeight + 1
      /\ strms[s].SeenHashes = strm.SeenHashes
      /\ \A z \in Shards : z # s => strms[z] = streams[z]
  BY <1>1 DEF MoveBlock, StreamType
<1> HIDE DEF strms
<1>5. pend \in SUBSET Intents /\ opened \in OpenedValues
  BY <1>1 DEF IInv, TypeOK, ReceiptType, OpenedValues
<1>6. StreamsOK(strms, s)
  <2> SUFFICES ASSUME NEW z \in Shards
               PROVE  StreamOK(z, strms[z], lastAssigned[z], LastHash(z), s = z)
    BY DEF StreamsOK
  <2>1. StreamOK(z, streams[z], lastAssigned[z], LastHash(z), s = z)
    BY <1>2 DEF IInv, StreamsOK
  <2>2. CASE z # s
    BY <1>4, <2>1, <2>2, Zenon
  <2>3. CASE z = s
    <3>1. /\ strm.ContinuousHeight \in Nat /\ strm.NextExpectedHeight \in Nat
          /\ r.Height = strm.ContinuousHeight + 1
          /\ strm.SeenHashes \subseteq Nat \X Hashes
      BY <1>1, <1>2, <2>1, <2>3 DEF StreamOK, StreamType
    <3>2. /\ <<r.Height, r.BlockHash>> \in strm.SeenHashes
          /\ <<r.Height - 1, r.ParentHash>> \in strm.SeenHashes
          /\ r.ShardID = s
      BY <1>2, <2>1, <2>3, <3>1, SMTT(30) DEF StreamOK
    <3>3. \A q \in strm.BufferedBlocks \ {r} :
            /\ q.ShardID = s
            /\ q.Height >= strm.NextExpectedHeight + 1
            /\ <<q.Height, q.BlockHash>> \in strm.SeenHashes
      <4> SUFFICES ASSUME NEW q \in strm.BufferedBlocks \ {r}
                   PROVE  /\ q.ShardID = s
                          /\ q.Height >= strm.NextExpectedHeight + 1
                          /\ <<q.Height, q.BlockHash>> \in strm.SeenHashes
        BY Zenon
      <4>1. /\ q.ShardID = s
            /\ q.Height >= strm.NextExpectedHeight
            /\ <<q.Height, q.BlockHash>> \in strm.SeenHashes
        BY <2>1, <2>3, Zenon DEF StreamOK
      <4>2. q.Height # r.Height
        BY <1>2, <2>1, <2>3, Zenon DEF StreamOK
      <4>3. q.Height \in Nat
        BY <1>1, ReceiptsAssumption DEF StreamType, ReceiptType
      <4>4. strm.NextExpectedHeight \in Nat /\ q.Height # strm.NextExpectedHeight
        BY <1>2, <3>1, <4>2, Zenon
      <4>5. q.Height >= strm.NextExpectedHeight + 1
        BY <4>1, <4>3, <4>4
      <4> QED
        BY <4>1, <4>5, Zenon
    <3>4. \A q \in strm.UnassignedBlocks : q.Height # r.Height
      <4> SUFFICES ASSUME NEW q \in strm.UnassignedBlocks PROVE q.Height # r.Height
        OBVIOUS
      <4>1. q.Height \in Nat
        BY <1>1, ReceiptsAssumption DEF StreamType, ReceiptType
      <4>2. q.Height <= strm.ContinuousHeight
        BY <2>1, <2>3, Zenon DEF StreamOK
      <4> QED
        BY <3>1, <4>1, <4>2
    <3>5. \A h \in lastAssigned[s] + 1 .. r.Height :
            \E q \in strm.UnassignedBlocks \cup {r} : q.Height = h
      <4> SUFFICES ASSUME NEW h \in lastAssigned[s] + 1 .. r.Height, h # r.Height
                   PROVE  \E q \in strm.UnassignedBlocks : q.Height = h
        BY <1>1
      <4>1. h \in lastAssigned[s] + 1 .. strm.ContinuousHeight
        BY <1>1, <3>1 DEF ReceiptType
      <4> QED
        BY <2>1, <2>3, <4>1 DEF StreamOK
    <3>6. \A q \in strm.UnassignedBlocks \cup {r} :
            /\ q.ShardID = s
            /\ lastAssigned[s] < q.Height /\ q.Height <= r.Height
            /\ <<q.Height, q.BlockHash>> \in strm.SeenHashes
            /\ <<q.Height - 1, q.ParentHash>> \in strm.SeenHashes
      <4> SUFFICES ASSUME NEW q \in strm.UnassignedBlocks \cup {r}
                   PROVE  /\ q.ShardID = s
                          /\ lastAssigned[s] < q.Height /\ q.Height <= r.Height
                          /\ <<q.Height, q.BlockHash>> \in strm.SeenHashes
                          /\ <<q.Height - 1, q.ParentHash>> \in strm.SeenHashes
        BY Zenon
      <4>1. q.Height \in Nat
        BY <1>1, ReceiptsAssumption DEF StreamType, ReceiptType
      <4> QED
        BY <1>1, <2>1, <2>3, <3>1, <3>2, <4>1 DEF StreamOK
    <3>7. \A p, q \in strm.UnassignedBlocks \cup {r} : p.Height = q.Height => p = q
      BY <2>1, <2>3, <3>4, Zenon DEF StreamOK
    <3>8. lastAssigned[s] <= r.Height
      BY <1>1, <2>1, <2>3, <3>1, SMTT(30) DEF StreamOK
    <3>9. /\ \A p, q \in strm.SeenHashes : p[1] = q[1] => p = q
          /\ <<lastAssigned[s], LastHash(s)>> \in strm.SeenHashes
          /\ \A p, q \in strm.BufferedBlocks : p.Height = q.Height => p = q
      BY <2>1, <2>3 DEF StreamOK
    <3>10. /\ strms[s].NextExpectedHeight = strms[s].ContinuousHeight + 1
           /\ lastAssigned[s] <= strms[s].ContinuousHeight
      BY <1>2, <1>4, <3>8
    <3>11. /\ <<strms[s].ContinuousHeight, strms[s].ContinuousHash>> \in strms[s].SeenHashes
           /\ <<lastAssigned[s], LastHash(s)>> \in strms[s].SeenHashes
           /\ \A p, q \in strms[s].SeenHashes : p[1] = q[1] => p = q
      BY <1>4, <3>2, <3>9, Zenon
    <3>12. /\ \A h \in lastAssigned[s] + 1 .. strms[s].ContinuousHeight :
                \E q \in strms[s].UnassignedBlocks : q.Height = h
           /\ \A q \in strms[s].UnassignedBlocks :
                /\ q.ShardID = s
                /\ lastAssigned[s] < q.Height /\ q.Height <= strms[s].ContinuousHeight
                /\ <<q.Height, q.BlockHash>> \in strms[s].SeenHashes
                /\ <<q.Height - 1, q.ParentHash>> \in strms[s].SeenHashes
           /\ \A p, q \in strms[s].UnassignedBlocks : p.Height = q.Height => p = q
      BY <1>4, <3>5, <3>6, <3>7, ZenonT(40)
    <3>13. /\ \A q \in strms[s].BufferedBlocks :
                /\ q.ShardID = s
                /\ q.Height >= strms[s].NextExpectedHeight
                /\ <<q.Height, q.BlockHash>> \in strms[s].SeenHashes
           /\ \A p, q \in strms[s].BufferedBlocks : p.Height = q.Height => p = q
      BY <1>4, <3>3, <3>9, ZenonT(40)
    <3>14. StreamOK(s, strms[s], lastAssigned[s], LastHash(s), TRUE)
      BY <3>10, <3>11, <3>12, <3>13, Zenon DEF StreamOK
    <3> QED
      BY <2>3, <3>14, Zenon
  <2> QED
    BY <2>2, <2>3
<1>7. PendingOK(strms, pend, opened)
  <2>1. ASSUME NEW a \in Shards, NEW q \in streams[a].UnassignedBlocks
        PROVE  q.Intents \cap r.Intents = {}
    <3>1. q.Intents \subseteq pending
      BY DEF IInv, PendingOK
    <3> QED
      BY <1>2, <3>1
  <2>2. \A a, z \in Shards :
          \A p \in strms[a].UnassignedBlocks, q \in strms[z].UnassignedBlocks :
            p # q => p.Intents \cap q.Intents = {}
    <3> SUFFICES ASSUME NEW a \in Shards, NEW z \in Shards,
                        NEW p \in strms[a].UnassignedBlocks,
                        NEW q \in strms[z].UnassignedBlocks, p # q
                 PROVE  p.Intents \cap q.Intents = {}
      OBVIOUS
    <3>1. /\ p = r \/ p \in streams[a].UnassignedBlocks
          /\ q = r \/ q \in streams[z].UnassignedBlocks
      BY <1>4
    <3> QED
      BY <2>1, <3>1 DEF IInv, PendingOK
  <2>3. UNION {strms[z].UnassignedBlocks : z \in Shards} =
          (UNION {streams[z].UnassignedBlocks : z \in Shards}) \cup {r}
    <3> DEFINE U == UNION {streams[z].UnassignedBlocks : z \in Shards}
               V == UNION {strms[z].UnassignedBlocks : z \in Shards}
    <3>1. \A x : x \in V <=> \E z \in Shards : x \in strms[z].UnassignedBlocks
      OBVIOUS
    <3>2. \A x : x \in U <=> \E z \in Shards : x \in streams[z].UnassignedBlocks
      OBVIOUS
    <3>3. \A x : x \in V <=> x \in U \cup {r}
      BY <1>4, <3>1, <3>2
    <3> HIDE DEF U, V
    <3>4. V = U \cup {r}
      BY <3>3
    <3> QED
      BY <3>4 DEF U, V
  <2>4. pend = UNION {q.Intents : q \in UNION {strms[z].UnassignedBlocks : z \in Shards}}
    <3>1. pending = UNION {q.Intents : q \in UNION {streams[z].UnassignedBlocks : z \in Shards}}
      BY DEF IInv, PendingOK
    <3> DEFINE U == UNION {streams[z].UnassignedBlocks : z \in Shards}
    <3> HIDE DEF U
    <3>2. UNION {q.Intents : q \in U \cup {r}} = (UNION {q.Intents : q \in U}) \cup r.Intents
      OBVIOUS
    <3> QED
      BY <2>3, <3>1, <3>2, Zenon DEF U
  <2>5. \A i \in pend : assigned[i] = 0
    BY <1>2 DEF IInv, PendingOK
  <2>6. (pend = {}) <=> (opened = "nil")
    BY DEF IInv, PendingOK
  <2> HIDE DEF pend, opened
  <2> QED
    BY <2>2, <2>4, <2>5, <2>6, Zenon DEF PendingOK
<1> HIDE DEF pend, opened
<1> QED
  BY <1>2, <1>3, <1>5, <1>6, <1>7, CloseInvariant DEF IInv

\* Forgetting a refused block keeps the invariant.
LEMMA DropBufferedInvariant ==
  ASSUME IInv, NEW s \in Shards, NEW r \in Receipts, DropBuffered(s, r)
  PROVE  IInv'
<1> DEFINE strm == streams[s]
<1>1. /\ r \in ReceiptType
      /\ strm \in StreamType
      /\ streams \in [Shards -> StreamType]
      /\ lastAssigned[s] \in Nat
  BY ReceiptsAssumption DEF IInv, TypeOK
<1>2. /\ r \in strm.BufferedBlocks
      /\ r.Height = strm.NextExpectedHeight
      /\ advancing = s /\ advancing' = NoShard
  BY DEF DropBuffered
<1>3. TypeOK'
  <2>1. [strm EXCEPT !.BufferedBlocks = @ \ {r},
                     !.SeenHashes = {p \in @ : p[1] # r.Height}] \in StreamType
    BY <1>1, Zenon DEF StreamType
  <2>2. streams' \in [Shards -> StreamType]
    BY <1>1, <2>1 DEF DropBuffered
  <2> QED
    BY <2>2 DEF DropBuffered, IInv, TypeOK
<1>4. /\ streams'[s].BufferedBlocks = strm.BufferedBlocks \ {r}
      /\ streams'[s].SeenHashes = {p \in strm.SeenHashes : p[1] # r.Height}
      /\ streams'[s].UnassignedBlocks = strm.UnassignedBlocks
      /\ streams'[s].ContinuousHeight = strm.ContinuousHeight
      /\ streams'[s].ContinuousHash = strm.ContinuousHash
      /\ streams'[s].NextExpectedHeight = strm.NextExpectedHeight
      /\ \A z \in Shards : z # s => streams'[z] = streams[z]
  BY <1>1 DEF DropBuffered, StreamType
<1>5. \A z \in Shards : LastHash(z)' = LastHash(z) /\ lastAssigned'[z] = lastAssigned[z]
  BY DEF DropBuffered, LastHash
<1>6. StreamsOK(streams, advancing)'
  <2> SUFFICES ASSUME NEW z \in Shards
               PROVE  StreamOK(z, streams'[z], lastAssigned[z], LastHash(z), FALSE)
    BY <1>2, <1>5, ShardsAssumption, Zenon DEF StreamsOK
  <2>1. StreamOK(z, streams[z], lastAssigned[z], LastHash(z), s = z)
    BY <1>2, Zenon DEF IInv, StreamsOK
  <2>2. CASE z # s
    BY <1>4, <2>1, <2>2, Zenon DEF StreamOK
  <2>3. CASE z = s
    <3> DEFINE seen == {p \in strm.SeenHashes : p[1] # r.Height}
    <3>0. StreamOK(s, strm, lastAssigned[s], LastHash(s), TRUE)
      BY <2>1, <2>3 DEF StreamOK
    <3>1. /\ strm.ContinuousHeight \in Nat /\ r.Height = strm.ContinuousHeight + 1
          /\ lastAssigned[s] <= strm.ContinuousHeight
      BY <1>1, <1>2, <3>0 DEF StreamOK, StreamType
    <3>2. \A h \in Nat, x \in Hashes :
            <<h, x>> \in strm.SeenHashes /\ h # r.Height => <<h, x>> \in seen
      OBVIOUS
    <3>3. \A q \in strm.UnassignedBlocks \cup strm.BufferedBlocks :
            q.Height \in Nat /\ q.BlockHash \in Hashes /\ q.ParentHash \in Hashes
      BY <1>1, ReceiptsAssumption, Zenon DEF StreamType, ReceiptType
    <3>4. /\ <<strm.ContinuousHeight, strm.ContinuousHash>> \in seen
          /\ <<lastAssigned[s], LastHash(s)>> \in seen
      BY <1>1, <3>0, <3>1 DEF StreamOK
    <3>5. ASSUME NEW q \in strm.UnassignedBlocks
          PROVE  /\ q.ShardID = s
                 /\ lastAssigned[s] < q.Height /\ q.Height <= strm.ContinuousHeight
                 /\ <<q.Height, q.BlockHash>> \in seen
                 /\ <<q.Height - 1, q.ParentHash>> \in seen
      <4>1. /\ q.ShardID = s
            /\ lastAssigned[s] < q.Height /\ q.Height <= strm.ContinuousHeight
            /\ <<q.Height, q.BlockHash>> \in strm.SeenHashes
            /\ <<q.Height - 1, q.ParentHash>> \in strm.SeenHashes
        BY <3>0 DEF StreamOK
      <4> QED
        BY <1>1, <3>1, <3>3, <4>1
    <3>6. ASSUME NEW q \in strm.BufferedBlocks \ {r}
          PROVE  /\ q.ShardID = s
                 /\ q.Height >= strm.NextExpectedHeight
                 /\ q.Height # strm.NextExpectedHeight
                 /\ <<q.Height, q.BlockHash>> \in seen
      <4>1. /\ q.ShardID = s
            /\ q.Height >= strm.NextExpectedHeight
            /\ q.Height # r.Height
            /\ <<q.Height, q.BlockHash>> \in strm.SeenHashes
        BY <1>2, <3>0, Zenon DEF StreamOK
      <4> QED
        BY <1>2, <4>1, Zenon
    <3>7. /\ \A p, q \in seen : p[1] = q[1] => p = q
          /\ \A p, q \in strm.BufferedBlocks \ {r} : p.Height = q.Height => p = q
          /\ \A p, q \in strm.UnassignedBlocks : p.Height = q.Height => p = q
          /\ strm.NextExpectedHeight = strm.ContinuousHeight + 1
          /\ \A h \in lastAssigned[s] + 1 .. strm.ContinuousHeight :
               \E q \in strm.UnassignedBlocks : q.Height = h
      BY <3>0 DEF StreamOK
    <3> HIDE DEF seen
    <3>8. streams'[s].SeenHashes = seen
      BY <1>4 DEF seen
    <3> DEFINE t == streams'[s]
    <3>9. /\ t.NextExpectedHeight = t.ContinuousHeight + 1
          /\ lastAssigned[s] <= t.ContinuousHeight
          /\ <<t.ContinuousHeight, t.ContinuousHash>> \in t.SeenHashes
          /\ <<lastAssigned[s], LastHash(s)>> \in t.SeenHashes
      BY <1>4, <3>1, <3>4, <3>7, <3>8, Zenon
    <3>10. /\ \A p, q \in t.SeenHashes : p[1] = q[1] => p = q
           /\ \A p, q \in t.UnassignedBlocks : p.Height = q.Height => p = q
           /\ \A p, q \in t.BufferedBlocks : p.Height = q.Height => p = q
           /\ \A h \in lastAssigned[s] + 1 .. t.ContinuousHeight :
                \E q \in t.UnassignedBlocks : q.Height = h
      BY <1>4, <3>7, <3>8, Zenon
    <3>11. \A q \in t.UnassignedBlocks :
             /\ q.ShardID = s
             /\ lastAssigned[s] < q.Height /\ q.Height <= t.ContinuousHeight
             /\ <<q.Height, q.BlockHash>> \in t.SeenHashes
             /\ <<q.Height - 1, q.ParentHash>> \in t.SeenHashes
      BY <1>4, <3>5, <3>8, Zenon
    <3>12. \A q \in t.BufferedBlocks :
             /\ q.ShardID = s
             /\ q.Height >= t.NextExpectedHeight
             /\ q.Height # t.NextExpectedHeight
             /\ <<q.Height, q.BlockHash>> \in t.SeenHashes
      BY <1>4, <3>6, <3>8, Zenon
    <3> QED
      BY <2>3, <3>9, <3>10, <3>11, <3>12, Zenon DEF StreamOK
  <2> QED
    BY <2>2, <2>3, Zenon
<1>7. PendingOK(streams, pending, openedAt)'
  <2>1. \A z \in Shards : streams'[z].UnassignedBlocks = streams[z].UnassignedBlocks
    BY <1>4
  <2>2. {streams'[z].UnassignedBlocks : z \in Shards} = {streams[z].UnassignedBlocks : z \in Shards}
    BY <2>1
  <2> QED
    BY <2>1, <2>2, ZenonT(40) DEF DropBuffered, IInv, PendingOK
<1>8. SealedOK'
  BY DEF DropBuffered, IInv, SealedOK, CutsContiguous, CutBefore
<1>9. CutsCovered'
  BY DEF DropBuffered, IInv, CutsCovered, WindowCovered, CutBefore
<1>10. FrozenOK'
  BY DEF DropBuffered, IInv, FrozenOK
<1> QED
  BY <1>3, <1>6, <1>7, <1>8, <1>9, <1>10 DEF IInv

\* The end of AddReceipt: the loop finds no block at the next height.
LEMMA AdvanceDoneInvariant ==
  ASSUME IInv, NEW s \in Shards, AdvanceDone(s)
  PROVE  IInv'
<1>1. StreamsOK(streams, NoShard)
  <2> SUFFICES ASSUME NEW z \in Shards
               PROVE  StreamOK(z, streams[z], lastAssigned[z], LastHash(z), NoShard = z)
    BY DEF StreamsOK
  <2>1. StreamOK(z, streams[z], lastAssigned[z], LastHash(z), s = z)
    BY DEF IInv, StreamsOK, AdvanceDone
  <2>2. s = z => \A r \in streams[z].BufferedBlocks :
                   r.Height # streams[z].NextExpectedHeight
    BY DEF AdvanceDone
  <2> QED
    BY <2>1, <2>2 DEF StreamOK
<1>2. /\ streams \in [Shards -> StreamType] /\ pending \in SUBSET Intents
      /\ openedAt \in OpenedValues
      /\ PendingOK(streams, pending, openedAt)
      /\ TypeOK /\ SealedOK /\ CutsCovered /\ FrozenOK
  BY DEF IInv, TypeOK, OpenedValues
<1>3. TryCloseWith(streams, pending, openedAt) /\ advancing' = NoShard
  BY DEF AdvanceDone
<1> QED
  BY <1>1, <1>2, <1>3, CloseInvariant, Zenon

\* TryClose outside AddReceipt: the Solver's tick, or a repeated receipt.
LEMMA TryCloseInvariant ==
  ASSUME IInv, TryCloseWith(streams, pending, openedAt), UNCHANGED advancing
  PROVE  IInv'
<1>1. /\ streams \in [Shards -> StreamType] /\ pending \in SUBSET Intents
      /\ openedAt \in OpenedValues /\ advancing \in Shards \cup {NoShard}
      /\ StreamsOK(streams, advancing)
      /\ PendingOK(streams, pending, openedAt)
      /\ TypeOK /\ SealedOK /\ CutsCovered /\ FrozenOK
  BY DEF IInv, TypeOK, OpenedValues
<1> QED
  BY <1>1, CloseInvariant

\* The clock, acknowledgements and stuttering keep the invariant.
LEMMA OtherInvariant ==
  ASSUME IInv, Elapse \/ AcknowledgeFrozen \/ UNCHANGED vars
  PROVE  IInv'
<1>1. /\ UNCHANGED <<nextWindowID, pending, assigned, lastAssigned, streams,
                     advancing, sealed>>
      /\ \/ openedAt' = openedAt
         \/ openedAt # "nil" /\ openedAt' = "elapsed"
  BY DEF Elapse, AcknowledgeFrozen, vars
<1>2. (frozen' = frozen) \/ (frozen # <<>> /\ frozen' = Tail(frozen))
  BY DEF Elapse, AcknowledgeFrozen, vars
<1>3. frozen \in Seq(WindowType) /\ nextWindowID \in Nat
  BY DEF IInv, TypeOK
<1>4. frozen' \in Seq(WindowType)
  BY <1>2, <1>3
<1>5. TypeOK'
  BY <1>1, <1>4 DEF IInv, TypeOK
<1>6. StreamsOK(streams, advancing)'
  BY <1>1 DEF IInv, StreamsOK, LastHash
<1>7. PendingOK(streams, pending, openedAt)'
  BY <1>1 DEF IInv, PendingOK
<1>8. SealedOK'
  BY <1>1, SMTT(30) DEF IInv, SealedOK, CutsContiguous, CutBefore
<1>9. CutsCovered'
  BY <1>1 DEF IInv, CutsCovered, WindowCovered, CutBefore
<1>10. FrozenOK'
  <2>1. CASE frozen' = frozen
    BY <1>1, <2>1 DEF IInv, FrozenOK
  <2>2. CASE frozen # <<>> /\ frozen' = Tail(frozen)
    <3>1. /\ Len(frozen) \in Nat \ {0}
          /\ Len(frozen') = Len(frozen) - 1
          /\ \A k \in 1 .. Len(frozen') : frozen'[k] = frozen[k + 1]
      BY <1>3, <2>2
    <3> QED
      <4>1. /\ Len(frozen) < nextWindowID
            /\ \A k \in 1 .. Len(frozen) :
                 frozen[k].WindowID = nextWindowID - 1 - Len(frozen) + k
        BY DEF IInv, FrozenOK
      <4>2. ASSUME NEW k \in 1 .. Len(frozen')
            PROVE  frozen'[k].WindowID = nextWindowID - 1 - Len(frozen') + k
        <5>1. k + 1 \in 1 .. Len(frozen)
          BY <3>1
        <5>2. frozen'[k].WindowID = nextWindowID - 1 - Len(frozen) + (k + 1)
          BY <3>1, <4>1, <5>1
        <5> QED
          BY <1>3, <3>1, <5>2
      <4>3. nextWindowID' = nextWindowID
        BY <1>1, Zenon
      <4>4. Len(frozen') < nextWindowID
        <5>1. PICK n, m, w : n = Len(frozen) /\ m = Len(frozen') /\ w = nextWindowID
          BY Zenon
        <5>2. n \in Nat /\ m = n - 1 /\ n < w /\ w \in Nat
          BY <1>3, <3>1, <4>1, <5>1
        <5>3. m < w
          BY <5>2
        <5> QED
          BY <5>1, <5>3, Zenon
      <4> QED
        BY <4>2, <4>3, <4>4, Zenon DEF FrozenOK
  <2> QED
    BY <1>2, <2>1, <2>2
<1> QED
  BY <1>5, <1>6, <1>7, <1>8, <1>9, <1>10 DEF IInv

(***************************************************************************)
(* Every behaviour of the manager satisfies the inductive invariant.       *)
(***************************************************************************)
THEOREM Invariance == Spec => []IInv
<1>1. Init => IInv
  BY InitInvariant
<1>2. IInv /\ [Next]_vars => IInv'
  <2> SUFFICES ASSUME IInv, [Next]_vars PROVE IInv'
    OBVIOUS
  <2>1. ASSUME NEW r \in Receipts, AddReceipt(r) PROVE IInv'
    BY <2>1, AddReceiptInvariant
  <2>2. ASSUME NEW r \in Receipts, AddSeenReceipt(r) PROVE IInv'
    BY <2>2, TryCloseInvariant DEF AddSeenReceipt
  <2>3. ASSUME NEW s \in Shards, NEW r \in Receipts, AdvanceStream(s, r) PROVE IInv'
    BY <2>3, AdvanceStreamInvariant
  <2>4. ASSUME NEW s \in Shards, NEW r \in Receipts, DropBuffered(s, r) PROVE IInv'
    BY <2>4, DropBufferedInvariant
  <2>5. ASSUME NEW s \in Shards, AdvanceDone(s) PROVE IInv'
    BY <2>5, AdvanceDoneInvariant
  <2>6. CASE TryClose
    BY <2>6, TryCloseInvariant DEF TryClose
  <2>7. CASE Elapse \/ AcknowledgeFrozen \/ UNCHANGED vars
    BY <2>7, OtherInvariant
  <2> QED
    BY <2>1, <2>2, <2>3, <2>4, <2>5, <2>6, <2>7 DEF Next, Advance
<1> QED
  BY <1>1, <1>2, PTL DEF Spec

\* Every variable keeps its type.
THEOREM TypeCorrect == Spec => []TypeOK
<1>1. IInv => TypeOK
  BY DEF IInv
<1> QED
  BY <1>1, Invariance, PTL

(***************************************************************************)
(* Restore accepts every snapshot taken between two operations: the tests  *)
(* of validateState follow from the invariant.                             *)
(***************************************************************************)
THEOREM SnapshotsRestorable == Spec => []Restorable
<1>1. IInv => Restorable
  <2> SUFFICES ASSUME IInv, advancing = NoShard PROVE ValidState
    BY DEF Restorable
  <2>1. ASSUME NEW s \in Shards PROVE ValidStream(s)
    <3>1. StreamOK(s, streams[s], lastAssigned[s], LastHash(s), FALSE)
      BY ShardsAssumption, Zenon DEF IInv, StreamsOK
    <3>2. streams[s] \in StreamType /\ lastAssigned[s] \in Nat
      BY DEF IInv, TypeOK
    <3>3. \A r \in streams[s].BufferedBlocks :
            r.Height \in Nat /\ r.Height > streams[s].NextExpectedHeight
      <4> SUFFICES ASSUME NEW r \in streams[s].BufferedBlocks
                   PROVE  r.Height \in Nat /\ r.Height > streams[s].NextExpectedHeight
        OBVIOUS
      <4>1. r.Height \in Nat /\ streams[s].NextExpectedHeight \in Nat
        BY <3>2, ReceiptsAssumption DEF StreamType, ReceiptType
      <4>2. /\ r.Height >= streams[s].NextExpectedHeight
            /\ r.Height # streams[s].NextExpectedHeight
        BY <3>1, Zenon DEF StreamOK
      <4> QED
        BY <4>1, <4>2
    <3>4. \E p \in streams[s].SeenHashes : p[1] = lastAssigned[s]
      <4>1. <<lastAssigned[s], LastHash(s)>> \in streams[s].SeenHashes
        BY <3>1 DEF StreamOK
      <4> QED
        BY <4>1
    <3>5. ASSUME NEW h \in lastAssigned[s] + 1 .. streams[s].ContinuousHeight
          PROVE  \E r \in streams[s].UnassignedBlocks :
                   /\ r.Height = h
                   /\ <<h, r.BlockHash>> \in streams[s].SeenHashes
                   /\ <<h - 1, r.ParentHash>> \in streams[s].SeenHashes
      <4>1. PICK r \in streams[s].UnassignedBlocks : r.Height = h
        BY <3>1 DEF StreamOK
      <4> QED
        BY <3>1, <4>1, Zenon DEF StreamOK
    <3> QED
      BY <3>1, <3>3, <3>4, <3>5, Zenon DEF StreamOK, ValidStream
  <2>2. ValidPending
    BY DEF IInv, PendingOK, ValidPending, Unassigned
  <2>3. ValidFrozen
    <3>1. /\ nextWindowID \in Nat /\ Len(frozen) \in Nat
          /\ Len(frozen) < nextWindowID
          /\ \A k \in 1 .. Len(frozen) :
               frozen[k].WindowID = nextWindowID - 1 - Len(frozen) + k
      BY DEF IInv, TypeOK, FrozenOK
    <3>2. ASSUME NEW k \in 1 .. Len(frozen)
          PROVE  frozen[k].WindowID \in 1 .. nextWindowID - 1
      BY <3>1
    <3>3. ASSUME NEW k \in 1 .. Len(frozen), k > 1
          PROVE  frozen[k].WindowID > frozen[k - 1].WindowID
      <4>1. k - 1 \in 1 .. Len(frozen)
        BY <3>1, <3>3
      <4> QED
        BY <3>1, <4>1
    <3> QED
      BY <3>2, <3>3 DEF ValidFrozen
  <2>4. nextWindowID # 0 /\ \A i \in Intents : assigned[i] < nextWindowID
    BY DEF IInv, TypeOK, SealedOK
  <2> QED
    BY <2>1, <2>2, <2>3, <2>4 DEF ValidState, IInv, PendingOK
<1> QED
  BY <1>1, Invariance, PTL

\* No intent is in two windows, or both sealed and pending.
THEOREM OneWindowPerIntent == Spec => []IntentInOneWindow
<1>1. IInv => IntentInOneWindow
  <2> SUFFICES ASSUME IInv, NEW k \in 1 .. Len(sealed)
               PROVE  /\ sealed[k].Intents \cap pending = {}
                      /\ \A j \in 1 .. Len(sealed) :
                           j # k => sealed[k].Intents \cap sealed[j].Intents = {}
    BY DEF IntentInOneWindow
  <2>1. \A j \in 1 .. Len(sealed) : sealed[j].Intents = {i \in Intents : assigned[i] = j}
    BY DEF IInv, SealedOK
  <2>2. \A i \in pending : assigned[i] = 0
    BY DEF IInv, PendingOK
  <2> QED
    BY <2>1, <2>2
<1> QED
  BY <1>1, Invariance, PTL

(* Each cut of a shard starts where the shard's last one ended: seal leaves *)
(* no gap between windows and cuts no block into two of them.               *)
THEOREM ContiguousCuts == Spec => []CutsContiguous
<1>1. IInv => CutsContiguous
  BY DEF IInv, SealedOK
<1> QED
  BY <1>1, Invariance, PTL

(* The receipts of a window are exactly the linked blocks of its cuts, and  *)
(* its intents exactly theirs: seal skips no block and takes none twice.    *)
THEOREM CoveredCuts == Spec => []CutsCovered
<1>1. IInv => CutsCovered
  BY DEF IInv, SealedOK
<1> QED
  BY <1>1, Invariance, PTL
=============================================================================
