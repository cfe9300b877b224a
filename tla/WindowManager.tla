--------------------------- MODULE WindowManager ---------------------------
(***************************************************************************)
(* The vector-cut window manager of the Solver (pkg/netting/window).       *)
(*                                                                         *)
(* The manager consumes receipts of finalized shard blocks in any order,   *)
(* buffers those that are ahead of the shard's watermark, moves contiguous *)
(* blocks into the open window, and seals the window when it holds         *)
(* BatchSize intents or when MaxWindowDuration has passed.  A sealed       *)
(* window carries, per shard, the cut (PreviousHeight, EndHeight] it       *)
(* covers.                                                                 *)
(*                                                                         *)
(* AddReceipt of the code runs to completion on one goroutine.  Its loop   *)
(* (advanceStream) is modelled one iteration at a time: `advancing` is the *)
(* program counter of that loop, and no other operation of the manager is  *)
(* enabled while it is set.                                                *)
(***************************************************************************)
EXTENDS Naturals, Sequences, FiniteSets

CONSTANTS
  Shards,      \* the ordinary shards, 0..ShardCount-1 in the code
  NoShard,     \* the value of `advancing` when no AddReceipt is running
  Intents,     \* identifiers of payment intents
  Hashes,      \* block hashes
  Receipts,    \* the receipts that may be handed to AddReceipt
  Checkpoint,  \* per shard, the block the stream starts after
  BatchSize    \* Config.BatchSize

(***************************************************************************)
(* A receipt whose intents name another source shard, whose IDs cannot be  *)
(* computed, or which lists an intent twice is "malformed": the tests of   *)
(* validateReceiptIntents that do not depend on the manager's state.       *)
(***************************************************************************)
ReceiptType ==
  [ShardID: Shards, Height: Nat, BlockHash: Hashes, ParentHash: Hashes,
   Intents: SUBSET Intents, malformed: BOOLEAN]

ASSUME ShardsAssumption == NoShard \notin Shards
ASSUME ReceiptsAssumption == Receipts \subseteq ReceiptType
ASSUME CheckpointAssumption ==
  Checkpoint \in [Shards -> [Height: Nat, BlockHash: Hashes]]
ASSUME BatchSizeAssumption == BatchSize \in Nat \ {0}

VARIABLES
  nextWindowID,
  openedAt,      \* "nil", "running", or "elapsed" after MaxWindowDuration
  pending,       \* intents of the open window
  assigned,      \* window an intent was sealed into, 0 for none
  lastAssigned,  \* per shard, EndHeight of the last sealed cut
  streams,       \* per shard, the StreamState record
  frozen,        \* sealed windows the Solver has not acknowledged
  advancing,     \* shard whose advanceStream loop is running, or NoShard
  sealed         \* history: every window ever sealed, in order

vars == <<nextWindowID, openedAt, pending, assigned, lastAssigned, streams,
          frozen, advancing, sealed>>

StreamType ==
  [NextExpectedHeight: Nat, ContinuousHeight: Nat, ContinuousHash: Hashes,
   BufferedBlocks: SUBSET Receipts, UnassignedBlocks: SUBSET Receipts,
   SeenHashes: SUBSET (Nat \X Hashes)]

CutType == [PreviousHeight: Nat, EndHeight: Nat, EndBlockHash: Hashes]

WindowType ==
  [WindowID: Nat, Cuts: [Shards -> CutType], Receipts: SUBSET Receipts,
   Intents: SUBSET Intents]

-----------------------------------------------------------------------------
\* Plausible bug: openedAt starts as the zero time instead of nil.
Bug_InitZeroTime ==
  /\ nextWindowID = 1
  /\ openedAt = "zero time"
  /\ pending = {}
  /\ assigned = [i \in Intents |-> 0]
  /\ lastAssigned = [s \in Shards |-> Checkpoint[s].Height]
  /\ streams = [s \in Shards |->
       [NextExpectedHeight |-> Checkpoint[s].Height + 1,
        ContinuousHeight   |-> Checkpoint[s].Height,
        ContinuousHash     |-> Checkpoint[s].BlockHash,
        BufferedBlocks     |-> {},
        UnassignedBlocks   |-> {},
        SeenHashes         |-> {<<Checkpoint[s].Height, Checkpoint[s].BlockHash>>}]]
  /\ frozen = <<>>
  /\ advancing = NoShard
  /\ sealed = <<>>

\* New: every stream starts right after its checkpoint.
Init ==
  /\ nextWindowID = 1
  /\ openedAt = "nil"
  /\ pending = {}
  /\ assigned = [i \in Intents |-> 0]
  /\ lastAssigned = [s \in Shards |-> Checkpoint[s].Height]
  /\ streams = [s \in Shards |->
       [NextExpectedHeight |-> Checkpoint[s].Height + 1,
        ContinuousHeight   |-> Checkpoint[s].Height,
        ContinuousHash     |-> Checkpoint[s].BlockHash,
        BufferedBlocks     |-> {},
        UnassignedBlocks   |-> {},
        SeenHashes         |-> {<<Checkpoint[s].Height, Checkpoint[s].BlockHash>>}]]
  /\ frozen = <<>>
  /\ advancing = NoShard
  /\ sealed = <<>>

\* Plausible bug: the block at the end of the cut is left out.
Bug_InCutOffByOne(strm, prev) ==
  {r \in strm.UnassignedBlocks : prev < r.Height /\ r.Height < strm.ContinuousHeight}

\* The receipts of a shard that a window sealed now takes over.
InCut(strm, prev) ==
  {r \in strm.UnassignedBlocks : prev < r.Height /\ r.Height <= strm.ContinuousHeight}

\* Plausible bug: a cut starts at the checkpoint instead of the last cut.
Bug_CutFromCheckpoint(strms, pend) ==
  [WindowID |-> nextWindowID,
   Cuts     |-> [s \in Shards |->
                  [PreviousHeight |-> Checkpoint[s].Height,
                   EndHeight      |-> strms[s].ContinuousHeight,
                   EndBlockHash   |-> strms[s].ContinuousHash]],
   Receipts |-> UNION {InCut(strms[s], lastAssigned[s]) : s \in Shards},
   Intents  |-> pend]

\* The window `seal` builds from streams strms and pending intents pend.
NewWindow(strms, pend) ==
  [WindowID |-> nextWindowID,
   Cuts     |-> [s \in Shards |->
                  [PreviousHeight |-> lastAssigned[s],
                   EndHeight      |-> strms[s].ContinuousHeight,
                   EndBlockHash   |-> strms[s].ContinuousHash]],
   Receipts |-> UNION {InCut(strms[s], lastAssigned[s]) : s \in Shards},
   Intents  |-> pend]

\* seal, applied to the streams and pending intents its caller has computed.
Seal(strms, pend) ==
  /\ sealed' = Append(sealed, NewWindow(strms, pend))
  /\ frozen' = Append(frozen, NewWindow(strms, pend))
  /\ streams' = [s \in Shards |->
       [strms[s] EXCEPT !.UnassignedBlocks = @ \ InCut(strms[s], lastAssigned[s])]]
  /\ lastAssigned' = [s \in Shards |-> strms[s].ContinuousHeight]
  /\ assigned' = [i \in Intents |-> IF i \in pend THEN nextWindowID ELSE assigned[i]]
  /\ pending' = {}
  /\ openedAt' = "nil"
  /\ nextWindowID' = nextWindowID + 1

\* Plausible bug: only the size condition closes a window.
Bug_NoTimeClose(pend, opened) ==
  /\ pend # {}
  /\ opened # "nil"
  /\ Cardinality(pend) >= BatchSize

ReadyToClose(pend, opened) ==
  /\ pend # {}
  /\ opened # "nil"
  /\ Cardinality(pend) >= BatchSize \/ opened = "elapsed"

\* TryClose, as the last step of its caller.
TryCloseWith(strms, pend, opened) ==
  \/ /\ ReadyToClose(pend, opened)
     /\ Seal(strms, pend)
  \/ /\ ~ReadyToClose(pend, opened)
     /\ streams' = strms
     /\ pending' = pend
     /\ openedAt' = opened
     /\ UNCHANGED <<nextWindowID, assigned, lastAssigned, frozen, sealed>>

-----------------------------------------------------------------------------
(***************************************************************************)
(* AddReceipt up to its call of advanceStream.  A receipt at a seen height *)
(* with another hash, or below the next expected height, is refused with   *)
(* no effect and has no action.                                            *)
(***************************************************************************)
AddReceipt(r) ==
  LET strm == streams[r.ShardID] IN
  /\ advancing = NoShard
  /\ r.Height # 0
  /\ ~\E p \in strm.SeenHashes : p[1] = r.Height
  /\ r.Height >= strm.NextExpectedHeight
  /\ streams' = [streams EXCEPT
       ![r.ShardID].BufferedBlocks = @ \cup {r},
       ![r.ShardID].SeenHashes = @ \cup {<<r.Height, r.BlockHash>>}]
  /\ advancing' = r.ShardID
  /\ UNCHANGED <<nextWindowID, openedAt, pending, assigned, lastAssigned,
                 frozen, sealed>>

\* AddReceipt of a receipt already seen with the same hash.
AddSeenReceipt(r) ==
  /\ advancing = NoShard
  /\ r.Height # 0
  /\ <<r.Height, r.BlockHash>> \in streams[r.ShardID].SeenHashes
  /\ TryCloseWith(streams, pending, openedAt)
  /\ UNCHANGED advancing

\* Plausible bug: intents of sealed windows are not looked up.
Bug_ForgetAssigned(strm, r) ==
  /\ r.ParentHash = strm.ContinuousHash
  /\ ~r.malformed
  /\ r.Intents \cap pending = {}

\* The buffered block at the next expected height is acceptable.
Acceptable(strm, r) ==
  /\ r.ParentHash = strm.ContinuousHash
  /\ ~r.malformed
  /\ \A i \in r.Intents : i \notin pending /\ assigned[i] = 0

\* The stream after the block has moved from the buffer to the open window.
MoveBlock(strm, r) ==
  [NextExpectedHeight |-> strm.NextExpectedHeight + 1,
   ContinuousHeight   |-> r.Height,
   ContinuousHash     |-> r.BlockHash,
   BufferedBlocks     |-> strm.BufferedBlocks \ {r},
   UnassignedBlocks   |-> strm.UnassignedBlocks \cup {r},
   SeenHashes         |-> strm.SeenHashes]

\* One iteration of advanceStream that moves a block into the open window.
AdvanceStream(s, r) ==
  /\ advancing = s
  /\ r \in streams[s].BufferedBlocks
  /\ r.Height = streams[s].NextExpectedHeight
  /\ Acceptable(streams[s], r)
  /\ TryCloseWith(
       [streams EXCEPT ![s] = MoveBlock(@, r)],
       pending \cup r.Intents,
       IF r.Intents # {} /\ openedAt = "nil" THEN "running" ELSE openedAt)
  /\ UNCHANGED advancing

\* Plausible bug: the hash of a refused block is forgotten, the block is not.
Bug_KeepDropped(s, r) ==
  /\ advancing = s
  /\ r \in streams[s].BufferedBlocks
  /\ r.Height = streams[s].NextExpectedHeight
  /\ ~Acceptable(streams[s], r)
  /\ streams' = [streams EXCEPT ![s].SeenHashes = {p \in @ : p[1] # r.Height}]
  /\ advancing' = NoShard
  /\ UNCHANGED <<nextWindowID, openedAt, pending, assigned, lastAssigned,
                 frozen, sealed>>

\* dropBuffered: the block is forgotten and AddReceipt returns an error.
DropBuffered(s, r) ==
  /\ advancing = s
  /\ r \in streams[s].BufferedBlocks
  /\ r.Height = streams[s].NextExpectedHeight
  /\ ~Acceptable(streams[s], r)
  /\ streams' = [streams EXCEPT
       ![s].BufferedBlocks = @ \ {r},
       ![s].SeenHashes = {p \in @ : p[1] # r.Height}]
  /\ advancing' = NoShard
  /\ UNCHANGED <<nextWindowID, openedAt, pending, assigned, lastAssigned,
                 frozen, sealed>>

\* advanceStream finds no block to move; AddReceipt ends with TryClose.
AdvanceDone(s) ==
  /\ advancing = s
  /\ ~\E r \in streams[s].BufferedBlocks : r.Height = streams[s].NextExpectedHeight
  /\ TryCloseWith(streams, pending, openedAt)
  /\ advancing' = NoShard

\* The Solver's periodic TryClose.
TryClose ==
  /\ advancing = NoShard
  /\ TryCloseWith(streams, pending, openedAt)
  /\ UNCHANGED advancing

\* MaxWindowDuration passes on the clock since the window was opened.
Elapse ==
  /\ openedAt = "running"
  /\ openedAt' = "elapsed"
  /\ UNCHANGED <<nextWindowID, pending, assigned, lastAssigned, streams, frozen,
                 advancing, sealed>>

\* PeekFrozen followed by AcknowledgeFrozen of the same window.
AcknowledgeFrozen ==
  /\ advancing = NoShard
  /\ frozen # <<>>
  /\ frozen' = Tail(frozen)
  /\ UNCHANGED <<nextWindowID, openedAt, pending, assigned, lastAssigned,
                 streams, advancing, sealed>>

Advance(s) ==
  \/ \E r \in Receipts : AdvanceStream(s, r) \/ DropBuffered(s, r)
  \/ AdvanceDone(s)

Next ==
  \/ \E r \in Receipts : AddReceipt(r) \/ AddSeenReceipt(r)
  \/ \E s \in Shards : Advance(s)
  \/ TryClose
  \/ Elapse
  \/ AcknowledgeFrozen

Spec == Init /\ [][Next]_vars

(***************************************************************************)
(* The Solver runs every handler to its end, and the clock does not stop.  *)
(* It calls TryClose on every tick whose messages were all handled without *)
(* error; a refused receipt ends the tick early.  Fairness is strong: a    *)
(* leader publishes a receipt once per block, so ticks without a refused   *)
(* receipt keep occurring.                                                 *)
(***************************************************************************)
FairSpec ==
  /\ Spec
  /\ \A s \in Shards : WF_vars(Advance(s))
  /\ SF_vars(TryClose)
  /\ WF_vars(Elapse)
-----------------------------------------------------------------------------
(***************************************************************************)
(* validateState: what Restore demands of a persisted snapshot.            *)
(***************************************************************************)
Unassigned == UNION {streams[s].UnassignedBlocks : s \in Shards}

ValidStream(s) ==
  LET strm == streams[s] IN
  /\ strm.NextExpectedHeight = strm.ContinuousHeight + 1
  /\ lastAssigned[s] <= strm.ContinuousHeight
  /\ <<strm.ContinuousHeight, strm.ContinuousHash>> \in strm.SeenHashes
  /\ \E p \in strm.SeenHashes : p[1] = lastAssigned[s]
  /\ \A h \in lastAssigned[s] + 1 .. strm.ContinuousHeight :
       \E r \in strm.UnassignedBlocks :
         /\ r.Height = h
         /\ <<h, r.BlockHash>> \in strm.SeenHashes
         /\ <<h - 1, r.ParentHash>> \in strm.SeenHashes
  /\ \A r \in strm.UnassignedBlocks :
       /\ r.ShardID = s
       /\ lastAssigned[s] < r.Height /\ r.Height <= strm.ContinuousHeight
  /\ \A r \in strm.BufferedBlocks :
       /\ r.ShardID = s
       /\ r.Height > strm.NextExpectedHeight
       /\ <<r.Height, r.BlockHash>> \in strm.SeenHashes

ValidPending ==
  /\ \A r, q \in Unassigned : r # q => r.Intents \cap q.Intents = {}
  /\ pending = UNION {r.Intents : r \in Unassigned}
  /\ \A i \in pending : assigned[i] = 0

ValidFrozen ==
  \A k \in 1 .. Len(frozen) :
    /\ frozen[k].WindowID \in 1 .. nextWindowID - 1
    /\ k > 1 => frozen[k].WindowID > frozen[k - 1].WindowID

ValidState ==
  /\ nextWindowID # 0
  /\ (pending = {}) <=> (openedAt = "nil")
  /\ \A s \in Shards : ValidStream(s)
  /\ ValidPending
  /\ \A i \in Intents : assigned[i] < nextWindowID
  /\ ValidFrozen

-----------------------------------------------------------------------------
\* Every variable has its type.
TypeOK ==
  /\ nextWindowID \in Nat
  /\ openedAt \in {"nil", "running", "elapsed"}
  /\ pending \in SUBSET Intents
  /\ assigned \in [Intents -> Nat]
  /\ lastAssigned \in [Shards -> Nat]
  /\ streams \in [Shards -> StreamType]
  /\ frozen \in Seq(WindowType)
  /\ advancing \in Shards \cup {NoShard}
  /\ sealed \in Seq(WindowType)

(***************************************************************************)
(* Whenever no AddReceipt is running, Restore would accept a snapshot of   *)
(* the manager: validateState never refuses a state that receipts, clock   *)
(* ticks and acknowledgements in any order, including refused, conflicting *)
(* and out-of-order receipts, have led to.                                 *)
(***************************************************************************)
Restorable == advancing = NoShard => ValidState

(***************************************************************************)
(* An intent belongs to at most one window, however often and in whatever  *)
(* order the receipts that carry it are delivered, and an intent of a      *)
(* sealed window is never pending again.                                   *)
(***************************************************************************)
IntentInOneWindow ==
  \A k \in 1 .. Len(sealed) :
    /\ sealed[k].Intents \cap pending = {}
    /\ \A j \in 1 .. Len(sealed) :
         j # k => sealed[k].Intents \cap sealed[j].Intents = {}

\* Where shard s stood before window k was sealed.
CutBefore(k, s) ==
  IF k = 1 THEN Checkpoint[s]
  ELSE [Height |-> sealed[k - 1].Cuts[s].EndHeight,
        BlockHash |-> sealed[k - 1].Cuts[s].EndBlockHash]

(***************************************************************************)
(* The cuts of a shard are contiguous and do not overlap: window k starts  *)
(* where window k-1 ended (the first one at the checkpoint), and the       *)
(* manager's lastAssigned is the end of the last one.  Window IDs are      *)
(* consecutive.  The Beacon validator refuses a batch otherwise.           *)
(***************************************************************************)
CutsContiguous ==
  /\ nextWindowID = Len(sealed) + 1
  /\ \A k \in 1 .. Len(sealed) : \A s \in Shards :
       LET cut == sealed[k].Cuts[s] IN
       /\ sealed[k].WindowID = k
       /\ cut.PreviousHeight = CutBefore(k, s).Height
       /\ cut.PreviousHeight <= cut.EndHeight
       /\ k = Len(sealed) => lastAssigned[s] = cut.EndHeight

\* Window k holds one block per height of each of its cuts, linked to the
\* block before the cut, and the intents of those blocks.
WindowCovered(k) ==
  LET w == sealed[k] IN
  /\ w.Intents = UNION {r.Intents : r \in w.Receipts}
  /\ \A r \in w.Receipts :
       LET cut == w.Cuts[r.ShardID] IN
       /\ cut.PreviousHeight < r.Height /\ r.Height <= cut.EndHeight
       /\ r.Height = cut.PreviousHeight + 1
            => r.ParentHash = CutBefore(k, r.ShardID).BlockHash
       /\ r.Height = cut.EndHeight => r.BlockHash = cut.EndBlockHash
       /\ \A q \in w.Receipts : q.ShardID = r.ShardID =>
            /\ q.Height = r.Height => q = r
            /\ q.Height = r.Height + 1 => q.ParentHash = r.BlockHash
  /\ \A s \in Shards :
       \A h \in w.Cuts[s].PreviousHeight + 1 .. w.Cuts[s].EndHeight :
         \E r \in w.Receipts : r.ShardID = s /\ r.Height = h

(***************************************************************************)
(* The receipts of a window are, shard by shard, exactly one block per     *)
(* height of the cut, linked by parent hashes from the block the previous  *)
(* cut ended at to EndBlockHash; and the window's intents are exactly the  *)
(* intents of those blocks.  No finalized block is skipped and none is in  *)
(* two windows.                                                            *)
(***************************************************************************)
CutsCovered == \A k \in 1 .. Len(sealed) : WindowCovered(k)

(***************************************************************************)
(* A pending intent is eventually sealed into a window: the batch-size or  *)
(* the time condition is met, whatever other receipts do.                  *)
(***************************************************************************)
PendingIsSealed == \A i \in Intents : i \in pending ~> assigned[i] # 0
=============================================================================
