---------------------------- MODULE SolverBeacon ----------------------------
(***************************************************************************)
(* The pipeline between the off-chain Solver and the Beacon shard          *)
(* (pkg/netting/solver, pkg/netting/batchstore, pkg/netting/beacon and     *)
(* consensus/pbft/insideop/beaconop): the Solver collects the receipts of  *)
(* finalized blocks, seals windows into batches that form a hash chain,    *)
(* hands the oldest unfinished batch to the Beacon leader and, once the    *)
(* Beacon has committed it, sends the settlement packages.  The Solver may *)
(* crash and restart from its bbolt store at any point.                    *)
(*                                                                         *)
(* A batch commits to its predecessor through PreviousBatchID, so a        *)
(* BatchID stands for the whole chain that ends in it: here a batch IS     *)
(* that chain, the sequence of the headers of all its windows.             *)
(***************************************************************************)
EXTENDS Integers, Sequences, FiniteSets, FiniteSetsExt

CONSTANTS Shards,       \* the shards that send receipts
          NoBatch,      \* no proposal is under way in the Beacon shard
          MaxHeight,    \* bound: blocks each shard finalizes
          MaxCrashes    \* bound: crashes of the Solver

ASSUME BoundsAssumption ==
    /\ Shards # {} /\ IsFiniteSet(Shards)
    /\ MaxHeight \in Nat /\ MaxCrashes \in Nat

VARIABLES
    blocks,      \* blocks[s]: height of shard s
    receipts,    \* receipts[s]: heights whose receipt is on its way to the Solver
    solver,      \* the Solver's memory (Node), see SolverType
    stored,      \* its last saved snapshot (batchstore)
    dispatched,  \* Node.dispatched: batches handed over since the last start
    toBeacon,    \* BatchProposal messages on their way
    queue,       \* Op.queue of the Beacon leader
    proposal,    \* the batch the Beacon shard is agreeing on, or NoBatch
    tip,         \* the Beacon chain: its last MatchRoot block
    toSolver,    \* MatchRootFinalized messages on their way
    packages,    \* <<shard, batch>>: settlement packages sent
    crashes

vars == <<blocks, receipts, solver, stored, dispatched, toBeacon, queue,
          proposal, tip, toSolver, packages, crashes>>

beacon == <<queue, proposal, tip>>

Heights == 1 .. MaxHeight

HeightMap == [Shards -> 0 .. MaxHeight]

\* What a MatchRoot header says of its window: its number and one cut per shard.
HeaderType == [window : Nat, from : HeightMap, to : HeightMap]

BatchType == Seq(HeaderType)

\* bootstrap, ManagerState (started, height, assigned, window), ChainTip, PendingBatchIDs.
SolverType == [bootstrap : [Shards -> SUBSET Heights], started : BOOLEAN,
               height : HeightMap, assigned : HeightMap, window : Nat,
               chainTip : BatchType, pending : Seq(BatchType)]

Prefix(b, c) == Len(b) <= Len(c) /\ \A k \in 1 .. Len(b) : b[k] = c[k]

Header(b) == b[Len(b)]

PreviousBatchID(b) == SubSeq(b, 1, Len(b) - 1)

\* Settlement packages of batch b, one for every shard of the set.
PackagesOf(shards, b) == {<<s, b>> : s \in shards}

-----------------------------------------------------------------------------

\* New without a stored state.
Fresh == [bootstrap |-> [s \in Shards |-> {}], started |-> FALSE,
          height |-> [s \in Shards |-> 0], assigned |-> [s \in Shards |-> 0],
          window |-> 1, chainTip |-> << >>, pending |-> << >>]

Init ==
    /\ blocks = [s \in Shards |-> 0]
    /\ receipts = [s \in Shards |-> {}]
    /\ solver = Fresh
    /\ stored = Fresh
    /\ dispatched = {}
    /\ toBeacon = << >>
    /\ queue = << >>
    /\ proposal = NoBatch
    /\ tip = << >>
    /\ toSolver = << >>
    /\ packages = {}
    /\ crashes = 0

\* A shard's leader finalizes a block with intents and publishes its receipt.
Publish(s) ==
    /\ blocks[s] < MaxHeight
    /\ blocks' = [blocks EXCEPT ![s] = @ + 1]
    /\ receipts' = [receipts EXCEPT ![s] = @ \cup {blocks[s] + 1}]
    /\ UNCHANGED <<solver, stored, dispatched, toBeacon, beacon, toSolver, packages, crashes>>

\* The height up to which H has no gap above height h.
Continuous(H, h) == CHOOSE k \in h .. MaxHeight :
                        (h + 1) .. k \subseteq H /\ k + 1 \notin H

\* Mutant: the checkpoint lies one block too low.
Bug_CheckpointTooLow(S) ==
    LET checkpoint == [s \in Shards |-> Min(S.bootstrap[s]) - 2]
    IN  [S EXCEPT !.started = TRUE, !.assigned = checkpoint,
                  !.height = [s \in Shards |-> Continuous(S.bootstrap[s], checkpoint[s] + 1)]]

\* initializeManager: the first receipt of each shard fixes its checkpoint.
InitializeManager(S) ==
    LET checkpoint == [s \in Shards |-> Min(S.bootstrap[s]) - 1]
    IN  [S EXCEPT !.started = TRUE,
                  !.bootstrap = [s \in Shards |-> {}],
                  !.assigned = checkpoint,
                  !.height = [s \in Shards |-> Continuous(S.bootstrap[s], checkpoint[s])]]

\* The manager's stream moves on by the next height; a receipt beyond it is only
\* buffered, and as a shard's receipts arrive in order its gap is never filled.
AddReceipt(S, s, h) ==
    IF S.started
      THEN [S EXCEPT !.height[s] = IF h = @ + 1 THEN h ELSE @]
      ELSE LET T == [S EXCEPT !.bootstrap[s] = @ \cup {h}]
           IN  IF \A r \in Shards : T.bootstrap[r] # {} THEN InitializeManager(T) ELSE T

\* HandleReceipt: the receipt is added and the state saved.
HandleReceipt(s) ==
    /\ receipts[s] # {}
    /\ LET h == Min(receipts[s]) IN
         /\ solver' = AddReceipt(solver, s, h)
         /\ receipts' = [receipts EXCEPT ![s] = @ \ {h}]
    /\ stored' = solver'
    /\ UNCHANGED <<blocks, dispatched, toBeacon, beacon, toSolver, packages, crashes>>

\* The header the builder derives from the frozen window.
BuildHeader(S) == [window |-> S.window, from |-> S.assigned, to |-> S.height]

\* Mutant: the next window keeps the number of the sealed one.
Bug_WindowNumberKept(S) ==
    LET b == Append(S.chainTip, BuildHeader(S))
    IN  [S EXCEPT !.assigned = S.height, !.chainTip = b, !.pending = Append(@, b)]

\* The window is sealed and acknowledged, its batch becomes tip and is pending.
Sealed(S) ==
    LET b == Append(S.chainTip, BuildHeader(S))
    IN  [S EXCEPT !.assigned = S.height, !.window = @ + 1,
                  !.chainTip = b, !.pending = Append(@, b)]

\* Mutant: the sealed batch is not saved before it can be dispatched.
Bug_SealUnsaved ==
    /\ solver.started
    /\ solver.height # solver.assigned
    /\ solver' = Sealed(solver)
    /\ UNCHANGED <<blocks, receipts, stored, dispatched, toBeacon, beacon, toSolver, packages,
                   crashes>>

\* TryClose and drainFrozen: the proposal and the state are written together.
Seal ==
    /\ solver.started
    /\ solver.height # solver.assigned
    /\ solver' = Sealed(solver)
    /\ stored' = solver'
    /\ UNCHANGED <<blocks, receipts, dispatched, toBeacon, beacon, toSolver, packages, crashes>>

\* Mutant: every pending batch is dispatched at once, not only the oldest.
Bug_DispatchAny ==
    /\ \E k \in 1 .. Len(solver.pending) :
         /\ solver.pending[k] \notin dispatched
         /\ toBeacon' = Append(toBeacon, solver.pending[k])
         /\ dispatched' = dispatched \cup {solver.pending[k]}
    /\ UNCHANGED <<blocks, receipts, solver, stored, beacon, toSolver, packages, crashes>>

\* Mutant: the packages leave together with the proposal.
Bug_SendEarly ==
    /\ solver.pending # << >>
    /\ Head(solver.pending) \notin dispatched
    /\ toBeacon' = Append(toBeacon, Head(solver.pending))
    /\ dispatched' = dispatched \cup {Head(solver.pending)}
    /\ packages' = packages \cup PackagesOf(Shards, Head(solver.pending))
    /\ UNCHANGED <<blocks, receipts, solver, stored, beacon, toSolver, crashes>>

\* dispatchPending: only the oldest pending batch, once per life of the process.
DispatchPending ==
    /\ solver.pending # << >>
    /\ Head(solver.pending) \notin dispatched
    /\ toBeacon' = Append(toBeacon, Head(solver.pending))
    /\ dispatched' = dispatched \cup {Head(solver.pending)}
    /\ UNCHANGED <<blocks, receipts, solver, stored, beacon, toSolver, packages, crashes>>

Finished(S) == [S EXCEPT !.pending = Tail(@)]

\* HandleFinalized: the packages go out, then the batch leaves pending, then the
\* state is saved.  A finalized batch other than the oldest pending one is an error
\* and ignored (FinalizedExpected: it does not happen).
HandleFinalized ==
    /\ toSolver # << >>
    /\ LET b == Head(toSolver) IN
         IF solver.pending # << >> /\ Head(solver.pending) = b
           THEN /\ packages' = packages \cup PackagesOf(Shards, b)
                /\ solver' = Finished(solver)
                /\ dispatched' = dispatched \ {b}
                /\ stored' = solver'
           ELSE UNCHANGED <<packages, solver, dispatched, stored>>
    /\ toSolver' = Tail(toSolver)
    /\ UNCHANGED <<blocks, receipts, toBeacon, beacon, crashes>>

\* New with a stored state: everything else the Solver knew is gone, and with it
\* the receipts in its message buffer, the oldest ones of each shard.
Restart ==
    /\ crashes < MaxCrashes
    /\ crashes' = crashes + 1
    /\ solver' = stored
    /\ dispatched' = {}
    /\ \E lost \in HeightMap :
         receipts' = [s \in Shards |-> {h \in receipts[s] : h > lost[s]}]

Crash ==
    /\ Restart
    /\ toSolver' \in {toSolver, << >>}
    /\ UNCHANGED <<blocks, stored, toBeacon, beacon, packages>>

\* Mutant: the state is saved before the packages are sent.
Bug_SaveBeforeSend ==
    /\ toSolver # << >>
    /\ solver.pending # << >> /\ Head(solver.pending) = Head(toSolver)
    /\ crashes < MaxCrashes
    /\ crashes' = crashes + 1
    /\ stored' = Finished(solver) /\ solver' = stored'
    /\ dispatched' = {}
    /\ toSolver' = Tail(toSolver)
    /\ UNCHANGED <<blocks, receipts, toBeacon, beacon, packages>>

\* The crash hits HandleFinalized after the packages of some shards were sent and
\* before SaveState.
CrashWhileSending ==
    /\ toSolver # << >>
    /\ solver.pending # << >> /\ Head(solver.pending) = Head(toSolver)
    /\ Restart
    /\ \E sent \in SUBSET Shards : packages' = packages \cup PackagesOf(sent, Head(toSolver))
    /\ toSolver' = Tail(toSolver)
    /\ UNCHANGED <<blocks, stored, toBeacon, beacon>>

-----------------------------------------------------------------------------

\* HandleMsgOutsideShard of the Beacon leader: a batch already queued is ignored.
HandleBatchProposal ==
    /\ toBeacon # << >>
    /\ LET b == Head(toBeacon) IN
         queue' = IF \E k \in 1 .. Len(queue) : queue[k] = b THEN queue ELSE Append(queue, b)
    /\ toBeacon' = Tail(toBeacon)
    /\ UNCHANGED <<blocks, receipts, solver, stored, dispatched, proposal, tip, toSolver,
                   packages, crashes>>

\* validateSequence: the batch follows the tip of the Beacon chain.
Sequential(b) ==
    /\ b # << >>
    /\ PreviousBatchID(b) = tip
    /\ Header(b).window = IF tip = << >> THEN 1 ELSE Header(tip).window + 1

\* Validator.Validate: so do its cuts.
Validate(b) ==
    /\ Sequential(b)
    /\ \A s \in Shards :
         /\ Header(b).from[s] <= Header(b).to[s]
         /\ tip # << >> => Header(b).from[s] = Header(tip).to[s]

\* BuildProposal: the head of the queue is validated; when that fails the head
\* stays where it is.
BuildProposal ==
    /\ proposal = NoBatch
    /\ queue # << >>
    /\ Validate(Head(queue))
    /\ proposal' = Head(queue)
    /\ UNCHANGED <<blocks, receipts, solver, stored, dispatched, toBeacon, queue, tip,
                   toSolver, packages, crashes>>

\* Mutant: the committed batch stays queued.
Bug_StaysQueued(q, b) == q

\* removeQueued: the entry of the batch (the queue holds no batch twice) is cut out.
RemoveQueued(q, b) ==
    IF \E k \in 1 .. Len(q) : q[k] = b
      THEN LET k == CHOOSE k \in 1 .. Len(q) : q[k] = b
           IN  SubSeq(q, 1, k - 1) \o SubSeq(q, k + 1, Len(q))
      ELSE q

\* Store.Commit, one bbolt transaction.
Commit(b) == Sequential(b) /\ tip' = b

\* ProposalCommitAndDeliver at the leader: store.Commit, removeQueued, broadcast.
CommitAndDeliver ==
    /\ proposal # NoBatch
    /\ Commit(proposal)
    /\ queue' = RemoveQueued(queue, proposal)
    /\ toSolver' = Append(toSolver, proposal)
    /\ proposal' = NoBatch
    /\ UNCHANGED <<blocks, receipts, solver, stored, dispatched, toBeacon, packages, crashes>>

Next ==
    \/ \E s \in Shards : Publish(s) \/ HandleReceipt(s)
    \/ Seal
    \/ DispatchPending
    \/ HandleFinalized
    \/ Crash
    \/ CrashWhileSending
    \/ HandleBatchProposal
    \/ BuildProposal
    \/ CommitAndDeliver

Spec == Init /\ [][Next]_vars

\* The Solver's ticker and the Beacon leader's loop keep running; no shard owes
\* a block and no crash has to happen.
Fairness ==
    /\ \A s \in Shards : WF_vars(HandleReceipt(s))
    /\ WF_vars(Seal) /\ WF_vars(DispatchPending) /\ WF_vars(HandleFinalized)
    /\ WF_vars(HandleBatchProposal) /\ WF_vars(BuildProposal) /\ WF_vars(CommitAndDeliver)

FairSpec == Spec /\ Fairness

-----------------------------------------------------------------------------

\* Every variable has its type; the snapshot has the type of the Solver's memory.
TypeOK ==
    /\ blocks \in HeightMap
    /\ receipts \in [Shards -> SUBSET Heights]
    /\ solver \in SolverType /\ stored \in SolverType
    /\ dispatched \subseteq BatchType
    /\ toBeacon \in Seq(BatchType) /\ queue \in Seq(BatchType) /\ toSolver \in Seq(BatchType)
    /\ proposal \in BatchType \cup {NoBatch}
    /\ tip \in BatchType
    /\ packages \subseteq Shards \X BatchType
    /\ crashes \in 0 .. MaxCrashes

\* Every batch the Solver ever let out of its hands (on its way, queued, under
\* agreement, committed, announced or settled).
Released ==
    {toBeacon[k] : k \in 1 .. Len(toBeacon)} \cup {queue[k] : k \in 1 .. Len(queue)}
      \cup {toSolver[k] : k \in 1 .. Len(toSolver)}
      \cup ({proposal} \ {NoBatch}) \cup {tip} \cup {p[2] : p \in packages}

\* No restart makes the Solver build a second, different batch for a window: all
\* released batches lie on the one chain that ends in the saved ChainTip
\* (drainFrozen writes proposal and state before dispatchPending sends).
OneChain == \A b \in Released : Prefix(b, stored.chainTip)

\* The Beacon never refuses the Solver's oldest pending batch unless it has
\* committed it already: its sequence and cuts continue the Beacon chain.
HeadAcceptable ==
    solver.pending # << >> =>
        Validate(Head(solver.pending)) \/ Prefix(Head(solver.pending), tip)

\* A MatchRootFinalized message always finds its batch at the head of pending:
\* the "unexpected finalized batch" error, which would make Step drop the
\* messages it drained, never happens, crashes included.
FinalizedExpected ==
    toSolver # << >> =>
        /\ Len(toSolver) = 1
        /\ solver.pending # << >> /\ Head(solver.pending) = Head(toSolver)

\* No batch is forgotten: each one on the Solver's chain is still pending in the
\* store or the packages of all its shards have been sent (HandleFinalized sends
\* before it saves).
PendingOrSent ==
    \A k \in 1 .. Len(stored.chainTip) :
        LET b == SubSeq(stored.chainTip, 1, k) IN
            \/ \E j \in 1 .. Len(stored.pending) : stored.pending[j] = b
            \/ PackagesOf(Shards, b) \subseteq packages

\* Packages are sent for batches the Beacon has committed and for no others.
SentIsCommitted == \A p \in packages : Prefix(p[2], tip) /\ p[2] # << >>

\* As long as the Solver does not crash every sealed batch is committed by the
\* Beacon and its settlement packages are sent.
BatchFinalizes ==
    \A w \in 1 .. MaxHeight * Cardinality(Shards) :
        (Len(solver.chainTip) >= w)
            ~> \/ crashes > 0
               \/ \A s \in Shards : \E p \in packages : p[1] = s /\ Len(p[2]) = w

\* The Beacon leader never meets a sequence error: the head of its queue always
\* continues the Beacon chain (BuildProposal, validateSequence).
NoSequenceError == queue # << >> => Validate(Head(queue))
=============================================================================
