-------------------------------- MODULE Pbft --------------------------------
(***************************************************************************)
(* One shard of consensus nodes: consensus/pbft/node.go and pbftmeta.go,   *)
(* the message pool of consensus/pbft/basicstructs and the part of         *)
(* pkg/chain the protocol rests on (validateBlock, AddBlock,               *)
(* GetBlocksAfterHeight).  The view never changes in this code, so the     *)
(* ViewSeq of the source is its Seq here.                                  *)
(*                                                                         *)
(* A step of a replica is one tick of Node.run that handles one message:   *)
(* the handler, then advanceConsensus.  What a node broadcasts is put into *)
(* its own buffer at once, and so into its own pool before anything it     *)
(* receives later.  To others, the network may delay and reorder           *)
(* messages at will, and a message that no step ever receives is lost; a   *)
(* proposal a follower rejects because of the state its transactions read  *)
(* has the effect of a lost one.                                           *)
(***************************************************************************)
EXTENDS Integers, Sequences, FiniteSets

CONSTANTS
    Replicas,          \* the NodeNum nodes of the shard
    Leader,            \* initialLeader
    Live,              \* the nodes that run; the others are down for good
    NoMsg,             \* the nil curPreprepare
    catchUpThreshold,
    blocksFetchLimit,
    Stoppable,         \* bound: the nodes that are sent StopConsensus
    MaxSeq,            \* bound: rounds the leader opens
    MaxFailures        \* bound: writes to the block storage that fail

ASSUME ReplicasAssumption == IsFiniteSet(Replicas)
ASSUME LeaderAssumption == Leader \in Live /\ Live \subseteq Replicas
ASSUME ThresholdAssumption == catchUpThreshold \in Nat \ {0} /\ blocksFetchLimit \in Nat
ASSUME BoundsAssumption == MaxSeq \in Nat /\ MaxFailures \in Nat

VARIABLES
    \* consensusMeta
    proposed, curSeq, stage, curPreprepare, prepareSet, commitSet,
    latestSeq, catchupStarted, closed,
    \* MsgPool
    preprepares, prepares, commits,
    \* Chain: the blocks above the genesis block
    chain,
    \* the messages under way, and the number of blocks generated so far
    net, generated,
    \* failed writes so far; what each node has voted to commit; the
    \* block proposed in each round (the last two are history)
    failures, votes, log

meta == <<proposed, curSeq, stage, curPreprepare, prepareSet, commitSet>>
pool == <<preprepares, prepares, commits>>
vars == <<meta, latestSeq, catchupStarted, closed, pool, chain, net,
          generated, failures, votes, log>>

Block == [hash : Nat, parent : Nat, Number : Nat]
PreprepareMsg == [Seq : Nat, P : Block]
VoteMsg == [Seq : Nat, digest : Nat, NodeID : Replicas]
BallotType == [Seq : Nat, digest : Nat]

ASSUME NoMsgAssumption == NoMsg \notin PreprepareMsg

Preprepare(to, m) == [type |-> "Preprepare", to |-> to, body |-> m]
Prepare(to, m) == [type |-> "Prepare", to |-> to, body |-> m]
Commit(to, m) == [type |-> "Commit", to |-> to, body |-> m]
CatchupReq(from, height) == [type |-> "CatchupReq", to |-> Leader, from |-> from, StartBlockHeight |-> height]
CatchupResp(to, blocks, next) == [type |-> "CatchupResp", to |-> to, Proposals |-> blocks, NextSeq |-> next]

f == (Cardinality(Replicas) - 1) \div 3
\* Mutant: a quorum one vote short.
Bug_QuorumOffByOne == 2 * f

Quorum == 2 * f + 1

Init ==
    /\ proposed = [r \in Replicas |-> FALSE]
    /\ curSeq = [r \in Replicas |-> 0]
    /\ stage = [r \in Replicas |-> "preprepare"]
    /\ curPreprepare = [r \in Replicas |-> NoMsg]
    /\ prepareSet = [r \in Replicas |-> {}]
    /\ commitSet = [r \in Replicas |-> {}]
    /\ latestSeq = [r \in Replicas |-> 0]
    /\ catchupStarted = [r \in Replicas |-> FALSE]
    /\ closed = [r \in Replicas |-> FALSE]
    /\ preprepares = [r \in Replicas |-> {}]
    /\ prepares = [r \in Replicas |-> {}]
    /\ commits = [r \in Replicas |-> {}]
    /\ chain = [r \in Replicas |-> <<>>]
    /\ net = {}
    /\ generated = 0
    /\ failures = 0
    /\ votes = [r \in Replicas |-> {}]
    /\ log = <<>>

-----------------------------------------------------------------------------
(* The chain.  A block hash is the rank of the block among the generated   *)
(* ones, 0 for the genesis block every replica derives alike.              *)

Tip(ch) == IF ch = <<>> THEN 0 ELSE ch[Len(ch)].hash

GenerateBlock(ch) == [hash |-> generated + 1, parent |-> Tip(ch), Number |-> Len(ch) + 1]

\* Chain.validateBlock.
ValidBlock(ch, b) == b.parent = Tip(ch) /\ b.Number = Len(ch) + 1

\* Chain.GetBlocksAfterHeight, when it returns no error.
BlocksFrom(ch, begin) == SubSeq(ch, begin, Len(ch))

\* AddBlock on the chain of r, as the last step of a round: it refuses an
\* invalid block, and its write to the storage may fail.  Either way the
\* error is only logged, and the round is over.
CommitBlock(r, b) ==
    \/ /\ ValidBlock(chain[r], b)
       /\ chain' = [chain EXCEPT ![r] = Append(@, b)]
       /\ UNCHANGED failures
    \/ /\ ~ ValidBlock(chain[r], b)
       /\ UNCHANGED <<chain, failures>>
    \/ /\ ValidBlock(chain[r], b)
       /\ failures < MaxFailures
       /\ failures' = failures + 1
       /\ UNCHANGED chain

-----------------------------------------------------------------------------
(* advanceConsensus: curateMsg, then step2NextStage until the stage stays. *)

\* What ReadPreprepareMsg, ReadPrepareMsg and ReadCommitMsg leave in a queue.
Later(msgs, seq) == {m \in msgs : m.Seq > seq}

\* The proposal of the round after curateMsg: the one it already had, or one
\* read from the pool.
RoundProposal(r, pp) ==
    LET ready == {m \in pp : m.Seq = curSeq[r]}
    IN  IF curPreprepare[r] # NoMsg THEN {curPreprepare[r]}
        ELSE IF ready = {} THEN {NoMsg} ELSE ready

\* The senders of the votes curateMsg counts for the proposal cur.
Voters(msgs, cur) == {m.NodeID : m \in {v \in msgs : v.Seq = cur.Seq /\ v.digest = cur.P.hash}}

\* Mutant: the vote does not say who sends it, as the preprepare message does not.
Bug_VoteUnsigned(r, cur) == [Seq |-> cur.Seq, digest |-> cur.P.hash, NodeID |-> 0]

Vote(r, cur) == [Seq |-> cur.Seq, digest |-> cur.P.hash, NodeID |-> r]

\* Mutant: curateMsg reads the votes although it has no proposal to match them.
Bug_DrainVotesEarly(r, pp, p, c, rest) ==
    /\ RoundProposal(r, pp) = {NoMsg}
    /\ preprepares' = [preprepares EXCEPT ![r] = Later(pp, curSeq[r])]
    /\ prepares' = [prepares EXCEPT ![r] = Later(p, curSeq[r])]
    /\ commits' = [commits EXCEPT ![r] = Later(c, curSeq[r])]
    /\ net' = rest
    /\ UNCHANGED <<meta, chain, failures, votes>>

\* What a vote for cur says, whoever sends it.
Ballot(cur) == [Seq |-> cur.Seq, digest |-> cur.P.hash]

\* curateMsg and step2Next return early: no proposal for this round yet.  The
\* votes that are ahead of it stay in the pool.
AwaitProposal(r, pp, p, c, rest) ==
    /\ RoundProposal(r, pp) = {NoMsg}
    /\ preprepares' = [preprepares EXCEPT ![r] = Later(pp, curSeq[r])]
    /\ prepares' = [prepares EXCEPT ![r] = p]
    /\ commits' = [commits EXCEPT ![r] = c]
    /\ net' = rest
    /\ UNCHANGED <<meta, chain, failures, votes>>

\* The round waits for more votes, in the stage it has reached.
RoundGoesOn(r, cur, reached, ps, cs) ==
    /\ stage' = [stage EXCEPT ![r] = reached]
    /\ curPreprepare' = [curPreprepare EXCEPT ![r] = cur]
    /\ prepareSet' = [prepareSet EXCEPT ![r] = ps]
    /\ commitSet' = [commitSet EXCEPT ![r] = cs]
    /\ UNCHANGED <<proposed, curSeq, chain, failures>>

\* step2Next enters the next round, and the block is committed.
RoundOver(r, cur) ==
    /\ stage' = [stage EXCEPT ![r] = "preprepare"]
    /\ curPreprepare' = [curPreprepare EXCEPT ![r] = NoMsg]
    /\ prepareSet' = [prepareSet EXCEPT ![r] = {}]
    /\ commitSet' = [commitSet EXCEPT ![r] = {}]
    /\ proposed' = [proposed EXCEPT ![r] = FALSE]
    /\ curSeq' = [curSeq EXCEPT ![r] = @ + 1]
    /\ CommitBlock(r, cur.P)

\* The round has a proposal, cur: count the votes and move on as far as they
\* allow, to the prepare stage, to the commit stage, to the next round.
StepStages(r, cur, pp, p, c, rest) ==
    LET ps == prepareSet[r] \cup Voters(p, cur)
        cs == commitSet[r] \cup Voters(c, cur)
        prepared == stage[r] = "commit" \/ Cardinality(ps) >= Quorum
        toPrepare == stage[r] = "preprepare"
        toCommit == stage[r] # "commit" /\ prepared
        over == prepared /\ Cardinality(cs) >= Quorum
    IN  /\ preprepares' = [preprepares EXCEPT ![r] = IF curPreprepare[r] = NoMsg
                                                     THEN Later(pp, curSeq[r]) ELSE pp]
        /\ prepares' = [prepares EXCEPT ![r] = Later(p, curSeq[r]) \cup {v \in {Vote(r, cur)} : toPrepare}]
        /\ commits' = [commits EXCEPT ![r] = Later(c, curSeq[r]) \cup {v \in {Vote(r, cur)} : toCommit}]
        /\ net' = rest \cup {Prepare(q, Vote(r, cur)) : q \in {q \in Live \ {r} : toPrepare}}
                       \cup {Commit(q, Vote(r, cur)) : q \in {q \in Live \ {r} : toCommit}}
        /\ votes' = [votes EXCEPT ![r] = @ \cup {v \in {Ballot(cur)} : toCommit}]
        /\ \/ ~ over /\ RoundGoesOn(r, cur, IF prepared THEN "commit" ELSE "prepare", ps, cs)
           \/ over /\ RoundOver(r, cur)

\* advanceConsensus on the pool (pp, p, c) the handler leaves, with the
\* messages rest under way.
AdvanceConsensus(r, pp, p, c, rest) ==
    \/ AwaitProposal(r, pp, p, c, rest)
    \/ \E cur \in RoundProposal(r, pp) : cur # NoMsg /\ StepStages(r, cur, pp, p, c, rest)

\* The pool of r holds nothing that curateMsg would take from it.  A tick
\* advances the consensus before it handles a preprepare message.
Settled(r) ==
    IF curPreprepare[r] = NoMsg THEN RoundProposal(r, preprepares[r]) = {NoMsg}
    ELSE \A v \in prepares[r] \cup commits[r] : v.Seq > curSeq[r]

\* A tick without messages: only advanceConsensus.
Tick(r) ==
    /\ ~ closed[r]
    /\ ~ Settled(r)
    /\ \E cur \in RoundProposal(r, preprepares[r]) :
          StepStages(r, cur, preprepares[r], prepares[r], commits[r], net)
    /\ UNCHANGED <<latestSeq, catchupStarted, closed, generated, log>>

-----------------------------------------------------------------------------
(* The handlers, each followed by the advanceConsensus of its tick.        *)

HandlePreprepare(r, m) ==
    LET rest == net \ {Preprepare(r, m)}
        stale == curSeq[r] > m.Seq
        valid == ValidBlock(chain[r], m.P)
    IN  /\ Preprepare(r, m) \in net
        /\ ~ closed[r]
        /\ Settled(r)
        /\ \/ /\ ~ stale /\ valid
              /\ latestSeq' = [latestSeq EXCEPT ![r] = IF @ < m.Seq THEN m.Seq ELSE @]
              /\ AdvanceConsensus(r, preprepares[r] \cup {m}, prepares[r], commits[r], rest)
           \/ /\ stale \/ ~ valid
              /\ net' = rest
              /\ UNCHANGED <<meta, pool, chain, failures, votes, latestSeq>>
        /\ UNCHANGED <<catchupStarted, closed, generated, log>>

HandlePrepare(r, m) ==
    LET rest == net \ {Prepare(r, m)}
        kept == {v \in {m} : curSeq[r] <= v.Seq}
    IN  /\ Prepare(r, m) \in net
        /\ ~ closed[r]
        /\ AdvanceConsensus(r, preprepares[r], prepares[r] \cup kept, commits[r], rest)
        /\ UNCHANGED <<latestSeq, catchupStarted, closed, generated, log>>

HandleCommit(r, m) ==
    LET rest == net \ {Commit(r, m)}
        kept == {v \in {m} : curSeq[r] <= v.Seq}
    IN  /\ Commit(r, m) \in net
        /\ ~ closed[r]
        /\ AdvanceConsensus(r, preprepares[r], prepares[r], commits[r] \cup kept, rest)
        /\ UNCHANGED <<latestSeq, catchupStarted, closed, generated, log>>

HandleStopConsensus(r) ==
    /\ r \in Stoppable
    /\ ~ closed[r]
    /\ closed' = [closed EXCEPT ![r] = TRUE]
    /\ UNCHANGED <<meta, latestSeq, catchupStarted, pool, chain, net, generated, failures, votes, log>>

\* Mutant: the leader does not check whether it has proposed in this round.
Bug_ProposeAgain ==
    LET m == [Seq |-> curSeq[Leader], P |-> GenerateBlock(chain[Leader])]
    IN  /\ ~ closed[Leader]
        /\ curSeq[Leader] < MaxSeq
        /\ stage[Leader] = "preprepare"
        /\ net' = net \cup {Preprepare(q, m) : q \in Live \ {Leader}}
        /\ preprepares' = [preprepares EXCEPT ![Leader] = @ \cup {m}]
        /\ latestSeq' = [latestSeq EXCEPT ![Leader] = m.Seq]
        /\ proposed' = [proposed EXCEPT ![Leader] = TRUE]
        /\ generated' = generated + 1
        /\ log' = Append(log, m.P)
        /\ UNCHANGED <<curSeq, stage, curPreprepare, prepareSet, commitSet, catchupStarted,
                       closed, prepares, commits, chain, failures, votes>>

\* The leader's last step of a tick.  Its own preprepare message is valid when
\* it gets to it, in the next tick.
Propose ==
    LET m == [Seq |-> curSeq[Leader], P |-> GenerateBlock(chain[Leader])]
    IN  /\ ~ closed[Leader]
        /\ curSeq[Leader] < MaxSeq
        /\ stage[Leader] = "preprepare"
        /\ ~ proposed[Leader]
        /\ net' = net \cup {Preprepare(q, m) : q \in Live \ {Leader}}
        /\ preprepares' = [preprepares EXCEPT ![Leader] = @ \cup {m}]
        /\ latestSeq' = [latestSeq EXCEPT ![Leader] = m.Seq]
        /\ proposed' = [proposed EXCEPT ![Leader] = TRUE]
        /\ generated' = generated + 1
        /\ log' = Append(log, m.P)
        /\ UNCHANGED <<curSeq, stage, curPreprepare, prepareSet, commitSet, catchupStarted,
                       closed, prepares, commits, chain, failures, votes>>

catchupReady(r) == ~ catchupStarted[r] /\ latestSeq[r] >= curSeq[r] + catchUpThreshold

\* A follower's last step of a tick.
CatchUpStart(r) ==
    /\ ~ closed[r]
    /\ r # Leader
    /\ catchupReady(r)
    /\ net' = net \cup {CatchupReq(r, Len(chain[r]) + 1)}
    /\ catchupStarted' = [catchupStarted EXCEPT ![r] = TRUE]
    /\ UNCHANGED <<meta, latestSeq, closed, pool, chain, generated, failures, votes, log>>

\* The leader answers a follower that is at most blocksFetchLimit blocks back.
HandleCatchupReq(from, begin) ==
    LET rest == net \ {CatchupReq(from, begin)}
        blocks == BlocksFrom(chain[Leader], begin)
    IN  /\ CatchupReq(from, begin) \in net
        /\ ~ closed[Leader]
        /\ net' = IF Len(chain[Leader]) - begin + 1 > blocksFetchLimit
                  THEN rest ELSE rest \cup {CatchupResp(from, blocks, curSeq[Leader])}
        /\ UNCHANGED <<meta, latestSeq, catchupStarted, closed, pool, chain, generated,
                       failures, votes, log>>

\* catchupOverAndReset.
CatchupOverAndReset(r, next) ==
    /\ catchupStarted' = [catchupStarted EXCEPT ![r] = FALSE]
    /\ curSeq' = [curSeq EXCEPT ![r] = next]
    /\ stage' = [stage EXCEPT ![r] = "preprepare"]
    /\ curPreprepare' = [curPreprepare EXCEPT ![r] = NoMsg]
    /\ prepareSet' = [prepareSet EXCEPT ![r] = {}]
    /\ commitSet' = [commitSet EXCEPT ![r] = {}]
    /\ proposed' = [proposed EXCEPT ![r] = FALSE]

\* The first n blocks of the answer can be added one after the other.
Addable(ch, blocks, n) == \A i \in 1..n : ValidBlock(ch \o SubSeq(blocks, 1, i - 1), blocks[i])

\* The blocks are added until one is refused or its write fails; only when all
\* are in does the follower join the leader's round.
HandleCatchupResp(r, blocks, next) ==
    /\ CatchupResp(r, blocks, next) \in net
    /\ ~ closed[r]
    /\ net' = net \ {CatchupResp(r, blocks, next)}
    /\ \/ /\ ~ catchupStarted[r]
          /\ UNCHANGED <<meta, catchupStarted, chain, failures>>
       \/ /\ catchupStarted[r]
          /\ \E n \in 0..Len(blocks) :
                LET added == chain[r] \o SubSeq(blocks, 1, n)
                IN  /\ Addable(chain[r], blocks, n)
                    /\ chain' = [chain EXCEPT ![r] = added]
                    /\ \/ /\ n = Len(blocks)
                          /\ CatchupOverAndReset(r, next)
                          /\ UNCHANGED failures
                       \/ /\ n < Len(blocks)
                          /\ \/ ~ ValidBlock(added, blocks[n + 1]) /\ UNCHANGED failures
                             \/ /\ ValidBlock(added, blocks[n + 1])
                                /\ failures < MaxFailures
                                /\ failures' = failures + 1
                          /\ UNCHANGED <<meta, catchupStarted>>
    /\ UNCHANGED <<latestSeq, closed, pool, generated, votes, log>>

Receive(r) ==
    \/ \E m \in net : m.type = "Preprepare" /\ HandlePreprepare(r, m.body)
    \/ \E m \in net : m.type = "Prepare" /\ HandlePrepare(r, m.body)
    \/ \E m \in net : m.type = "Commit" /\ HandleCommit(r, m.body)
    \/ \E m \in net : m.type = "CatchupResp" /\ HandleCatchupResp(r, m.Proposals, m.NextSeq)

ReceiveReq == \E m \in net : m.type = "CatchupReq" /\ HandleCatchupReq(m.from, m.StartBlockHeight)

Next ==
    \/ Propose
    \/ ReceiveReq
    \/ \E r \in Live : Receive(r) \/ Tick(r) \/ CatchUpStart(r) \/ HandleStopConsensus(r)

Spec == Init /\ [][Next]_vars

(***************************************************************************)
(* Fairness: every message under way is received in the end (gRPC over     *)
(* TCP between nodes that are up, and every tick drains the whole buffer,  *)
(* so each single message is handled, whatever else arrives), the leader   *)
(* ends every tick by trying to propose, and a follower ends every tick by *)
(* looking whether to catch up.                                            *)
(***************************************************************************)
FairSpec ==
    /\ Spec
    /\ WF_vars(Propose)
    /\ WF_vars(ReceiveReq)
    /\ \A r \in Live : WF_vars(Receive(r)) /\ WF_vars(Tick(r)) /\ WF_vars(CatchUpStart(r))

-----------------------------------------------------------------------------
(***************************************************************************)
(* The values the fields of consensusMeta, the pool, the chain and the     *)
(* messages under way take.                                                *)
(***************************************************************************)
Message(m) ==
    \/ m.type = "Preprepare" /\ m.body \in PreprepareMsg
    \/ m.type \in {"Prepare", "Commit"} /\ m.body \in VoteMsg
    \/ m.type = "CatchupReq" /\ m.from \in Live /\ m.StartBlockHeight \in Nat \ {0}
    \/ m.type = "CatchupResp" /\ m.Proposals \in Seq(Block) /\ m.NextSeq \in Nat

TypeOK ==
    /\ proposed \in [Replicas -> BOOLEAN]
    /\ curSeq \in [Replicas -> Nat]
    /\ stage \in [Replicas -> {"preprepare", "prepare", "commit"}]
    /\ curPreprepare \in [Replicas -> PreprepareMsg \cup {NoMsg}]
    /\ prepareSet \in [Replicas -> SUBSET Replicas]
    /\ commitSet \in [Replicas -> SUBSET Replicas]
    /\ latestSeq \in [Replicas -> Nat]
    /\ catchupStarted \in [Replicas -> BOOLEAN]
    /\ closed \in [Replicas -> BOOLEAN]
    /\ preprepares \in [Replicas -> SUBSET PreprepareMsg]
    /\ prepares \in [Replicas -> SUBSET VoteMsg]
    /\ commits \in [Replicas -> SUBSET VoteMsg]
    /\ chain \in [Replicas -> Seq(Block)]
    /\ votes \in [Replicas -> SUBSET BallotType]
    /\ generated \in Nat
    /\ failures \in Nat
    /\ log \in Seq(Block)
    /\ \A m \in net : Message(m)

(***************************************************************************)
(* Two replicas of a shard never hold different blocks at the same height, *)
(* as long as no write to the block storage has failed.  (A failed write   *)
(* costs the node a block of a round it counts as done.)                   *)
(***************************************************************************)
Agreement ==
    failures = 0 =>
        \A r, q \in Replicas : \A i \in 1..Len(chain[r]) :
            i <= Len(chain[q]) => chain[r][i] = chain[q][i]

(***************************************************************************)
(* A block is in a chain only after 2f+1 nodes have voted to commit that   *)
(* very block, whichever way it came in: by a round of step2NextStage, or  *)
(* in an answer handleCatchupResp adds.  It holds with failed writes too.  *)
(***************************************************************************)
Backed(b) == Cardinality({q \in Replicas : \E v \in votes[q] : v.digest = b.hash}) >= 2 * f + 1

QuorumBacked == \A r \in Replicas : \A i \in 1..Len(chain[r]) : Backed(chain[r][i])

(***************************************************************************)
(* In one round, no two nodes vote to commit different blocks, and no node *)
(* votes for two: although an answer to a catch-up request may set the     *)
(* round of a follower back, and writes fail.                              *)
(***************************************************************************)
VotesAgree ==
    \A r, q \in Replicas : \A v \in votes[r], w \in votes[q] :
        v.Seq = w.Seq => v.digest = w.digest

(***************************************************************************)
(* A round the leader opens when every live node has finished the last one *)
(* is finished by every live node, with its block, even though the leader  *)
(* may go on to later rounds meanwhile.                                    *)
(***************************************************************************)
RoundCompletes ==
    \A s \in 0..(MaxSeq - 1) :
        (\A r \in Live : curSeq[r] = s) /\ ~ proposed[Leader]
            ~> (\A r \in Live : Len(chain[r]) > s)

(***************************************************************************)
(* "If the view of this node is catchUpThreshold behind the latest         *)
(* proposal, this node will use Catch-Up" (pbftmeta.go:27): a node that    *)
(* far behind starts to catch up, or closes the gap.                       *)
(***************************************************************************)
LaggardCatchesUp ==
    \A r \in Live \ {Leader} :
        Len(log) > curSeq[r] + catchUpThreshold
            ~> (catchupStarted[r] \/ Len(log) <= curSeq[r] + catchUpThreshold)
=============================================================================
