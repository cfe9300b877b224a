-------------------------- MODULE PbftRoundProofs --------------------------
(***************************************************************************)
(* Agreement inside a shard, for any number of nodes, any set of them up,  *)
(* any loss, delay and reordering of messages.                             *)
(*                                                                         *)
(* The argument: the leader proposes one block a round and its round never *)
(* goes back, so log, the blocks in the order of their rounds, records     *)
(* every proposal there is (ProposalsLogged).  A vote is for a logged      *)
(* proposal, so votes of a round agree.  Until a write fails, the chain of *)
(* a node is the prefix of log of the rounds it has passed (ChainsLogged), *)
(* so chains agree, and a proposal a node accepts is the one of its own    *)
(* round: no node ever finds itself behind, and no catch-up starts.        *)
(*                                                                         *)
(* This module has the invariant and the proof that a round, that is       *)
(* advanceConsensus, preserves it; PbftProofs has the handlers.            *)
(***************************************************************************)
EXTENDS Pbft, FiniteSetTheorems, SequenceTheorems, TLAPS

\* A preprepare message that is the proposal of its round.
Logged(m) == m.Seq < Len(log) /\ m.P = log[m.Seq + 1]

\* The leader opens a round once, and never goes back to it.
LeaderRound ==
    /\ Len(log) = curSeq[Leader] + (IF proposed[Leader] THEN 1 ELSE 0)
    /\ ~ catchupStarted[Leader]

ProposalsLogged ==
    /\ \A r \in Replicas : curPreprepare[r] # NoMsg =>
          Logged(curPreprepare[r]) /\ curPreprepare[r].Seq = curSeq[r]
    /\ \A r \in Replicas : \A m \in preprepares[r] : Logged(m)
    /\ \A m \in net : m.type = "Preprepare" => Logged(m.body)

VotesLogged ==
    \A r \in Replicas : \A v \in votes[r] :
        v.Seq < Len(log) /\ v.digest = log[v.Seq + 1].hash

\* What the votes say was voted.
VotesCast ==
    /\ \A r \in Replicas : \A v \in commits[r] :
          \E w \in votes[v.NodeID] : w.digest = v.digest
    /\ \A m \in net : m.type = "Commit" =>
          \E w \in votes[m.body.NodeID] : w.digest = m.body.digest
    /\ \A r \in Replicas : \A q \in commitSet[r] :
          /\ curPreprepare[r] # NoMsg
          /\ \E w \in votes[q] : w.digest = curPreprepare[r].P.hash

AnswersBacked ==
    \A m \in net : m.type = "CatchupResp" =>
        \A i \in 1..Len(m.Proposals) : Backed(m.Proposals[i])

RoundInv == LeaderRound /\ ProposalsLogged /\ VotesLogged
BackedInv == VotesCast /\ AnswersBacked /\ QuorumBacked

\* While no write has failed.
LogLinked ==
    \A i \in 1..Len(log) :
        /\ log[i].Number = i
        /\ log[i].parent = IF i = 1 THEN 0 ELSE log[i - 1].hash

ChainsLogged ==
    \A r \in Replicas :
        /\ Len(chain[r]) = curSeq[r]
        /\ Len(chain[r]) <= Len(log)
        /\ \A i \in 1..Len(chain[r]) : chain[r][i] = log[i]

NobodyBehind ==
    /\ \A r \in Replicas : latestSeq[r] <= curSeq[r] /\ ~ catchupStarted[r]
    /\ \A r \in Replicas : \A m \in preprepares[r] : m.Seq <= curSeq[r]

SyncInv == failures = 0 => LogLinked /\ ChainsLogged /\ NobodyBehind

IInv == TypeOK /\ RoundInv /\ BackedInv /\ SyncInv

-----------------------------------------------------------------------------
\* Appending a block lengthens a chain by one and changes none of its blocks.
LEMMA AppendOne ==
    \A u \in Seq(Block) : \A x \in Block :
        /\ Len(Append(u, x)) = Len(u) + 1
        /\ Append(u, x)[Len(u) + 1] = x
        /\ \A i \in 1..Len(u) : Append(u, x)[i] = u[i]
  BY AppendProperties

\* The indices of a chain one block longer.
LEMMA UpToNext == \A n \in Nat : \A i \in 1..(n + 1) : i \in 1..n \/ i = n + 1
  OBVIOUS

\* The first state, in which nothing has been proposed.
LEMMA InitInvariant == Init => IInv
<1> SUFFICES ASSUME Init PROVE IInv
  OBVIOUS
<1> USE LeaderAssumption DEF Init
<1>1. TypeOK
  BY DEF TypeOK
<1>2. RoundInv
  BY DEF RoundInv, LeaderRound, ProposalsLogged, VotesLogged
<1>3. BackedInv
  BY DEF BackedInv, VotesCast, AnswersBacked, QuorumBacked
<1>4. SyncInv
  BY DEF SyncInv, LogLinked, ChainsLogged, NobodyBehind
<1>5. QED
  BY <1>1, <1>2, <1>3, <1>4 DEF IInv

\* Votes are never withdrawn, so what a quorum has backed stays backed.
LEMMA BackedStays ==
    ASSUME NEW b, Backed(b), \A q \in Replicas : votes[q] \subseteq votes'[q]
    PROVE  Backed(b)'
<1> DEFINE S == {q \in Replicas : \E v \in votes[q] : v.digest = b.hash}
           T == {q \in Replicas : \E v \in votes'[q] : v.digest = b.hash}
<1>1. S \subseteq T /\ T \subseteq Replicas
  OBVIOUS
<1>2. IsFiniteSet(T)
  BY <1>1, ReplicasAssumption, FS_Subset
<1>3. Cardinality(S) <= Cardinality(T) /\ Cardinality(S) \in Nat /\ Cardinality(T) \in Nat
  BY <1>1, <1>2, FS_Subset, FS_CardinalityType
<1>4. f \in Int
  BY ReplicasAssumption, FS_CardinalityType DEF f
<1>5. Cardinality(S) >= 2 * f + 1
  BY DEF Backed
<1>6. Cardinality(T) >= 2 * f + 1
  BY <1>3, <1>4, <1>5
<1>7. QED
  BY <1>6 DEF Backed

-----------------------------------------------------------------------------
(* Types.                                                                  *)

\* The part of the type invariant that advanceConsensus may disturb.
MetaTypeOK ==
    /\ proposed \in [Replicas -> BOOLEAN]
    /\ curSeq \in [Replicas -> Nat]
    /\ stage \in [Replicas -> {"preprepare", "prepare", "commit"}]
    /\ curPreprepare \in [Replicas -> PreprepareMsg \cup {NoMsg}]
    /\ prepareSet \in [Replicas -> SUBSET Replicas]
    /\ commitSet \in [Replicas -> SUBSET Replicas]
    /\ chain \in [Replicas -> Seq(Block)]
    /\ failures \in Nat

RoundTypeOK ==
    /\ MetaTypeOK
    /\ preprepares \in [Replicas -> SUBSET PreprepareMsg]
    /\ prepares \in [Replicas -> SUBSET VoteMsg]
    /\ commits \in [Replicas -> SUBSET VoteMsg]
    /\ votes \in [Replicas -> SUBSET BallotType]
    /\ \A m \in net : Message(m)

\* The proposal of a round is the one it had, or one of the pool for it.
LEMMA ProposalOrigin ==
    ASSUME NEW r \in Replicas, NEW pp, NEW cur \in RoundProposal(r, pp), cur # NoMsg
    PROVE  cur = curPreprepare[r] \/ (curPreprepare[r] = NoMsg /\ cur \in pp /\ cur.Seq = curSeq[r])
  BY DEF RoundProposal

\* The proposal of a round is a pre-prepare message.
LEMMA ProposalType ==
    ASSUME TypeOK, NEW r \in Replicas, NEW pp \in SUBSET PreprepareMsg,
           NEW cur \in RoundProposal(r, pp), cur # NoMsg
    PROVE  cur \in PreprepareMsg
  BY ProposalOrigin DEF TypeOK

\* Votes and ballots have their types.
LEMMA VoteType ==
    ASSUME NEW r \in Replicas, NEW cur \in PreprepareMsg
    PROVE  Vote(r, cur) \in VoteMsg /\ Ballot(cur) \in BallotType
  BY DEF Vote, Ballot, VoteMsg, BallotType, PreprepareMsg, Block

\* Only replicas vote.
LEMMA VotersType ==
    ASSUME NEW cur, NEW p \in SUBSET VoteMsg
    PROVE  Voters(p, cur) \subseteq Replicas
  BY DEF Voters, VoteMsg

\* A round that goes on, or ends, leaves every variable in its type.
LEMMA StepType ==
    ASSUME TypeOK, NEW r \in Replicas, NEW cur \in PreprepareMsg,
           NEW pp \in SUBSET PreprepareMsg, NEW p \in SUBSET VoteMsg,
           NEW c \in SUBSET VoteMsg, NEW rest, \A m \in rest : Message(m),
           StepStages(r, cur, pp, p, c, rest)
    PROVE  RoundTypeOK'
<1>1. Vote(r, cur) \in VoteMsg /\ Ballot(cur) \in BallotType
  BY VoteType
<1>2. /\ preprepares' \in [Replicas -> SUBSET PreprepareMsg]
      /\ prepares' \in [Replicas -> SUBSET VoteMsg]
      /\ commits' \in [Replicas -> SUBSET VoteMsg]
      /\ votes' \in [Replicas -> SUBSET BallotType]
  BY <1>1 DEF TypeOK, Later, StepStages
<1>3. \A m \in net' : Message(m)
  BY <1>1 DEF Message, Prepare, Commit, StepStages
<1>4. MetaTypeOK'
  <2>1. \/ \E st \in {"prepare", "commit"}, ps, cs \in SUBSET Replicas : RoundGoesOn(r, cur, st, ps, cs)
        \/ RoundOver(r, cur)
    <3> DEFINE ps == prepareSet[r] \cup Voters(p, cur)
               cs == commitSet[r] \cup Voters(c, cur)
    <3>1. ps \in SUBSET Replicas /\ cs \in SUBSET Replicas
      BY VotersType, Zenon DEF TypeOK
    <3>2. \/ RoundGoesOn(r, cur, "commit", ps, cs)
          \/ RoundGoesOn(r, cur, "prepare", ps, cs)
          \/ RoundOver(r, cur)
      BY DEF StepStages
    <3>3. QED
      BY <3>1, <3>2
  <2>2. CASE RoundOver(r, cur)
    <3>1. chain' \in [Replicas -> Seq(Block)] /\ failures' \in Nat
      <4>1. cur.P \in Block
        BY DEF PreprepareMsg
      <4>2. CommitBlock(r, cur.P)
        BY <2>2 DEF RoundOver
      <4>3. chain \in [Replicas -> Seq(Block)] /\ failures \in Nat
        BY DEF TypeOK
      <4>4. Append(chain[r], cur.P) \in Seq(Block)
        BY <4>1, <4>3
      <4>5. /\ chain' = [chain EXCEPT ![r] = Append(chain[r], cur.P)] \/ chain' = chain
            /\ failures' = failures \/ failures' = failures + 1
        BY <4>2 DEF CommitBlock
      <4>6. chain' \in [Replicas -> Seq(Block)]
        BY <4>3, <4>4, <4>5, Zenon
      <4>7. QED
        BY <4>3, <4>5, <4>6
    <3>2. /\ proposed' \in [Replicas -> BOOLEAN]
          /\ curSeq' \in [Replicas -> Nat]
          /\ stage' \in [Replicas -> {"preprepare", "prepare", "commit"}]
      BY <2>2 DEF TypeOK, RoundOver
    <3>3. /\ curPreprepare' \in [Replicas -> PreprepareMsg \cup {NoMsg}]
          /\ prepareSet' \in [Replicas -> SUBSET Replicas]
          /\ commitSet' \in [Replicas -> SUBSET Replicas]
      BY <2>2 DEF TypeOK, RoundOver
    <3>4. QED
      BY <3>1, <3>2, <3>3 DEF MetaTypeOK
  <2>3. ASSUME NEW st \in {"prepare", "commit"}, NEW ps \in SUBSET Replicas,
               NEW cs \in SUBSET Replicas, RoundGoesOn(r, cur, st, ps, cs)
        PROVE  MetaTypeOK'
    BY <2>3 DEF TypeOK, MetaTypeOK, RoundGoesOn
  <2>4. QED
    BY <2>1, <2>2, <2>3
<1>5. QED
  BY <1>2, <1>3, <1>4 DEF RoundTypeOK, Message

\* advanceConsensus keeps the types.
LEMMA AdvanceType ==
    ASSUME TypeOK, NEW r \in Replicas,
           NEW pp \in SUBSET PreprepareMsg, NEW p \in SUBSET VoteMsg,
           NEW c \in SUBSET VoteMsg, NEW rest, \A m \in rest : Message(m),
           AdvanceConsensus(r, pp, p, c, rest)
    PROVE  RoundTypeOK'
<1>1. CASE AwaitProposal(r, pp, p, c, rest)
  BY <1>1 DEF AwaitProposal, TypeOK, RoundTypeOK, MetaTypeOK, Later, meta, Message
<1>2. CASE \E cur \in RoundProposal(r, pp) : cur # NoMsg /\ StepStages(r, cur, pp, p, c, rest)
  BY <1>2, ProposalType, StepType, Zenon
<1>3. QED
  BY <1>1, <1>2, Zenon DEF AdvanceConsensus

-----------------------------------------------------------------------------
(* Proposals and votes.                                                    *)

\* What StepStages adds to the pool, the network and the votes: only the votes
\* of r for cur.
LEMMA StepEffects ==
    ASSUME TypeOK, NEW r \in Replicas, NEW cur, NEW pp, NEW p, NEW c, NEW rest,
           StepStages(r, cur, pp, p, c, rest)
    PROVE  /\ \A q \in Replicas \ {r} : preprepares'[q] = preprepares[q] /\ commits'[q] = commits[q]
                                        /\ votes'[q] = votes[q]
           /\ preprepares'[r] \subseteq pp
           /\ votes[r] \subseteq votes'[r] /\ votes'[r] \subseteq votes[r] \cup {Ballot(cur)}
           /\ \A v \in commits'[r] : v \in c \/ (v = Vote(r, cur) /\ Ballot(cur) \in votes'[r])
           /\ \A m \in net' : \/ m \in rest
                              \/ m.type = "Prepare"
                              \/ m.type = "Commit" /\ m.body = Vote(r, cur) /\ Ballot(cur) \in votes'[r]
<1> DEFINE toCommit == stage[r] # "commit" /\ (stage[r] = "commit" \/ Cardinality(prepareSet[r] \cup Voters(p, cur)) >= Quorum)
<1>1. /\ preprepares' = [preprepares EXCEPT ![r] = IF curPreprepare[r] = NoMsg
                                                   THEN Later(pp, curSeq[r]) ELSE pp]
      /\ commits' = [commits EXCEPT ![r] = Later(c, curSeq[r]) \cup {v \in {Vote(r, cur)} : toCommit}]
      /\ votes' = [votes EXCEPT ![r] = @ \cup {v \in {Ballot(cur)} : toCommit}]
  BY DEF StepStages
<1>2. \A m \in net' : \/ m \in rest
                      \/ \E q \in Live : m = Prepare(q, Vote(r, cur))
                      \/ \E q \in Live : m = Commit(q, Vote(r, cur)) /\ toCommit
  BY Zenon DEF StepStages
<1> HIDE DEF toCommit
<1>3. \A q \in Replicas \ {r} : preprepares'[q] = preprepares[q] /\ commits'[q] = commits[q]
                                /\ votes'[q] = votes[q]
  BY <1>1 DEF TypeOK
<1>4. preprepares'[r] \subseteq pp
  BY <1>1 DEF TypeOK, Later
<1>5. /\ votes[r] \subseteq votes'[r] /\ votes'[r] \subseteq votes[r] \cup {Ballot(cur)}
      /\ toCommit => Ballot(cur) \in votes'[r]
  BY <1>1 DEF TypeOK
<1>6. \A v \in commits'[r] : v \in c \/ (v = Vote(r, cur) /\ Ballot(cur) \in votes'[r])
  BY <1>1, <1>5 DEF TypeOK, Later
<1>7. \A m \in net' : \/ m \in rest
                      \/ m.type = "Prepare"
                      \/ m.type = "Commit" /\ m.body = Vote(r, cur) /\ Ballot(cur) \in votes'[r]
  BY <1>2, <1>5 DEF Prepare, Commit
<1>8. QED
  BY <1>3, <1>4, <1>5, <1>6, <1>7, Zenon

\* The two ways StepStages leaves the round of r.
LEMMA StepOutcome ==
    ASSUME NEW r, NEW cur, NEW pp, NEW p, NEW c, NEW rest,
           StepStages(r, cur, pp, p, c, rest)
    PROVE  \/ \E st, ps : RoundGoesOn(r, cur, st, ps, commitSet[r] \cup Voters(c, cur))
           \/ /\ RoundOver(r, cur)
              /\ Cardinality(commitSet[r] \cup Voters(c, cur)) >= Quorum
  BY Zenon DEF StepStages

\* The stages of a round vote only for the leader's proposals.
LEMMA StepRound ==
    ASSUME TypeOK, RoundInv, NEW r \in Replicas, NEW cur \in PreprepareMsg,
           Logged(cur), cur.Seq = curSeq[r],
           NEW pp \in SUBSET PreprepareMsg, \A m \in pp : Logged(m),
           NEW p, NEW c, NEW rest \in SUBSET net,
           StepStages(r, cur, pp, p, c, rest), UNCHANGED <<log, catchupStarted>>
    PROVE  RoundInv'
<1>1. VotesLogged'
  <2>1. \A q \in Replicas : \A v \in votes'[q] : v \in votes[q] \/ v = Ballot(cur)
    BY StepEffects, Zenon
  <2>2. QED
    BY <2>1 DEF RoundInv, VotesLogged, Logged, Ballot
<1>2. (\A q \in Replicas : \A m \in preprepares[q] : Logged(m))'
  BY StepEffects DEF RoundInv, ProposalsLogged, Logged
<1>3. (\A m \in net : m.type = "Preprepare" => Logged(m.body))'
  <2>1. \A m \in net' : m.type = "Preprepare" => m \in net
    BY StepEffects
  <2>2. QED
    BY <2>1 DEF RoundInv, ProposalsLogged, Logged
<1>4. CASE \E st, ps : RoundGoesOn(r, cur, st, ps, commitSet[r] \cup Voters(c, cur))
  <2>1. PICK st, ps : RoundGoesOn(r, cur, st, ps, commitSet[r] \cup Voters(c, cur))
    BY <1>4, Zenon
  <2>2. (\A q \in Replicas : curPreprepare[q] # NoMsg =>
            Logged(curPreprepare[q]) /\ curPreprepare[q].Seq = curSeq[q])'
    BY <2>1, Zenon DEF RoundGoesOn, RoundInv, ProposalsLogged, Logged, TypeOK
  <2>3. LeaderRound'
    BY <2>1, Zenon DEF RoundGoesOn, RoundInv, LeaderRound
  <2>4. QED
    BY <1>1, <1>2, <1>3, <2>2, <2>3, Zenon DEF RoundInv, ProposalsLogged
<1>5. CASE RoundOver(r, cur)
  <2>1. (\A q \in Replicas : curPreprepare[q] # NoMsg =>
            Logged(curPreprepare[q]) /\ curPreprepare[q].Seq = curSeq[q])'
    BY <1>5, Zenon DEF RoundOver, RoundInv, ProposalsLogged, Logged, TypeOK
  <2>2. LeaderRound'
    BY <1>5, LeaderAssumption DEF RoundOver, RoundInv, LeaderRound, Logged, TypeOK
  <2>3. QED
    BY <1>1, <1>2, <1>3, <2>1, <2>2 DEF RoundInv, ProposalsLogged
<1>6. QED
  BY <1>4, <1>5, StepOutcome

\* The proposal advanceConsensus works on is the logged one of the round.
LEMMA ProposalLogged ==
    ASSUME RoundInv, NEW r \in Replicas, NEW pp, \A m \in pp : Logged(m),
           NEW cur \in RoundProposal(r, pp), cur # NoMsg
    PROVE  Logged(cur) /\ cur.Seq = curSeq[r]
  BY ProposalOrigin DEF RoundInv, ProposalsLogged

\* advanceConsensus keeps the same property over all its stages.
LEMMA AdvanceRound ==
    ASSUME TypeOK, RoundInv, NEW r \in Replicas,
           NEW pp \in SUBSET PreprepareMsg, \A m \in pp : Logged(m),
           NEW p, NEW c, NEW rest \in SUBSET net,
           AdvanceConsensus(r, pp, p, c, rest), UNCHANGED <<log, catchupStarted>>
    PROVE  RoundInv'
<1>1. CASE AwaitProposal(r, pp, p, c, rest)
  <2>1. (\A q \in Replicas : \A m \in preprepares[q] : Logged(m))'
    BY <1>1, Zenon DEF AwaitProposal, Later, RoundInv, ProposalsLogged, Logged, TypeOK
  <2>2. QED
    BY <1>1, <2>1, Zenon DEF AwaitProposal, meta, RoundInv, ProposalsLogged, LeaderRound, VotesLogged, Logged
<1>2. CASE \E cur \in RoundProposal(r, pp) : cur # NoMsg /\ StepStages(r, cur, pp, p, c, rest)
  BY <1>2, ProposalType, ProposalLogged, StepRound, Zenon
<1>3. QED
  BY <1>1, <1>2, Zenon DEF AdvanceConsensus

-----------------------------------------------------------------------------
(* Blocks backed by a quorum.                                              *)

\* A commit vote that was cast.
Cast(v) == \E w \in votes[v.NodeID] : w.digest = v.digest

\* The nodes counted for cur have voted to commit it.
LEMMA CountedVoted ==
    ASSUME TypeOK, VotesCast, NEW r \in Replicas, NEW cur,
           cur = curPreprepare[r] \/ curPreprepare[r] = NoMsg,
           NEW c \in SUBSET VoteMsg, \A v \in c : Cast(v)
    PROVE  /\ commitSet[r] \cup Voters(c, cur) \subseteq Replicas
           /\ \A q \in commitSet[r] \cup Voters(c, cur) : \E w \in votes[q] : w.digest = cur.P.hash
<1>1. \A q \in commitSet[r] : q \in Replicas /\ \E w \in votes[q] : w.digest = cur.P.hash
  BY ZenonT(40) DEF VotesCast, TypeOK
<1>2. \A q \in Voters(c, cur) : q \in Replicas /\ \E w \in votes[q] : w.digest = cur.P.hash
  BY DEF Voters, Cast, VoteMsg
<1>3. QED
  BY <1>1, <1>2

\* A quorum of them backs the block.
LEMMA QuorumBacks ==
    ASSUME NEW b, NEW Q \in SUBSET Replicas, Cardinality(Q) >= Quorum,
           \A q \in Q : \E w \in votes[q] : w.digest = b.hash
    PROVE  Backed(b)
<1> DEFINE T == {q \in Replicas : \E v \in votes[q] : v.digest = b.hash}
<1>1. Q \subseteq T /\ T \subseteq Replicas
  OBVIOUS
<1>2. IsFiniteSet(T)
  BY <1>1, ReplicasAssumption, FS_Subset
<1>3. Cardinality(Q) <= Cardinality(T) /\ Cardinality(Q) \in Nat /\ Cardinality(T) \in Nat
  BY <1>1, <1>2, FS_Subset, FS_CardinalityType
<1>4. f \in Int
  BY ReplicasAssumption, FS_CardinalityType DEF f
<1> HIDE DEF T
<1>5. Cardinality(T) >= 2 * f + 1
  BY <1>3, <1>4 DEF Quorum
<1>6. QED
  BY <1>5 DEF Backed, T

\* A step that only adds votes, and to the chains only backed blocks.
LEMMA ChainsStayBacked ==
    ASSUME TypeOK, QuorumBacked, \A q \in Replicas : votes[q] \subseteq votes'[q],
           NEW r \in Replicas, NEW b \in Block, Backed(b),
           chain' = [chain EXCEPT ![r] = Append(@, b)] \/ chain' = chain
    PROVE  QuorumBacked'
<1> SUFFICES ASSUME NEW q \in Replicas, NEW i \in 1..Len(chain'[q])
             PROVE  Backed(chain[q][i])'
  BY DEF QuorumBacked
<1>1. PICK d : d = chain'[q][i]
  OBVIOUS
<1>2. Backed(d)
  <2>1. CASE chain'[q] = chain[q]
    BY <1>1, <2>1 DEF QuorumBacked
  <2>2. CASE chain'[q] = Append(chain[q], b)
    <3>1. chain[q] \in Seq(Block)
      BY DEF TypeOK
    <3>2. d = b \/ (i \in 1..Len(chain[q]) /\ d = chain[q][i])
      BY <1>1, <2>2, <3>1
    <3>3. QED
      BY <3>2, Zenon DEF QuorumBacked
  <2>3. QED
    BY <2>1, <2>2, Zenon DEF TypeOK
<1>3. Backed(d)'
  BY <1>2, BackedStays
<1>4. QED
  BY <1>1, <1>3 DEF Backed

\* Catch-up answers stay backed when more votes are sent.
LEMMA AnswersStayBacked ==
    ASSUME AnswersBacked, \A q \in Replicas : votes[q] \subseteq votes'[q],
           \A m \in net' : m.type = "CatchupResp" => m \in net
    PROVE  AnswersBacked'
<1> SUFFICES ASSUME NEW m \in net', m.type = "CatchupResp", NEW i \in 1..Len(m.Proposals)
             PROVE  Backed(m.Proposals[i])'
  BY DEF AnswersBacked
<1>1. Backed(m.Proposals[i])
  BY DEF AnswersBacked
<1>2. QED
  BY <1>1, BackedStays

\* The stages of a round commit only what a quorum has voted for.
LEMMA StepBacked ==
    ASSUME TypeOK, BackedInv, NEW r \in Replicas, NEW cur \in PreprepareMsg,
           cur = curPreprepare[r] \/ curPreprepare[r] = NoMsg,
           NEW pp, NEW p, NEW c \in SUBSET VoteMsg, \A v \in c : Cast(v),
           NEW rest \in SUBSET net, StepStages(r, cur, pp, p, c, rest)
    PROVE  BackedInv'
<1> DEFINE cs == commitSet[r] \cup Voters(c, cur)
<1>1. \A q \in Replicas : votes[q] \subseteq votes'[q]
  BY StepEffects
<1>2. cs \subseteq Replicas /\ \A q \in cs : \E w \in votes[q] : w.digest = cur.P.hash
  BY CountedVoted, Zenon DEF BackedInv
<1>3. AnswersBacked'
  <2>1. \A m \in net' : m.type = "CatchupResp" => m \in net
    BY StepEffects
  <2>2. QED
    BY <1>1, <2>1, AnswersStayBacked, Zenon DEF BackedInv
<1>4. QuorumBacked'
  <2>1. CASE Cardinality(cs) >= Quorum /\ RoundOver(r, cur)
    <3>1. Backed(cur.P)
      BY <1>2, <2>1, QuorumBacks, Zenon
    <3>2. chain' = [chain EXCEPT ![r] = Append(@, cur.P)] \/ chain' = chain
      BY <2>1 DEF RoundOver, CommitBlock
    <3>3. cur.P \in Block
      BY Zenon DEF PreprepareMsg
    <3>4. QED
      BY <1>1, <3>1, <3>2, <3>3, ChainsStayBacked, Zenon DEF BackedInv
  <2>2. CASE chain' = chain
    <3> SUFFICES ASSUME NEW q \in Replicas, NEW i \in 1..Len(chain[q])
                 PROVE  Backed(chain[q][i])'
      BY <2>2, Zenon DEF QuorumBacked
    <3>1. PICK d : d = chain[q][i]
      OBVIOUS
    <3>2. Backed(d)'
      BY <1>1, <3>1, BackedStays, Zenon DEF BackedInv, QuorumBacked
    <3>3. QED
      BY <2>2, <3>1, <3>2, Zenon DEF Backed
  <2>3. QED
    BY <2>1, <2>2, StepOutcome, Zenon DEF RoundGoesOn
<1>5. VotesCast'
  <2>1. (\A q \in Replicas : \A v \in commits[q] : \E w \in votes[v.NodeID] : w.digest = v.digest)'
    <3> SUFFICES ASSUME NEW q \in Replicas, NEW v \in commits'[q]
                 PROVE  \E w \in votes'[v.NodeID] : w.digest = v.digest
      BY Zenon
    <3>1. CASE v = Vote(r, cur) /\ Ballot(cur) \in votes'[r]
      BY <3>1, Zenon DEF Vote, Ballot
    <3>2. CASE v \in VoteMsg /\ Cast(v)
      BY <1>1, <3>2, Zenon DEF Cast, VoteMsg
    <3>3. QED
      <4>1. CASE q = r
        BY <3>1, <3>2, <4>1, StepEffects
      <4>2. CASE q # r
        <5>1. v \in commits[q]
          BY <4>2, StepEffects, Zenon
        <5>2. v \in VoteMsg
          BY <5>1, Zenon DEF TypeOK
        <5>3. Cast(v)
          BY <5>1, Zenon DEF BackedInv, VotesCast, Cast
        <5>4. QED
          BY <3>2, <5>2, <5>3, Zenon
      <4>3. QED
        BY <4>1, <4>2, Zenon
  <2>2. (\A m \in net : m.type = "Commit" => \E w \in votes[m.body.NodeID] : w.digest = m.body.digest)'
    <3> SUFFICES ASSUME NEW m \in net', m.type = "Commit"
                 PROVE  \E w \in votes'[m.body.NodeID] : w.digest = m.body.digest
      BY Zenon
    <3>1. CASE m.body = Vote(r, cur) /\ Ballot(cur) \in votes'[r]
      BY <3>1 DEF Vote, Ballot
    <3>2. CASE m \in net
      <4>1. m.body \in VoteMsg
        BY <3>2, Zenon DEF TypeOK, Message
      <4>2. Cast(m.body)
        BY <3>2, Zenon DEF BackedInv, VotesCast, Cast
      <4>3. QED
        BY <1>1, <4>1, <4>2 DEF Cast, VoteMsg
    <3>3. QED
      BY <3>1, <3>2, StepEffects
  <2>3. (\A q \in Replicas : \A x \in commitSet[q] :
          curPreprepare[q] # NoMsg /\ \E w \in votes[x] : w.digest = curPreprepare[q].P.hash)'
    <3> SUFFICES ASSUME NEW q \in Replicas, NEW x \in commitSet'[q]
                 PROVE  curPreprepare'[q] # NoMsg /\ \E w \in votes'[x] : w.digest = curPreprepare'[q].P.hash
      BY Zenon
    <3>1. cur # NoMsg
      BY NoMsgAssumption, Zenon
    <3>2. CASE q = r
      <4>1. curPreprepare'[r] = cur /\ commitSet'[r] = cs
        <5>1. CASE RoundOver(r, cur)
          BY <3>2, <5>1, Zenon DEF RoundOver, TypeOK
        <5>2. CASE \E st, ps : RoundGoesOn(r, cur, st, ps, cs)
          BY <5>2 DEF RoundGoesOn, TypeOK
        <5>3. QED
          BY <5>1, <5>2, StepOutcome, Zenon
      <4>2. QED
        BY <1>1, <1>2, <3>1, <3>2, <4>1
    <3>3. CASE q # r
      <4>1. curPreprepare'[q] = curPreprepare[q] /\ commitSet'[q] = commitSet[q]
        <5>1. CASE RoundOver(r, cur)
          BY <3>3, <5>1, Zenon DEF RoundOver, TypeOK
        <5>2. CASE \E st, ps : RoundGoesOn(r, cur, st, ps, cs)
          <6>1. PICK st, ps : RoundGoesOn(r, cur, st, ps, cs)
            BY <5>2, Zenon
          <6>2. QED
            BY <3>3, <6>1, Zenon DEF RoundGoesOn, TypeOK
        <5>3. QED
          BY <5>1, <5>2, StepOutcome, Zenon
      <4>2. x \in Replicas
        BY <4>1, Zenon DEF TypeOK
      <4>3. QED
        BY <1>1, <4>1, <4>2 DEF BackedInv, VotesCast
    <3>4. QED
      BY <3>2, <3>3, Zenon
  <2>4. QED
    BY <2>1, <2>2, <2>3, Zenon DEF VotesCast
<1>6. QED
  BY <1>3, <1>4, <1>5, Zenon DEF BackedInv

\* advanceConsensus keeps the same property over all its stages.
LEMMA AdvanceBacked ==
    ASSUME TypeOK, BackedInv, NEW r \in Replicas,
           NEW pp \in SUBSET PreprepareMsg, NEW p, NEW c \in SUBSET VoteMsg, \A v \in c : Cast(v),
           NEW rest \in SUBSET net, AdvanceConsensus(r, pp, p, c, rest)
    PROVE  BackedInv'
<1>1. CASE AwaitProposal(r, pp, p, c, rest)
  <2>1. AnswersBacked'
    BY <1>1, AnswersStayBacked, Zenon DEF AwaitProposal, BackedInv
  <2>2. QuorumBacked'
    BY <1>1 DEF AwaitProposal, BackedInv, QuorumBacked, Backed
  <2>3. (\A q \in Replicas : \A v \in commits[q] : \E w \in votes[v.NodeID] : w.digest = v.digest)'
    BY <1>1, Zenon DEF AwaitProposal, BackedInv, VotesCast, Cast, TypeOK
  <2>4. VotesCast'
    BY <1>1, <2>3, ZenonT(40) DEF AwaitProposal, BackedInv, VotesCast, meta
  <2>5. QED
    BY <2>1, <2>2, <2>4, Zenon DEF BackedInv
<1>2. CASE \E cur \in RoundProposal(r, pp) : cur # NoMsg /\ StepStages(r, cur, pp, p, c, rest)
  BY <1>2, ProposalType, ProposalOrigin, StepBacked, Zenon
<1>3. QED
  BY <1>1, <1>2 DEF AdvanceConsensus

-----------------------------------------------------------------------------
(* Chains, while no write fails.                                           *)

\* The proposal of its round extends the chain of a node in step.
LEMMA ProposalFits ==
    ASSUME TypeOK, LogLinked, ChainsLogged, NEW r \in Replicas, NEW m, Logged(m), m.Seq = curSeq[r]
    PROVE  ValidBlock(chain[r], m.P)
<1>1. curSeq[r] \in Nat /\ chain[r] \in Seq(Block) /\ log \in Seq(Block)
  BY Zenon DEF TypeOK
<1>2. Len(chain[r]) = curSeq[r] /\ m.P = log[curSeq[r] + 1] /\ curSeq[r] < Len(log)
  BY Zenon DEF ChainsLogged, Logged
<1>3. curSeq[r] + 1 \in 1..Len(log)
  BY <1>1, <1>2
<1>4. m.P.Number = Len(chain[r]) + 1
  BY <1>2, <1>3, Zenon DEF LogLinked
<1>5. m.P.parent = IF curSeq[r] + 1 = 1 THEN 0 ELSE log[(curSeq[r] + 1) - 1].hash
  BY <1>2, <1>3, Zenon DEF LogLinked
<1>6. CASE curSeq[r] = 0
  BY <1>1, <1>2, <1>4, <1>5, <1>6 DEF ValidBlock, Tip
<1>7. CASE curSeq[r] # 0
  <2>1. chain[r] # <<>> /\ chain[r][curSeq[r]] = log[curSeq[r]]
    <3>1. curSeq[r] \in 1..Len(chain[r])
      BY <1>1, <1>2, <1>7
    <3>2. chain[r] # <<>>
      BY <3>1
    <3>3. QED
      BY <3>1, <3>2 DEF ChainsLogged
  <2>2. (curSeq[r] + 1) - 1 = curSeq[r] /\ curSeq[r] + 1 # 1
    BY <1>1, <1>7
  <2>3. Tip(chain[r]) = log[curSeq[r]].hash
    BY <1>2, <2>1 DEF Tip
  <2>4. m.P.parent = log[curSeq[r]].hash
    BY <1>5, <2>2, Zenon
  <2>5. QED
    BY <1>4, <2>3, <2>4, Zenon DEF ValidBlock
<1>8. QED
  BY <1>6, <1>7, Zenon

\* A proposal that extends the chain of a node in step is the one of its round.
LEMMA ValidIsCurrent ==
    ASSUME TypeOK, LogLinked, ChainsLogged, NEW r \in Replicas, NEW m \in PreprepareMsg, Logged(m),
           ValidBlock(chain[r], m.P)
    PROVE  m.Seq = curSeq[r]
<1>1. m.Seq \in Nat /\ m.Seq + 1 \in 1..Len(log)
  BY DEF PreprepareMsg, Logged, TypeOK
<1>2. m.P.Number = m.Seq + 1
  BY <1>1 DEF LogLinked, Logged
<1>3. m.P.Number = curSeq[r] + 1
  BY DEF ValidBlock, ChainsLogged
<1>4. QED
  BY <1>1, <1>2, <1>3 DEF TypeOK

\* While no write fails the stages of a round keep every chain a part of the log.
LEMMA StepSync ==
    ASSUME TypeOK, SyncInv, NEW r \in Replicas, NEW cur \in PreprepareMsg,
           Logged(cur), cur.Seq = curSeq[r],
           NEW pp \in SUBSET PreprepareMsg,
           failures = 0 => \A m \in pp : m.Seq <= curSeq[r],
           NEW p, NEW c, NEW rest,
           StepStages(r, cur, pp, p, c, rest), UNCHANGED <<log, catchupStarted>>,
           latestSeq' \in [Replicas -> Nat],
           failures = 0 => \A q \in Replicas : latestSeq'[q] <= curSeq[q]
    PROVE  SyncInv'
<1> SUFFICES ASSUME failures' = 0 PROVE (LogLinked /\ ChainsLogged /\ NobodyBehind)'
  BY Zenon DEF SyncInv
<1>1. failures = 0 /\ LogLinked /\ ChainsLogged /\ NobodyBehind
  <2>1. failures' = failures \/ failures' = failures + 1
    BY StepOutcome, Zenon DEF RoundGoesOn, RoundOver, CommitBlock
  <2>2. QED
    BY <2>1 DEF TypeOK, SyncInv
<1>2. LogLinked'
  BY <1>1, Zenon DEF LogLinked
<1>3. \A q \in Replicas : curSeq'[q] \in Nat /\ curSeq[q] \in Nat /\ curSeq'[q] >= curSeq[q]
  <2>1. curSeq' = curSeq \/ curSeq' = [curSeq EXCEPT ![r] = @ + 1]
    BY StepOutcome, Zenon DEF RoundGoesOn, RoundOver
  <2>2. curSeq \in [Replicas -> Nat]
    BY DEF TypeOK
  <2>3. CASE curSeq' = curSeq
    BY <2>2, <2>3
  <2>4. CASE curSeq' = [curSeq EXCEPT ![r] = @ + 1]
    BY <2>2, <2>4
  <2>5. QED
    BY <2>1, <2>3, <2>4
<1>4. NobodyBehind'
  <2>1. \A q \in Replicas : \A m \in preprepares'[q] : m.Seq \in Nat /\ m.Seq <= curSeq[q]
    <3>1. \A m \in preprepares'[r] : m.Seq \in Nat /\ m.Seq <= curSeq[r]
      BY <1>1, StepEffects DEF PreprepareMsg
    <3>2. \A q \in Replicas \ {r} : \A m \in preprepares'[q] : m.Seq \in Nat /\ m.Seq <= curSeq[q]
      <4> SUFFICES ASSUME NEW q \in Replicas \ {r}, NEW m \in preprepares'[q]
                   PROVE  m.Seq \in Nat /\ m.Seq <= curSeq[q]
        BY Zenon
      <4>1. m \in preprepares[q]
        BY StepEffects, Zenon
      <4>2. m \in PreprepareMsg
        <5>1. preprepares \in [Replicas -> SUBSET PreprepareMsg]
          BY Zenon DEF TypeOK
        <5>2. QED
          BY <4>1, <5>1
      <4>3. m.Seq <= curSeq[q]
        BY <1>1, <4>1, Zenon DEF NobodyBehind
      <4>4. QED
        BY <4>2, <4>3, Zenon DEF PreprepareMsg
    <3>3. QED
      BY <3>1, <3>2, Zenon
  <2>2. \A q \in Replicas : \A m \in preprepares'[q] : m.Seq <= curSeq'[q]
    BY <1>3, <2>1
  <2>3. \A q \in Replicas : latestSeq'[q] <= curSeq'[q] /\ ~ catchupStarted'[q]
    BY <1>1, <1>3 DEF NobodyBehind, TypeOK
  <2>4. QED
    BY <2>2, <2>3, Zenon DEF NobodyBehind
<1>5. ChainsLogged'
  <2>1. CASE \E st, ps : RoundGoesOn(r, cur, st, ps, commitSet[r] \cup Voters(c, cur))
    <3>1. chain' = chain /\ curSeq' = curSeq /\ log' = log
      BY <2>1, Zenon DEF RoundGoesOn
    <3>2. QED
      BY <1>1, <3>1, ZenonT(40) DEF ChainsLogged
  <2>2. CASE RoundOver(r, cur)
    <3>1. ValidBlock(chain[r], cur.P)
      BY <1>1, ProposalFits
    <3>2. chain' = [chain EXCEPT ![r] = Append(@, cur.P)]
      BY <1>1, <2>2, <3>1 DEF RoundOver, CommitBlock
    <3> SUFFICES ASSUME NEW q \in Replicas
                 PROVE  /\ Len(chain'[q]) = curSeq'[q]
                        /\ Len(chain'[q]) <= Len(log)
                        /\ \A i \in 1..Len(chain'[q]) : chain'[q][i] = log[i]
      BY DEF ChainsLogged
    <3>3. CASE q # r
      BY <1>1, <2>2, <3>2, <3>3, Zenon DEF RoundOver, ChainsLogged, TypeOK
    <3>4. CASE q = r
      <4>1. chain'[r] = Append(chain[r], cur.P) /\ chain[r] \in Seq(Block) /\ cur.P \in Block
        BY <3>2, Zenon DEF TypeOK, PreprepareMsg
      <4>2. curSeq'[r] = curSeq[r] + 1 /\ curSeq[r] \in Nat /\ Len(log) \in Nat
        BY <2>2 DEF RoundOver, TypeOK
      <4>3. Len(chain[r]) = curSeq[r] /\ curSeq[r] < Len(log) /\ cur.P = log[curSeq[r] + 1]
        <5>1. Len(chain[r]) = curSeq[r]
          BY <1>1, Zenon DEF ChainsLogged
        <5>2. cur.Seq < Len(log) /\ cur.P = log[cur.Seq + 1] /\ cur.Seq = curSeq[r]
          BY Zenon DEF Logged
        <5>3. QED
          BY <5>1, <5>2, Zenon
      <4>4. Len(chain'[r]) = curSeq[r] + 1 /\ chain'[r][curSeq[r] + 1] = cur.P
            /\ \A i \in 1..curSeq[r] : chain'[r][i] = chain[r][i]
        <5>1. PICK u, v, x : u = chain[r] /\ v = chain'[r] /\ x = cur.P
          BY Zenon
        <5>2. u \in Seq(Block) /\ x \in Block /\ v = Append(u, x)
          BY <4>1, <5>1, Zenon
        <5>3. /\ Len(Append(u, x)) = Len(u) + 1
              /\ Append(u, x)[Len(u) + 1] = x
              /\ \A i \in 1..Len(u) : Append(u, x)[i] = u[i]
          BY ONLY <5>2, AppendOne, Zenon
        <5>4. QED
          BY <4>3, <5>1, <5>2, <5>3, Zenon
      <4>5. \A i \in 1..Len(chain'[r]) : chain'[r][i] = log[i]
        <5>1. \A i \in 1..curSeq[r] : chain[r][i] = log[i]
          BY <1>1, <4>3, Zenon DEF ChainsLogged
        <5>2. \A i \in 1..Len(chain'[r]) : i \in 1..curSeq[r] \/ i = curSeq[r] + 1
          BY <4>2, <4>4, UpToNext, Zenon
        <5>3. QED
          BY <4>3, <4>4, <5>1, <5>2, Zenon
      <4>6. QED
        BY <3>4, <4>2, <4>3, <4>4, <4>5
    <3>5. QED
      BY <3>3, <3>4, Zenon
  <2>3. QED
    BY <2>1, <2>2, StepOutcome, Zenon
<1>6. QED
  BY <1>2, <1>4, <1>5

\* advanceConsensus keeps the same property over all its stages.
LEMMA AdvanceSync ==
    ASSUME TypeOK, RoundInv, SyncInv, NEW r \in Replicas,
           NEW pp \in SUBSET PreprepareMsg, \A m \in pp : Logged(m),
           failures = 0 => \A m \in pp : m.Seq <= curSeq[r],
           NEW p, NEW c, NEW rest,
           AdvanceConsensus(r, pp, p, c, rest), UNCHANGED <<log, catchupStarted>>,
           latestSeq' \in [Replicas -> Nat],
           failures = 0 => \A q \in Replicas : latestSeq'[q] <= curSeq[q]
    PROVE  SyncInv'
<1>1. CASE AwaitProposal(r, pp, p, c, rest)
  <2> SUFFICES ASSUME failures' = 0 PROVE (LogLinked /\ ChainsLogged /\ NobodyBehind)'
    BY DEF SyncInv
  <2>1. failures = 0 /\ LogLinked /\ ChainsLogged /\ NobodyBehind
    BY <1>1, Zenon DEF AwaitProposal, SyncInv
  <2>2. LogLinked' /\ ChainsLogged'
    BY <1>1, <2>1, Zenon DEF AwaitProposal, meta, LogLinked, ChainsLogged
  <2>3. \A q \in Replicas : \A m \in preprepares'[q] : m.Seq <= curSeq[q]
    BY <1>1, <2>1, Zenon DEF AwaitProposal, Later, NobodyBehind, TypeOK
  <2>4. QED
    BY <1>1, <2>1, <2>2, <2>3, Zenon DEF AwaitProposal, meta, NobodyBehind
<1>2. CASE \E cur \in RoundProposal(r, pp) : cur # NoMsg /\ StepStages(r, cur, pp, p, c, rest)
  BY <1>2, ProposalType, ProposalLogged, StepSync
<1>3. QED
  BY <1>1, <1>2, Zenon DEF AdvanceConsensus
=============================================================================
