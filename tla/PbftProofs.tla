----------------------------- MODULE PbftProofs -----------------------------
(***************************************************************************)
(* The invariant of PbftRoundProofs is preserved by every handler of a     *)
(* node, and what follows from it: agreement, quorums, and that catch-up   *)
(* never starts while no write fails.                                      *)
(***************************************************************************)
EXTENDS PbftRoundProofs

-----------------------------------------------------------------------------
\* The first n blocks of an answer.
LEMMA Front ==
    \A bs \in Seq(Block) : \A n \in 0..Len(bs) :
        /\ SubSeq(bs, 1, n) \in Seq(Block) /\ Len(SubSeq(bs, 1, n)) = n
        /\ \A i \in 1..n : SubSeq(bs, 1, n)[i] = bs[i]
<1> SUFFICES ASSUME NEW bs \in Seq(Block), NEW n \in 0..Len(bs)
             PROVE  /\ SubSeq(bs, 1, n) \in Seq(Block) /\ Len(SubSeq(bs, 1, n)) = n
                    /\ \A i \in 1..n : SubSeq(bs, 1, n)[i] = bs[i]
  OBVIOUS
<1>1. \A i \in 1..n : bs[i] \in Block
  OBVIOUS
<1>2. QED
  BY <1>1, SubSeqProperties

\* A block of a chain extended by an answer is one of the chain's or one of the
\* answer's.
LEMMA Joined ==
    \A ch, bs \in Seq(Block) : \A i \in 1..Len(ch \o bs) :
        \/ i \in 1..Len(ch) /\ (ch \o bs)[i] = ch[i]
        \/ i - Len(ch) \in 1..Len(bs) /\ (ch \o bs)[i] = bs[i - Len(ch)]
  BY ConcatProperties

-----------------------------------------------------------------------------
(* The actions.                                                            *)

\* The type invariant after an advanceConsensus.
LEMMA RoundTypeSuffices ==
    ASSUME TypeOK, RoundTypeOK', latestSeq' \in [Replicas -> Nat],
           UNCHANGED <<catchupStarted, closed, generated, log>>
    PROVE  TypeOK'
  BY DEF TypeOK, RoundTypeOK, MetaTypeOK

\* advanceConsensus keeps the invariant if the handler before it has put into
\* the pool only proposals and votes the invariant allows.
LEMMA AdvanceInvariant ==
    ASSUME IInv, NEW r \in Replicas,
           NEW pp \in SUBSET PreprepareMsg, \A m \in pp : Logged(m),
           failures = 0 => \A m \in pp : m.Seq <= curSeq[r],
           NEW p \in SUBSET VoteMsg,
           NEW c \in SUBSET VoteMsg, \A v \in c : Cast(v),
           NEW rest \in SUBSET net,
           AdvanceConsensus(r, pp, p, c, rest),
           latestSeq' \in [Replicas -> Nat],
           failures = 0 => \A q \in Replicas : latestSeq'[q] <= curSeq[q],
           UNCHANGED <<catchupStarted, closed, generated, log>>
    PROVE  IInv'
<1>1. TypeOK'
  BY AdvanceType, RoundTypeSuffices, Zenon DEF IInv, TypeOK
<1>2. RoundInv'
  BY AdvanceRound DEF IInv
<1>3. BackedInv'
  BY AdvanceBacked DEF IInv
<1>4. SyncInv'
  BY AdvanceSync DEF IInv
<1>5. QED
  BY <1>1, <1>2, <1>3, <1>4 DEF IInv

\* The pools and the rounds the invariant describes.
LEMMA PoolFacts ==
    ASSUME IInv, NEW r \in Replicas
    PROVE  /\ preprepares[r] \in SUBSET PreprepareMsg
           /\ \A m \in preprepares[r] : Logged(m)
           /\ failures = 0 => \A m \in preprepares[r] : m.Seq <= curSeq[r]
           /\ prepares[r] \in SUBSET VoteMsg
           /\ commits[r] \in SUBSET VoteMsg
           /\ \A v \in commits[r] : Cast(v)
           /\ latestSeq \in [Replicas -> Nat]
           /\ failures = 0 => \A q \in Replicas : latestSeq[q] <= curSeq[q]
<1>1. /\ preprepares[r] \in SUBSET PreprepareMsg
      /\ prepares[r] \in SUBSET VoteMsg
      /\ commits[r] \in SUBSET VoteMsg
      /\ latestSeq \in [Replicas -> Nat]
  BY DEF IInv, TypeOK
<1>2. \A m \in preprepares[r] : Logged(m)
  BY DEF IInv, RoundInv, ProposalsLogged
<1>3. \A v \in commits[r] : Cast(v)
  BY DEF IInv, BackedInv, VotesCast, Cast
<1>4. failures = 0 => /\ \A m \in preprepares[r] : m.Seq <= curSeq[r]
                      /\ \A q \in Replicas : latestSeq[q] <= curSeq[q]
  BY DEF IInv, SyncInv, NobodyBehind
<1>5. QED
  BY <1>1, <1>2, <1>3, <1>4

\* A message that is taken off the network and has no other effect.
LEMMA DropInvariant ==
    ASSUME IInv, net' \subseteq net,
           UNCHANGED <<meta, pool, latestSeq, catchupStarted, closed, chain, generated, failures, votes, log>>
    PROVE  IInv'
<1> USE DEF meta, pool
<1>1. TypeOK'
  BY DEF IInv, TypeOK, Message
<1>2. RoundInv'
  BY DEF IInv, RoundInv, LeaderRound, ProposalsLogged, VotesLogged, Logged
<1>3. BackedInv'
  <2>1. AnswersBacked'
    BY DEF IInv, BackedInv, AnswersBacked, Backed
  <2>2. QuorumBacked'
    BY DEF IInv, BackedInv, QuorumBacked, Backed
  <2>3. VotesCast'
    BY DEF IInv, BackedInv, VotesCast
  <2>4. QED
    BY <2>1, <2>2, <2>3 DEF BackedInv
<1>4. SyncInv'
  BY DEF IInv, SyncInv, LogLinked, ChainsLogged, NobodyBehind
<1>5. QED
  BY <1>1, <1>2, <1>3, <1>4 DEF IInv

\* handlePreprepare preserves the invariant.
LEMMA HandlePreprepareInvariant ==
    ASSUME IInv, NEW r \in Live, NEW m, HandlePreprepare(r, m)
    PROVE  IInv'
<1> DEFINE rest == net \ {Preprepare(r, m)}
<1>1. r \in Replicas
  BY LeaderAssumption
<1>2. Preprepare(r, m) \in net /\ m \in PreprepareMsg /\ Logged(m)
  <2>1. Preprepare(r, m) \in net
    BY Zenon DEF HandlePreprepare
  <2>2. Preprepare(r, m).type = "Preprepare" /\ Preprepare(r, m).body = m
    BY DEF Preprepare
  <2>3. QED
    BY <2>1, <2>2, Zenon DEF IInv, TypeOK, Message, RoundInv, ProposalsLogged
<1>3. UNCHANGED <<catchupStarted, closed, generated, log>>
  BY DEF HandlePreprepare
<1>4. CASE /\ ~ (curSeq[r] > m.Seq) /\ ValidBlock(chain[r], m.P)
           /\ latestSeq' = [latestSeq EXCEPT ![r] = IF @ < m.Seq THEN m.Seq ELSE @]
           /\ AdvanceConsensus(r, preprepares[r] \cup {m}, prepares[r], commits[r], rest)
  <2>1. failures = 0 => m.Seq = curSeq[r]
    BY <1>1, <1>2, <1>4, ValidIsCurrent DEF IInv, SyncInv
  <2>2. m.Seq \in Nat /\ curSeq \in [Replicas -> Nat] /\ latestSeq \in [Replicas -> Nat]
    BY <1>2 DEF IInv, TypeOK, PreprepareMsg
  <2>3. latestSeq' \in [Replicas -> Nat]
    BY <1>1, <1>4, <2>2
  <2>4. failures = 0 => \A q \in Replicas : latestSeq'[q] <= curSeq[q]
    <3>1. failures = 0 => \A q \in Replicas : latestSeq[q] <= curSeq[q]
      BY <1>1, PoolFacts
    <3>2. QED
      BY <1>1, <1>4, <2>1, <2>2, <3>1
  <2>5. failures = 0 => \A x \in preprepares[r] \cup {m} : x.Seq <= curSeq[r]
    BY <1>1, <2>1, <2>2, PoolFacts
  <2>6. preprepares[r] \cup {m} \in SUBSET PreprepareMsg /\ \A x \in preprepares[r] \cup {m} : Logged(x)
    BY <1>1, <1>2, PoolFacts
  <2>7. rest \in SUBSET net
    OBVIOUS
  <2> HIDE DEF rest
  <2>8. QED
    BY <1>1, <1>3, <1>4, <2>3, <2>4, <2>5, <2>6, <2>7, PoolFacts, AdvanceInvariant, Zenon
<1>5. CASE net' = rest /\ UNCHANGED <<meta, pool, chain, failures, votes, latestSeq>>
  BY <1>3, <1>5, DropInvariant
<1>6. QED
  BY <1>4, <1>5, Zenon DEF HandlePreprepare

\* handlePrepare preserves the invariant.
LEMMA HandlePrepareInvariant ==
    ASSUME IInv, NEW r \in Live, NEW m, HandlePrepare(r, m)
    PROVE  IInv'
<1> DEFINE kept == {v \in {m} : curSeq[r] <= v.Seq}
           rest == net \ {Prepare(r, m)}
<1>1. r \in Replicas
  BY LeaderAssumption
<1>2. m \in VoteMsg
  BY Zenon DEF HandlePrepare, IInv, TypeOK, Message, Prepare
<1>3. prepares[r] \cup kept \in SUBSET VoteMsg /\ rest \in SUBSET net
  BY <1>1, <1>2, PoolFacts, Zenon
<1>4. /\ AdvanceConsensus(r, preprepares[r], prepares[r] \cup kept, commits[r], rest)
      /\ UNCHANGED <<latestSeq, catchupStarted, closed, generated, log>>
  BY DEF HandlePrepare
<1> HIDE DEF kept, rest
<1>5. QED
  BY <1>1, <1>3, <1>4, PoolFacts, AdvanceInvariant

\* handleCommit preserves the invariant.
LEMMA HandleCommitInvariant ==
    ASSUME IInv, NEW r \in Live, NEW m, HandleCommit(r, m)
    PROVE  IInv'
<1> DEFINE kept == {v \in {m} : curSeq[r] <= v.Seq}
           rest == net \ {Commit(r, m)}
<1>1. r \in Replicas
  BY LeaderAssumption
<1>2. m \in VoteMsg /\ Cast(m)
  <2>1. Commit(r, m) \in net
    BY DEF HandleCommit
  <2>2. Commit(r, m).type = "Commit" /\ Commit(r, m).body = m
    BY DEF Commit
  <2>3. QED
    BY <2>1, <2>2, ZenonT(40) DEF IInv, TypeOK, Message, BackedInv, VotesCast, Cast
<1>3. /\ commits[r] \cup kept \in SUBSET VoteMsg /\ rest \in SUBSET net
      /\ \A v \in commits[r] \cup kept : Cast(v)
  BY <1>1, <1>2, PoolFacts
<1>4. /\ AdvanceConsensus(r, preprepares[r], prepares[r], commits[r] \cup kept, rest)
      /\ UNCHANGED <<latestSeq, catchupStarted, closed, generated, log>>
  BY DEF HandleCommit
<1> HIDE DEF kept, rest
<1>5. QED
  BY <1>1, <1>3, <1>4, PoolFacts, AdvanceInvariant, Zenon

\* The tick of the main loop preserves the invariant.
LEMMA TickInvariant ==
    ASSUME IInv, NEW r \in Live, Tick(r)
    PROVE  IInv'
<1>1. r \in Replicas
  BY LeaderAssumption
<1>2. PICK cur \in RoundProposal(r, preprepares[r]) :
          StepStages(r, cur, preprepares[r], prepares[r], commits[r], net)
  BY Zenon DEF Tick
<1>3. cur # NoMsg
  <2>1. preprepares[r] \subseteq PreprepareMsg
    BY <1>1, PoolFacts
  <2>2. ~ Settled(r)
    BY DEF Tick
  <2>3. QED
    BY <1>2, <2>1, <2>2, NoMsgAssumption DEF Settled, RoundProposal
<1>4. AdvanceConsensus(r, preprepares[r], prepares[r], commits[r], net)
  BY <1>2, <1>3 DEF AdvanceConsensus
<1>5. UNCHANGED <<latestSeq, catchupStarted, closed, generated, log>>
  BY Zenon DEF Tick
<1>6. net \in SUBSET net
  OBVIOUS
<1>7. QED
  BY <1>1, <1>4, <1>5, <1>6, PoolFacts, AdvanceInvariant, Zenon

\* The stop message preserves the invariant.
LEMMA HandleStopConsensusInvariant ==
    ASSUME IInv, NEW r \in Live, HandleStopConsensus(r)
    PROVE  IInv'
<1> USE DEF HandleStopConsensus, meta, pool
<1>1. TypeOK'
  BY Zenon DEF IInv, TypeOK, Message
<1>2. RoundInv'
  BY Zenon DEF IInv, RoundInv, LeaderRound, ProposalsLogged, VotesLogged, Logged
<1>3. BackedInv'
  <2>1. AnswersBacked'
    BY Zenon DEF IInv, BackedInv, AnswersBacked, Backed
  <2>2. QuorumBacked'
    BY DEF IInv, BackedInv, QuorumBacked, Backed
  <2>3. VotesCast'
    BY DEF IInv, BackedInv, VotesCast
  <2>4. QED
    BY <2>1, <2>2, <2>3 DEF BackedInv
<1>4. SyncInv'
  BY DEF IInv, SyncInv, LogLinked, ChainsLogged, NobodyBehind
<1>5. QED
  BY <1>1, <1>2, <1>3, <1>4 DEF IInv

\* The new proposal is logged as the one of the round that it opens, and it
\* extends the chain of the leader, which is all of the log.
LEMMA ProposeInvariant ==
    ASSUME IInv, Propose
    PROVE  IInv'
<1> PICK b : b = GenerateBlock(chain[Leader])
  OBVIOUS
<1> PICK m : m = [Seq |-> curSeq[Leader], P |-> b]
  BY Zenon
<1>1. /\ Leader \in Replicas
      /\ curSeq[Leader] \in Nat /\ chain[Leader] \in Seq(Block) /\ log \in Seq(Block)
      /\ generated \in Nat
  BY LeaderAssumption DEF IInv, TypeOK
<1>2. Tip(chain[Leader]) \in Nat
  <2>1. CASE chain[Leader] = <<>>
    BY <2>1, Zenon DEF Tip
  <2>2. CASE chain[Leader] # <<>>
    <3>1. chain[Leader][Len(chain[Leader])] \in Block
      BY <1>1, <2>2
    <3>2. QED
      BY <2>2, <3>1 DEF Tip, Block
  <2>3. QED
    BY <2>1, <2>2
<1>3. b \in Block /\ m \in PreprepareMsg
  BY <1>1, <1>2 DEF GenerateBlock, Block, PreprepareMsg
<1>4. /\ net' = net \cup {Preprepare(q, m) : q \in Live \ {Leader}}
      /\ preprepares' = [preprepares EXCEPT ![Leader] = @ \cup {m}]
      /\ latestSeq' = [latestSeq EXCEPT ![Leader] = m.Seq]
      /\ proposed' = [proposed EXCEPT ![Leader] = TRUE]
      /\ generated' = generated + 1
      /\ log' = Append(log, b)
      /\ UNCHANGED <<curSeq, stage, curPreprepare, prepareSet, commitSet, catchupStarted,
                     closed, prepares, commits, chain, failures, votes>>
  BY Zenon DEF Propose
<1>5. Len(log) = curSeq[Leader]
  <2>1. ~ proposed[Leader]
    BY Zenon DEF Propose
  <2>2. Len(log) = curSeq[Leader] + (IF proposed[Leader] THEN 1 ELSE 0)
    BY Zenon DEF IInv, RoundInv, LeaderRound
  <2>3. Len(log) = curSeq[Leader] + 0
    BY <2>1, <2>2, Zenon
  <2>4. QED
    BY <1>1, <2>3
<1>6. b.Number = Len(chain[Leader]) + 1 /\ b.parent = Tip(chain[Leader])
  BY DEF GenerateBlock
<1>7. m.Seq = curSeq[Leader] /\ m.P = b
  OBVIOUS
<1>8. Len(log') = Len(log) + 1 /\ log'[Len(log) + 1] = b /\ \A i \in 1..Len(log) : log'[i] = log[i]
  BY <1>1, <1>3, <1>4, AppendProperties
<1>9. Logged(m)'
  BY <1>1, <1>5, <1>7, <1>8 DEF Logged
<1>10. \A x \in PreprepareMsg : Logged(x) => Logged(x)'
  <2> SUFFICES ASSUME NEW x \in PreprepareMsg, Logged(x) PROVE Logged(x)'
    OBVIOUS
  <2>1. x.Seq \in Nat /\ x.Seq + 1 \in 1..Len(log)
    BY <1>1 DEF Logged, PreprepareMsg
  <2>2. QED
    BY <1>1, <1>8, <2>1 DEF Logged
<1>11. TypeOK'
  <2>1. \A x \in net' : Message(x)
    <3>1. ASSUME NEW x \in net
          PROVE  Message(x)
      BY Zenon DEF IInv, TypeOK
    <3>2. ASSUME NEW q \in Live
          PROVE  Message(Preprepare(q, m))
      <4>1. q \in Replicas
        BY LeaderAssumption
      <4>2. QED
        BY <1>3, <4>1 DEF Message, Preprepare
    <3>3. QED
      BY <1>4, <3>1, <3>2, Zenon
  <2>2. /\ preprepares' \in [Replicas -> SUBSET PreprepareMsg]
        /\ latestSeq' \in [Replicas -> Nat]
        /\ proposed' \in [Replicas -> BOOLEAN]
        /\ generated' \in Nat
        /\ log' \in Seq(Block)
    BY <1>1, <1>3, <1>4, <1>7, SMTT(30) DEF IInv, TypeOK
  <2>3. QED
    BY <1>4, <2>1, <2>2, Zenon DEF IInv, TypeOK, Message
<1>12. RoundInv'
  <2>1. LeaderRound'
    BY <1>1, <1>4, <1>5, <1>8, Zenon DEF IInv, TypeOK, RoundInv, LeaderRound
  <2>2. (\A r \in Replicas : curPreprepare[r] # NoMsg =>
            Logged(curPreprepare[r]) /\ curPreprepare[r].Seq = curSeq[r])'
    <3> SUFFICES ASSUME NEW r \in Replicas, curPreprepare[r] # NoMsg
                 PROVE  Logged(curPreprepare[r])' /\ curPreprepare[r].Seq = curSeq[r]
      BY <1>4, Zenon
    <3>1. PICK x : x = curPreprepare[r]
      OBVIOUS
    <3>2. x \in PreprepareMsg /\ Logged(x) /\ x.Seq = curSeq[r]
      BY <3>1, Zenon DEF IInv, TypeOK, RoundInv, ProposalsLogged
    <3>3. Logged(x)'
      BY <1>10, <3>2
    <3>4. QED
      BY <1>4, <3>1, <3>2, <3>3, Zenon DEF Logged
  <2>3. (\A r \in Replicas : \A x \in preprepares[r] : Logged(x))'
    <3> SUFFICES ASSUME NEW r \in Replicas, NEW x \in preprepares'[r] PROVE Logged(x)'
      OBVIOUS
    <3>1. x = m \/ x \in preprepares[r]
      BY <1>4 DEF IInv, TypeOK
    <3>2. CASE x \in preprepares[r]
      BY <1>10, <3>2, PoolFacts
    <3>3. QED
      BY <1>9, <3>1, <3>2
  <2>4. (\A x \in net : x.type = "Preprepare" => Logged(x.body))'
    <3> SUFFICES ASSUME NEW x \in net', x.type = "Preprepare" PROVE Logged(x.body)'
      OBVIOUS
    <3>1. CASE x \in net
      <4>1. x.body \in PreprepareMsg /\ Logged(x.body)
        BY <3>1, Zenon DEF IInv, TypeOK, Message, RoundInv, ProposalsLogged
      <4>2. QED
        BY <1>10, <4>1
    <3>2. CASE x.body = m
      BY <1>9, <3>2
    <3>3. QED
      BY <1>4, <3>1, <3>2 DEF Preprepare
  <2>5. VotesLogged'
    <3> SUFFICES ASSUME NEW r \in Replicas, NEW v \in votes[r]
                 PROVE  v.Seq < Len(log') /\ v.digest = log'[v.Seq + 1].hash
      BY <1>4, Zenon DEF VotesLogged
    <3>1. v.Seq \in Nat
      BY DEF IInv, TypeOK, BallotType
    <3>2. v.Seq < Len(log) /\ v.digest = log[v.Seq + 1].hash
      BY DEF IInv, RoundInv, VotesLogged
    <3>3. QED
      BY <1>1, <1>8, <3>1, <3>2, SMTT(30)
  <2>6. QED
    BY <2>1, <2>2, <2>3, <2>4, <2>5 DEF RoundInv, ProposalsLogged
<1>13. BackedInv'
  <2>1. \A x \in net' : x \in net \/ x.type = "Preprepare"
    BY <1>4 DEF Preprepare
  <2>2. AnswersBacked'
    BY <1>4, <2>1, Zenon DEF IInv, BackedInv, AnswersBacked, Backed
  <2>3. QuorumBacked'
    BY <1>4, SMTT(30) DEF IInv, BackedInv, QuorumBacked, Backed
  <2>4. VotesCast'
    BY <1>4, <2>1 DEF IInv, BackedInv, VotesCast
  <2>5. QED
    BY <2>2, <2>3, <2>4, SMTT(30) DEF BackedInv
<1>14. SyncInv'
  <2> SUFFICES ASSUME failures = 0 PROVE (LogLinked /\ ChainsLogged /\ NobodyBehind)'
    BY <1>4, Zenon DEF SyncInv
  <2>1. LogLinked /\ ChainsLogged /\ NobodyBehind
    BY DEF IInv, SyncInv
  <2>2. LogLinked'
    <3>1. b.Number = Len(log) + 1
      BY <1>1, <1>5, <1>6, <2>1, Zenon DEF ChainsLogged
    <3>2. b.parent = IF Len(log) + 1 = 1 THEN 0 ELSE log[Len(log)].hash
      <4>1. Len(chain[Leader]) = Len(log) /\ Len(log) \in Nat
        BY <1>1, <1>5, <2>1 DEF ChainsLogged
      <4>2. CASE Len(log) = 0
        BY <1>1, <1>6, <4>1, <4>2, SMTT(30) DEF Tip
      <4>3. CASE Len(log) # 0
        <5>1. Len(log) \in 1..Len(chain[Leader])
          BY <4>1, <4>3
        <5>2. chain[Leader] # <<>> /\ chain[Leader][Len(log)] = log[Len(log)]
          BY <1>1, <2>1, <5>1 DEF ChainsLogged
        <5>3. QED
          BY <1>6, <4>1, <4>3, <5>2 DEF Tip
      <4>4. QED
        BY <4>2, <4>3
    <3> SUFFICES ASSUME NEW i \in 1..Len(log')
                 PROVE  log'[i].Number = i /\ log'[i].parent = IF i = 1 THEN 0 ELSE log'[i - 1].hash
      BY DEF LogLinked
    <3>3. CASE i = Len(log) + 1
      <4>1. log'[i] = b /\ i - 1 = Len(log)
        BY <1>1, <1>8, <3>3
      <4>2. i # 1 => log'[i - 1] = log[Len(log)]
        BY <1>1, <1>8, <3>3, <4>1
      <4>3. QED
        BY <1>1, <3>1, <3>2, <3>3, <4>1, <4>2, Zenon
    <3>4. CASE i # Len(log) + 1
      <4>1. i \in 1..Len(log)
        BY <1>1, <1>8, <3>4
      <4>2. log'[i] = log[i] /\ (i # 1 => log'[i - 1] = log[i - 1])
        BY <1>1, <1>8, <4>1
      <4>3. QED
        BY <2>1, <4>1, <4>2 DEF LogLinked
    <3>5. QED
      BY <3>3, <3>4
  <2>3. ChainsLogged'
    <3> SUFFICES ASSUME NEW r \in Replicas
                 PROVE  /\ Len(chain[r]) = curSeq[r]
                        /\ Len(chain[r]) <= Len(log')
                        /\ \A i \in 1..Len(chain[r]) : chain[r][i] = log'[i]
      BY <1>4, Zenon DEF ChainsLogged
    <3>1. chain[r] \in Seq(Block)
      BY DEF IInv, TypeOK
    <3>2. /\ Len(chain[r]) = curSeq[r] /\ Len(chain[r]) <= Len(log)
          /\ \A i \in 1..Len(chain[r]) : chain[r][i] = log[i]
      BY <2>1, Zenon DEF ChainsLogged
    <3>3. QED
      BY <1>1, <1>8, <3>1, <3>2
  <2>4. NobodyBehind'
    BY <1>1, <1>4, <1>7, <2>1, SMTT(30) DEF NobodyBehind, IInv, TypeOK
  <2>5. QED
    BY <2>2, <2>3, <2>4
<1>15. QED
  BY <1>11, <1>12, <1>13, <1>14 DEF IInv

\* A node that starts to catch up is behind, so a write has failed before.
LEMMA CatchUpStartInvariant ==
    ASSUME IInv, NEW r \in Live, CatchUpStart(r)
    PROVE  IInv'
<1>1. r \in Replicas /\ Leader \in Replicas /\ r # Leader
  BY LeaderAssumption DEF CatchUpStart
<1>2. PICK req : req = CatchupReq(r, Len(chain[r]) + 1)
  OBVIOUS
<1>3. /\ net' = net \cup {req}
      /\ catchupStarted' = [catchupStarted EXCEPT ![r] = TRUE]
      /\ UNCHANGED <<meta, latestSeq, closed, pool, chain, generated, failures, votes, log>>
  BY <1>2 DEF CatchUpStart
<1>4. req.type = "CatchupReq" /\ Message(req)
  <2>1. Len(chain[r]) + 1 \in Nat \ {0}
    BY <1>1 DEF IInv, TypeOK
  <2>2. QED
    BY <1>2, <2>1 DEF CatchupReq, Message
<1> USE DEF meta, pool
<1>5. TypeOK'
  BY <1>3, <1>4, Zenon DEF IInv, TypeOK, Message
<1>6. RoundInv'
  <2>1. LeaderRound'
    BY <1>1, <1>3 DEF IInv, TypeOK, RoundInv, LeaderRound
  <2>2. QED
    BY <1>3, <1>4, <2>1, Zenon DEF IInv, RoundInv, ProposalsLogged, VotesLogged, Logged
<1>7. BackedInv'
  <2>1. AnswersBacked'
    BY <1>3, <1>4, Zenon DEF IInv, BackedInv, AnswersBacked, Backed
  <2>2. QuorumBacked'
    BY <1>3, Zenon DEF IInv, BackedInv, QuorumBacked, Backed
  <2>3. VotesCast'
    BY <1>3, <1>4, Zenon DEF IInv, BackedInv, VotesCast
  <2>4. QED
    BY <2>1, <2>2, <2>3 DEF BackedInv
<1>8. SyncInv'
  <2>1. failures # 0
    <3>1. latestSeq[r] >= curSeq[r] + catchUpThreshold
      BY Zenon DEF CatchUpStart, catchupReady
    <3>2. QED
      BY <1>1, <3>1, ThresholdAssumption DEF IInv, TypeOK, SyncInv, NobodyBehind
  <2>2. QED
    BY <1>3, <2>1 DEF SyncInv
<1>9. QED
  BY <1>5, <1>6, <1>7, <1>8 DEF IInv

\* The leader answers with blocks of its own chain.
LEMMA HandleCatchupReqInvariant ==
    ASSUME IInv, NEW from, NEW begin, HandleCatchupReq(from, begin)
    PROVE  IInv'
<1> USE DEF meta, pool
<1>1. begin \in Nat \ {0} /\ chain[Leader] \in Seq(Block) /\ curSeq[Leader] \in Nat /\ Leader \in Replicas
  BY LeaderAssumption, Zenon DEF HandleCatchupReq, IInv, TypeOK, Message, CatchupReq
<1>2. PICK bs : bs = SubSeq(chain[Leader], begin, Len(chain[Leader]))
  BY Zenon
<1>3. bs \in Seq(Block) /\ \A i \in 1..Len(bs) : \E j \in 1..Len(chain[Leader]) : bs[i] = chain[Leader][j]
  <2>1. \A i \in begin..Len(chain[Leader]) : chain[Leader][i] \in Block
    BY <1>1
  <2>2. bs \in Seq(Block)
    BY <1>1, <1>2, <2>1
  <2>3. CASE begin <= Len(chain[Leader])
    <3>1. Len(bs) = Len(chain[Leader]) - begin + 1 /\ \A i \in 1..Len(bs) : bs[i] = chain[Leader][begin + i - 1]
      BY <1>1, <1>2, <2>3
    <3>2. \A i \in 1..Len(bs) : begin + i - 1 \in 1..Len(chain[Leader])
      BY <1>1, <2>3, <3>1
    <3>3. QED
      BY <2>2, <3>1, <3>2, Zenon
  <2>4. CASE begin > Len(chain[Leader])
    <3>1. Len(bs) = 0
      BY <1>1, <1>2, <2>4
    <3>2. QED
      BY <2>2, <3>1
  <2>5. begin \in Nat /\ Len(chain[Leader]) \in Nat
    BY <1>1
  <2>6. begin <= Len(chain[Leader]) \/ begin > Len(chain[Leader])
    BY <2>5
  <2>7. QED
    BY <2>3, <2>4, <2>6, Zenon
<1>4. PICK resp : resp = CatchupResp(from, bs, curSeq[Leader])
  OBVIOUS
<1>5. /\ net' \subseteq net \cup {resp}
      /\ UNCHANGED <<meta, latestSeq, catchupStarted, closed, pool, chain, generated, failures, votes, log>>
  BY <1>2, <1>4 DEF HandleCatchupReq, BlocksFrom
<1>6. resp.type = "CatchupResp" /\ resp.Proposals = bs /\ Message(resp)
  BY <1>1, <1>3, <1>4, Zenon DEF CatchupResp, Message
<1>7. TypeOK'
  BY <1>5, <1>6, Zenon DEF IInv, TypeOK, Message
<1>8. RoundInv'
  BY <1>5, <1>6 DEF IInv, RoundInv, LeaderRound, ProposalsLogged, VotesLogged, Logged
<1>9. BackedInv'
  <2>1. AnswersBacked'
    <3> SUFFICES ASSUME NEW m \in net', m.type = "CatchupResp", NEW i \in 1..Len(m.Proposals)
                 PROVE  Backed(m.Proposals[i])
      BY <1>5 DEF AnswersBacked, Backed
    <3>1. CASE m \in net
      BY <3>1 DEF IInv, BackedInv, AnswersBacked
    <3>2. CASE m = resp
      BY <1>1, <1>3, <1>6, <3>2, Zenon DEF IInv, BackedInv, QuorumBacked
    <3>3. QED
      BY <1>5, <3>1, <3>2
  <2>2. QuorumBacked'
    BY <1>5 DEF IInv, BackedInv, QuorumBacked, Backed
  <2>3. VotesCast'
    BY <1>5, <1>6, Zenon DEF IInv, BackedInv, VotesCast
  <2>4. QED
    BY <2>1, <2>2, <2>3 DEF BackedInv
<1>10. SyncInv'
  BY <1>5 DEF IInv, SyncInv, LogLinked, ChainsLogged, NobodyBehind
<1>11. QED
  BY <1>7, <1>8, <1>9, <1>10 DEF IInv

\* A follower takes blocks from an answer only after a write has failed, and
\* they are backed; its own round is set, never the leader's.
LEMMA HandleCatchupRespInvariant ==
    ASSUME IInv, NEW r \in Live, NEW blocks, NEW next, HandleCatchupResp(r, blocks, next)
    PROVE  IInv'
<1>1. r \in Replicas /\ Leader \in Replicas
  BY LeaderAssumption
<1>2. /\ net' \subseteq net
      /\ UNCHANGED <<latestSeq, closed, pool, generated, votes, log>>
  BY Zenon DEF HandleCatchupResp
<1>3. CASE ~ catchupStarted[r] /\ UNCHANGED <<meta, catchupStarted, chain, failures>>
  BY <1>2, <1>3, DropInvariant
<1>4. CASE catchupStarted[r]
  <2>1. blocks \in Seq(Block) /\ next \in Nat /\ \A i \in 1..Len(blocks) : Backed(blocks[i])
    <3>1. CatchupResp(r, blocks, next) \in net
      BY Zenon DEF HandleCatchupResp
    <3>2. /\ CatchupResp(r, blocks, next).type = "CatchupResp"
          /\ CatchupResp(r, blocks, next).Proposals = blocks
          /\ CatchupResp(r, blocks, next).NextSeq = next
      BY DEF CatchupResp
    <3>3. QED
      BY <3>1, <3>2, Zenon DEF IInv, TypeOK, Message, BackedInv, AnswersBacked
  <2>2. r # Leader
    BY <1>4, Zenon DEF IInv, RoundInv, LeaderRound
  <2>3. failures # 0 /\ failures \in Nat
    BY <1>1, <1>4 DEF IInv, TypeOK, SyncInv, NobodyBehind
  <2>4. PICK n \in 0..Len(blocks) :
            /\ chain' = [chain EXCEPT ![r] = chain[r] \o SubSeq(blocks, 1, n)]
            /\ \/ CatchupOverAndReset(r, next) /\ UNCHANGED failures
               \/ UNCHANGED <<meta, catchupStarted>> /\ (UNCHANGED failures \/ failures' = failures + 1)
    BY <1>4, Zenon DEF HandleCatchupResp
  <2>5. PICK added : added = SubSeq(blocks, 1, n)
    BY Zenon
  <2>6. added \in Seq(Block) /\ Len(added) = n /\ \A i \in 1..n : added[i] = blocks[i]
    <3>1. blocks \in Seq(Block) /\ n \in 0..Len(blocks)
      BY <2>1, <2>4, Zenon
    <3>2. QED
      BY ONLY <2>5, <3>1, Front, Zenon
  <2>7. chain' = [chain EXCEPT ![r] = chain[r] \o added] /\ chain[r] \in Seq(Block)
    BY <1>1, <2>4, <2>5, Zenon DEF IInv, TypeOK
  <2>8. TypeOK'
    <3>1. chain' \in [Replicas -> Seq(Block)]
      <4>1. chain[r] \o added \in Seq(Block)
        BY <2>6, <2>7
      <4>2. chain \in [Replicas -> Seq(Block)]
        BY DEF IInv, TypeOK
      <4>3. QED
        BY <2>7, <4>1, <4>2, Zenon
    <3>2. failures' \in Nat
      BY <2>3, <2>4
    <3>3. /\ proposed' \in [Replicas -> BOOLEAN]
          /\ curSeq' \in [Replicas -> Nat]
          /\ stage' \in [Replicas -> {"preprepare", "prepare", "commit"}]
          /\ curPreprepare' \in [Replicas -> PreprepareMsg \cup {NoMsg}]
          /\ prepareSet' \in [Replicas -> SUBSET Replicas]
          /\ commitSet' \in [Replicas -> SUBSET Replicas]
          /\ catchupStarted' \in [Replicas -> BOOLEAN]
      <4>1. CASE UNCHANGED <<meta, catchupStarted>>
        BY <4>1 DEF IInv, TypeOK, meta
      <4>2. CASE CatchupOverAndReset(r, next)
        BY <2>1, <4>2, Zenon DEF IInv, TypeOK, CatchupOverAndReset
      <4>3. QED
        BY <2>4, <4>1, <4>2, Zenon
    <3>4. QED
      BY <1>2, <3>1, <3>2, <3>3, Zenon DEF IInv, TypeOK, pool, Message
  <2>9. RoundInv'
    <3>1. LeaderRound'
      <4>1. /\ curSeq'[Leader] = curSeq[Leader]
            /\ proposed'[Leader] = proposed[Leader]
            /\ catchupStarted'[Leader] = catchupStarted[Leader]
        BY <2>2, <2>4, LeaderAssumption, Zenon DEF IInv, TypeOK, CatchupOverAndReset, meta
      <4>2. QED
        BY <1>2, <4>1, Zenon DEF IInv, RoundInv, LeaderRound
    <3>2. (\A q \in Replicas : curPreprepare[q] # NoMsg =>
              Logged(curPreprepare[q]) /\ curPreprepare[q].Seq = curSeq[q])'
      BY <1>1, <1>2, <2>4, ZenonT(40) DEF IInv, TypeOK, RoundInv, ProposalsLogged, Logged, CatchupOverAndReset, meta
    <3>3. QED
      BY <1>2, <3>1, <3>2, Zenon DEF IInv, RoundInv, ProposalsLogged, VotesLogged, Logged, pool
  <2>10. BackedInv'
    <3>1. AnswersBacked'
      BY <1>2, AnswersStayBacked, Zenon DEF IInv, BackedInv
    <3>2. QuorumBacked'
      <4> SUFFICES ASSUME NEW q \in Replicas, NEW i \in 1..Len(chain'[q])
                   PROVE  Backed(chain'[q][i])
        BY <1>2, Zenon DEF QuorumBacked, Backed
      <4>1. CASE q # r
        BY <2>7, <4>1, Zenon DEF IInv, TypeOK, BackedInv, QuorumBacked
      <4>2. CASE q = r
        <5>1. chain'[r] = chain[r] \o added
          BY <1>1, <2>7, Zenon DEF IInv, TypeOK
        <5>2. \/ i \in 1..Len(chain[r]) /\ chain'[r][i] = chain[r][i]
              \/ i - Len(chain[r]) \in 1..n /\ chain'[r][i] = added[i - Len(chain[r])]
          <6>1. i \in 1..Len(chain[r] \o added)
            BY <4>2, <5>1, Zenon
          <6>2. \/ i \in 1..Len(chain[r]) /\ (chain[r] \o added)[i] = chain[r][i]
                \/ i - Len(chain[r]) \in 1..Len(added)
                   /\ (chain[r] \o added)[i] = added[i - Len(chain[r])]
            BY ONLY <2>6, <2>7, <6>1, Joined, Zenon
          <6>3. QED
            BY <2>6, <5>1, <6>2, Zenon
        <5>3. \A j \in 1..n : Backed(added[j])
          BY <2>1, <2>4, <2>6
        <5>4. QED
          BY <1>1, <4>2, <5>2, <5>3, Zenon DEF IInv, BackedInv, QuorumBacked
      <4>3. QED
        BY <4>1, <4>2
    <3>3. VotesCast'
      <4>1. (\A q \in Replicas : \A x \in commitSet[q] :
               curPreprepare[q] # NoMsg /\ \E w \in votes[x] : w.digest = curPreprepare[q].P.hash)'
        <5>1. CASE UNCHANGED <<meta, catchupStarted>>
          BY <1>2, <5>1, Zenon DEF IInv, BackedInv, VotesCast, meta
        <5>2. CASE CatchupOverAndReset(r, next)
          <6> SUFFICES ASSUME NEW q \in Replicas, NEW x \in commitSet'[q]
                       PROVE  /\ curPreprepare'[q] # NoMsg
                              /\ \E w \in votes[x] : w.digest = curPreprepare'[q].P.hash
            BY <1>2
          <6>1. q # r /\ x \in commitSet[q] /\ curPreprepare'[q] = curPreprepare[q]
            BY <5>2 DEF IInv, TypeOK, CatchupOverAndReset
          <6>2. QED
            BY <6>1, Zenon DEF IInv, BackedInv, VotesCast
        <5>3. QED
          BY <2>4, <5>1, <5>2, Zenon
      <4>2. QED
        BY <1>2, <4>1 DEF IInv, BackedInv, VotesCast, pool
    <3>4. QED
      BY <3>1, <3>2, <3>3 DEF BackedInv
  <2>11. SyncInv'
    BY <2>3, <2>4 DEF SyncInv
  <2>12. QED
    BY <2>8, <2>9, <2>10, <2>11 DEF IInv
<1>5. QED
  BY <1>3, <1>4, Zenon DEF HandleCatchupResp

-----------------------------------------------------------------------------
\* The invariant holds in every state of a shard.
THEOREM Invariance == Spec => []IInv
<1>1. IInv /\ [Next]_vars => IInv'
  <2> SUFFICES ASSUME IInv, [Next]_vars PROVE IInv'
    OBVIOUS
  <2>1. CASE Propose
    BY <2>1, ProposeInvariant
  <2>2. CASE ReceiveReq
    BY <2>2, HandleCatchupReqInvariant DEF ReceiveReq
  <2>3. ASSUME NEW r \in Live, Receive(r) PROVE IInv'
    BY <2>3, HandlePreprepareInvariant, HandlePrepareInvariant, HandleCommitInvariant,
       HandleCatchupRespInvariant DEF Receive
  <2>4. ASSUME NEW r \in Live, Tick(r) PROVE IInv'
    BY <2>4, TickInvariant
  <2>5. ASSUME NEW r \in Live, CatchUpStart(r) PROVE IInv'
    BY <2>5, CatchUpStartInvariant
  <2>6. ASSUME NEW r \in Live, HandleStopConsensus(r) PROVE IInv'
    BY <2>6, HandleStopConsensusInvariant
  <2>7. CASE UNCHANGED vars
    BY <2>7, DropInvariant DEF vars
  <2>8. QED
    BY <2>1, <2>2, <2>3, <2>4, <2>5, <2>6, <2>7, Zenon DEF Next
<1>2. QED
  BY InitInvariant, <1>1, PTL DEF Spec

\* Every field of every node stays in its type.
THEOREM TypeCorrect == Spec => []TypeOK
  BY Invariance, PTL DEF IInv

\* No two nodes of a shard hold different blocks at a height, for any number of
\* nodes and whatever the network does, until a write to a block storage fails.
THEOREM ShardAgreement == Spec => []Agreement
<1>1. IInv => Agreement
  <2> SUFFICES ASSUME IInv, failures = 0, NEW r \in Replicas, NEW q \in Replicas,
                      NEW i \in 1..Len(chain[r]), i <= Len(chain[q])
               PROVE  chain[r][i] = chain[q][i]
    BY DEF Agreement
  <2>1. chain[r] \in Seq(Block) /\ chain[q] \in Seq(Block)
    BY DEF IInv, TypeOK
  <2>2. i \in 1..Len(chain[q])
    BY <2>1
  <2>3. QED
    BY <2>2 DEF IInv, SyncInv, ChainsLogged
<1>2. QED
  BY Invariance, <1>1, PTL

\* A block enters a chain only with the commit votes of 2f+1 nodes, by a round
\* or by a catch-up, even after writes have failed.
THEOREM CommittedByQuorum == Spec => []QuorumBacked
  BY Invariance, PTL DEF IInv, BackedInv

\* The votes to commit of a round are all for the same block, even after writes
\* have failed and rounds of followers have been set back.
THEOREM OneBlockPerRound == Spec => []VotesAgree
<1>1. IInv => VotesAgree
  BY DEF IInv, RoundInv, VotesLogged, VotesAgree
<1>2. QED
  BY Invariance, <1>1, PTL

\* As long as no write fails, no node ever asks for the blocks it has missed,
\* however far it is behind: what is ahead of it, it rejects as invalid.
THEOREM CatchUpNeverStarts == Spec => [](failures = 0 => \A r \in Replicas : ~ catchupStarted[r])
<1>1. IInv => (failures = 0 => \A r \in Replicas : ~ catchupStarted[r])
  BY DEF IInv, SyncInv, NobodyBehind
<1>2. QED
  BY Invariance, <1>1, PTL
=============================================================================
