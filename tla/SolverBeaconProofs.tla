------------------------- MODULE SolverBeaconProofs -------------------------
(***************************************************************************)
(* Proofs about the Solver-Beacon pipeline, for any set of shards, any     *)
(* number of blocks and any number of crashes.                             *)
(*                                                                         *)
(* Every batch in the system is a prefix of the Solver's chain, so a batch *)
(* is known by its length.  Done is the number of batches that have left   *)
(* `pending`; the invariant says that the pending batches are exactly the  *)
(* next ones, that no released batch is longer than Done + 1, and that the *)
(* Beacon chain has length Done or Done + 1.                               *)
(***************************************************************************)
EXTENDS SolverBeacon, SequenceTheorems, WellFoundedInduction, TLAPS

\* The first n windows of the chain c, as the batch of the n-th.
Batch(c, n) == SubSeq(c, 1, n)

DoneOf(S) == Len(S.chainTip) - Len(S.pending)

\* The headers are numbered from 1 and their cuts join up.
ChainSound(S) ==
    /\ S.window = Len(S.chainTip) + 1
    /\ \A k \in 1 .. Len(S.chainTip) :
         /\ S.chainTip[k].window = k
         /\ \A s \in Shards : S.chainTip[k].from[s] <= S.chainTip[k].to[s]
         /\ k > 1 => S.chainTip[k].from = S.chainTip[k - 1].to
    /\ S.chainTip # << >> => S.chainTip[Len(S.chainTip)].to = S.assigned

\* No shard has been cut beyond its height; nothing is sealed before the start.
ManagerSound(S) ==
    /\ \A s \in Shards : S.assigned[s] <= S.height[s]
    /\ ~ S.started => S.chainTip = << >>

\* The pending batches are the last ones of the chain.
PendingSound(S) ==
    /\ Len(S.pending) <= Len(S.chainTip)
    /\ \A k \in 1 .. Len(S.pending) : S.pending[k] = Batch(S.chainTip, DoneOf(S) + k)

\* b is one of the first max batches of the chain c.
OnChain(b, c, max) == \E n \in 0 .. Len(c) : n <= max /\ b = Batch(c, n)

AllOnChain(q, c, max) == \A k \in 1 .. Len(q) : OnChain(q[k], c, max)

\* The Beacon's side, for a Solver with chain c and d batches done.
BeaconSound(c, d) ==
    /\ AllOnChain(toBeacon, c, d + 1)
    /\ AllOnChain(queue, c, d + 1)
    /\ OnChain(tip, c, d + 1) /\ Len(tip) >= d
    /\ proposal # NoBatch => /\ OnChain(proposal, c, d + 1)
                             /\ Len(proposal) = Len(tip) + 1
    /\ \/ toSolver = << >>
       \/ toSolver = << tip >> /\ Len(tip) = d + 1

\* The packages sent: of committed batches only, and of all that are done.
PackagesSound(c, d) ==
    /\ \A p \in packages : OnChain(p[2], c, Len(tip)) /\ p[2] # << >>
    /\ \A n \in 1 .. d : PackagesOf(Shards, Batch(c, n)) \subseteq packages

\* The inductive invariant.
IInv ==
    /\ TypeOK
    /\ stored = solver
    /\ ChainSound(solver) /\ ManagerSound(solver) /\ PendingSound(solver)
    /\ BeaconSound(solver.chainTip, DoneOf(solver))
    /\ PackagesSound(solver.chainTip, DoneOf(solver))

-----------------------------------------------------------------------------
(* Numbers and sequences *)

\* A set of naturals that is not empty has a least member.
LEMMA LeastNat ==
    ASSUME NEW T, T \subseteq Nat, T # {}
    PROVE  \E x \in T : \A y \in T : x <= y
<1>1. \E x \in T : \A y \in T : ~ (<<y, x>> \in OpToRel(<, Nat))
  BY NatLessThanWellFounded, WFMin, Zenon
<1>2. \A x, y \in Nat : <<y, x>> \in OpToRel(<, Nat) <=> y < x
  BY DEF OpToRel
<1>3. PICK R : /\ \E x \in T : \A y \in T : ~ (<<y, x>> \in R)
               /\ \A x, y \in Nat : <<y, x>> \in R <=> y < x
  BY <1>1, <1>2, Zenon
<1>4. PICK x \in T : \A y \in T : ~ (<<y, x>> \in R)
  BY <1>3, Zenon
<1>5. \A y \in T : ~ (y < x)
  <2> TAKE y \in T
  <2>1. x \in Nat /\ y \in Nat
    OBVIOUS
  <2> QED BY <1>3, <1>4, <2>1, Zenon
<1>6. \A y \in T : x <= y
  BY <1>5
<1> QED BY <1>6

\* The first receipt of a shard exists (initializeManager).
LEMMA MinReceipt ==
    ASSUME NEW H, H \subseteq Heights, H # {}
    PROVE  Min(H) \in Heights
<1>1. H \subseteq Nat
  BY BoundsAssumption DEF Heights
<1>2. \E x \in H : \A y \in H : x <= y
  BY <1>1, LeastNat, Zenon
<1>3. Min(H) \in H
  BY <1>2 DEF Min
<1> QED BY <1>3

\* The height without a gap is well defined and not below its start.
LEMMA ContinuousType ==
    ASSUME NEW H, H \subseteq Heights, NEW h \in 0 .. MaxHeight
    PROVE  Continuous(H, h) \in 0 .. MaxHeight /\ h <= Continuous(H, h)
<1> DEFINE T == {k \in h .. MaxHeight : k + 1 \notin H}
<1>1. MaxHeight \in Nat
  BY BoundsAssumption
<1>2. MaxHeight \in T
  BY <1>1 DEF Heights
<1>3. T \subseteq Nat /\ T # {}
  BY <1>1, <1>2
<1>4. PICK k \in T : \A y \in T : k <= y
  <2> HIDE DEF T
  <2> QED BY <1>3, LeastNat, Zenon
<1>5. k \in h .. MaxHeight /\ k + 1 \notin H
  BY <1>4
<1>6. (h + 1) .. k \subseteq H
  <2> SUFFICES ASSUME NEW j \in (h + 1) .. k, j \notin H
               PROVE  FALSE
    OBVIOUS
  <2>1. j - 1 \in T
    BY <1>1, <1>5
  <2>2. k <= j - 1
    BY <1>4, <2>1
  <2> QED BY <2>2, <1>1, <1>5
<1>7. Continuous(H, h) \in h .. MaxHeight
  BY <1>5, <1>6 DEF Continuous
<1> QED BY <1>1, <1>7

\* What a batch of the chain is made of.
LEMMA BatchProperties ==
    ASSUME NEW X, NEW c \in Seq(X), NEW n \in 0 .. Len(c)
    PROVE  /\ Batch(c, n) \in Seq(X)
           /\ Len(Batch(c, n)) = n
           /\ \A k \in 1 .. n : Batch(c, n)[k] = c[k]
           /\ Batch(c, n) = << >> <=> n = 0
<1>1. Len(c) \in Nat
  BY LenProperties
<1> QED BY <1>1, SubSeqProperties, EmptySeq DEF Batch

\* A batch of a batch is the batch of the chain.
LEMMA BatchOfBatch ==
    ASSUME NEW X, NEW c \in Seq(X), NEW n \in 0 .. Len(c), NEW m \in 0 .. n
    PROVE  Batch(Batch(c, n), m) = Batch(c, m)
<1>1. Len(c) \in Nat /\ m \in 0 .. Len(c)
  BY LenProperties
<1>2. /\ Batch(c, n) \in Seq(X) /\ Len(Batch(c, n)) = n
      /\ \A k \in 1 .. n : Batch(c, n)[k] = c[k]
  BY BatchProperties
<1>3. /\ Batch(c, m) \in Seq(X) /\ Len(Batch(c, m)) = m
      /\ \A k \in 1 .. m : Batch(c, m)[k] = c[k]
  BY <1>1, BatchProperties
<1>4. /\ Batch(Batch(c, n), m) \in Seq(X) /\ Len(Batch(Batch(c, n), m)) = m
      /\ \A k \in 1 .. m : Batch(Batch(c, n), m)[k] = Batch(c, n)[k]
  BY <1>2, BatchProperties
<1> QED BY <1>2, <1>3, <1>4, SeqEqual

\* A new window leaves the older batches alone.
LEMMA BatchOfAppend ==
    ASSUME NEW X, NEW c \in Seq(X), NEW e \in X
    PROVE  /\ Append(c, e) \in Seq(X)
           /\ Len(Append(c, e)) = Len(c) + 1
           /\ \A n \in 0 .. Len(c) : Batch(Append(c, e), n) = Batch(c, n)
           /\ Batch(Append(c, e), Len(c) + 1) = Append(c, e)
<1> DEFINE d == Append(c, e)
<1>1. /\ d \in Seq(X) /\ Len(d) = Len(c) + 1 /\ Len(c) \in Nat
      /\ \A k \in 1 .. Len(c) : d[k] = c[k]
  BY AppendProperties, LenProperties
<1> HIDE DEF d
<1>2. ASSUME NEW n \in 0 .. Len(c)
      PROVE  Batch(d, n) = Batch(c, n)
  <2>1. /\ Batch(c, n) \in Seq(X) /\ Len(Batch(c, n)) = n
        /\ \A k \in 1 .. n : Batch(c, n)[k] = c[k]
    BY BatchProperties
  <2>2. n \in 0 .. Len(d)
    BY <1>1
  <2>3. /\ Batch(d, n) \in Seq(X) /\ Len(Batch(d, n)) = n
        /\ \A k \in 1 .. n : Batch(d, n)[k] = d[k]
    BY <1>1, <2>2, BatchProperties
  <2> QED BY <1>1, <2>1, <2>3, SeqEqual
<1>3. Batch(d, Len(c) + 1) = d
  <2>1. Len(c) + 1 \in 0 .. Len(d)
    BY <1>1
  <2>2. /\ Batch(d, Len(c) + 1) \in Seq(X) /\ Len(Batch(d, Len(c) + 1)) = Len(c) + 1
        /\ \A k \in 1 .. Len(c) + 1 : Batch(d, Len(c) + 1)[k] = d[k]
    BY <1>1, <2>1, BatchProperties, Zenon
  <2> QED BY <1>1, <2>2, SeqEqual
<1> QED BY <1>1, <1>2, <1>3 DEF d

\* Batches stay on the chain when the bound grows.
LEMMA OnChainMono ==
    ASSUME NEW X, NEW c \in Seq(X), NEW b, NEW m \in Int, NEW n \in Int, m <= n,
           OnChain(b, c, m)
    PROVE  OnChain(b, c, n)
BY LenProperties DEF OnChain

\* Batches stay on the chain when a window is sealed.
LEMMA OnChainAppend ==
    ASSUME NEW X, NEW c \in Seq(X), NEW e \in X, NEW b, NEW m, OnChain(b, c, m)
    PROVE  OnChain(b, Append(c, e), m)
<1>1. PICK n \in 0 .. Len(c) : n <= m /\ b = Batch(c, n)
  BY DEF OnChain
<1>2. Len(c) \in Nat
  BY LenProperties
<1>3. n \in 0 .. Len(Append(c, e)) /\ b = Batch(Append(c, e), n)
  BY <1>1, <1>2, BatchOfAppend
<1> QED BY <1>1, <1>3 DEF OnChain

\* What is on the chain is known by its length.
LEMMA OnChainLen ==
    ASSUME NEW X, NEW c \in Seq(X), NEW b, NEW m \in Int, OnChain(b, c, m)
    PROVE  /\ b \in Seq(X) /\ Len(b) \in 0 .. Len(c) /\ Len(b) <= m
           /\ b = Batch(c, Len(b))
           /\ \A k \in 1 .. Len(b) : b[k] = c[k]
           /\ b = << >> <=> Len(b) = 0
<1>1. PICK n \in 0 .. Len(c) : n <= m /\ b = Batch(c, n)
  BY DEF OnChain
<1>2. b \in Seq(X) /\ Len(b) = n /\ (\A k \in 1 .. n : b[k] = c[k]) /\ (b = << >> <=> n = 0)
  BY <1>1, BatchProperties
<1> QED BY <1>1, <1>2

\* Messages and queue entries stay on the chain when one is appended or removed.
LEMMA QueueAppend ==
    ASSUME NEW X, NEW q \in Seq(X), NEW b \in X, NEW c, NEW m,
           AllOnChain(q, c, m), OnChain(b, c, m)
    PROVE  AllOnChain(Append(q, b), c, m)
BY AppendProperties DEF AllOnChain

\* Taking the head of a queue: it and the rest are on the chain.
LEMMA QueueTail ==
    ASSUME NEW X, NEW q \in Seq(X), q # << >>, NEW c, NEW m, AllOnChain(q, c, m)
    PROVE  AllOnChain(Tail(q), c, m) /\ OnChain(Head(q), c, m)
<1>1. Len(q) \in Nat \ {0} /\ Head(q) = q[1]
  BY EmptySeq
<1>2. /\ Len(Tail(q)) = Len(q) - 1
      /\ \A i \in 1 .. Len(Tail(q)) : Tail(q)[i] = q[i + 1]
  BY HeadTailProperties
<1> HIDE DEF OnChain
<1> QED BY <1>1, <1>2 DEF AllOnChain

\* removeQueued only removes.
LEMMA QueueRemove ==
    ASSUME NEW X, NEW q \in Seq(X), NEW b, NEW c, NEW m, AllOnChain(q, c, m)
    PROVE  RemoveQueued(q, b) \in Seq(X) /\ AllOnChain(RemoveQueued(q, b), c, m)
<1>1. CASE ~ \E k \in 1 .. Len(q) : q[k] = b
  BY <1>1 DEF RemoveQueued
<1>2. CASE \E k \in 1 .. Len(q) : q[k] = b
  <2>1. PICK k : k \in 1 .. Len(q) /\ RemoveQueued(q, b) = SubSeq(q, 1, k - 1) \o SubSeq(q, k + 1, Len(q))
    BY <1>2, Zenon DEF RemoveQueued
  <2> DEFINE u == SubSeq(q, 1, k - 1)
             v == SubSeq(q, k + 1, Len(q))
  <2>2. Len(q) \in Nat /\ \A i \in 1 .. Len(q) : q[i] \in X
    BY LenProperties, ElementOfSeq
  <2>3. /\ u \in Seq(X) /\ Len(u) = k - 1
        /\ \A i \in 1 .. k - 1 : u[i] = q[i]
    BY <2>1, <2>2, SubSeqProperties
  <2>4. /\ v \in Seq(X) /\ Len(v) = Len(q) - k
        /\ \A i \in 1 .. Len(q) - k : v[i] = q[k + i]
    BY <2>1, <2>2, SubSeqProperties
  <2> HIDE DEF u, v
  <2>5. /\ u \o v \in Seq(X) /\ Len(u \o v) = Len(u) + Len(v)
        /\ \A i \in 1 .. Len(u) + Len(v) : (u \o v)[i] = IF i <= Len(u) THEN u[i] ELSE v[i - Len(u)]
    BY <2>3, <2>4, ConcatProperties, Zenon
  <2>6. ASSUME NEW i \in 1 .. Len(u \o v)
        PROVE  \E j \in 1 .. Len(q) : (u \o v)[i] = q[j]
    <3>1. CASE i <= k - 1
      BY <2>1, <2>2, <2>3, <2>4, <2>5, <3>1
    <3>2. CASE i > k - 1
      <4>1. i - Len(u) \in 1 .. Len(q) - k /\ (u \o v)[i] = v[i - Len(u)]
        BY <2>1, <2>2, <2>3, <2>4, <2>5, <3>2, SMTT(30)
      <4>2. PICK j \in 1 .. Len(q) - k : (u \o v)[i] = v[j]
        BY <4>1
      <4>3. (u \o v)[i] = q[k + j] /\ k + j \in 1 .. Len(q)
        BY <2>1, <2>2, <4>2, <2>4
      <4> QED BY <4>3
    <3> QED BY <2>1, <2>2, <2>3, <2>4, <2>5, <3>1, <3>2
  <2>7. RemoveQueued(q, b) = u \o v
    BY <2>1 DEF u, v
  <2> QED BY <2>5, <2>6, <2>7 DEF AllOnChain
<1> QED BY <1>1, <1>2

-----------------------------------------------------------------------------
(* The Solver's record *)

\* The types of the Solver's fields.
LEMMA SolverFields ==
    ASSUME NEW S \in SolverType
    PROVE  /\ S.bootstrap \in [Shards -> SUBSET Heights] /\ S.started \in BOOLEAN
           /\ S.height \in HeightMap /\ S.assigned \in HeightMap /\ S.window \in Nat
           /\ S.chainTip \in BatchType /\ S.pending \in Seq(BatchType)
           /\ Len(S.chainTip) \in Nat /\ Len(S.pending) \in Nat /\ DoneOf(S) \in Int
<1>1. /\ S.bootstrap \in [Shards -> SUBSET Heights] /\ S.started \in BOOLEAN
      /\ S.height \in HeightMap /\ S.assigned \in HeightMap /\ S.window \in Nat
      /\ S.chainTip \in BatchType /\ S.pending \in Seq(BatchType)
  BY DEF SolverType
<1>2. Len(S.chainTip) \in Nat /\ Len(S.pending) \in Nat
  BY <1>1, LenProperties DEF BatchType
<1> QED BY <1>1, <1>2 DEF DoneOf

\* A Solver without a stored state.
LEMMA FreshSound ==
    /\ Fresh \in SolverType
    /\ ChainSound(Fresh) /\ ManagerSound(Fresh) /\ PendingSound(Fresh)
    /\ DoneOf(Fresh) = 0
<1>1. << >> \in BatchType /\ << >> \in Seq(BatchType) /\ Len(<< >>) = 0
  BY EmptySeq DEF BatchType
<1>2. [s \in Shards |-> 0] \in HeightMap
  BY BoundsAssumption DEF HeightMap
<1>3. Fresh \in SolverType
  BY <1>1, <1>2 DEF Fresh, SolverType
<1> QED BY <1>1, <1>2, <1>3 DEF Fresh, ChainSound, ManagerSound, PendingSound, DoneOf

\* HandleReceipt: the chain and the pending batches stay, no cut passes the height.
LEMMA AddReceiptSound ==
    ASSUME NEW S \in SolverType, NEW s \in Shards, NEW h \in Heights,
           ChainSound(S), ManagerSound(S)
    PROVE  /\ AddReceipt(S, s, h) \in SolverType
           /\ AddReceipt(S, s, h).chainTip = S.chainTip
           /\ AddReceipt(S, s, h).pending = S.pending
           /\ ChainSound(AddReceipt(S, s, h))
           /\ ManagerSound(AddReceipt(S, s, h))
<1> DEFINE A == AddReceipt(S, s, h)
<1>0. /\ S.bootstrap \in [Shards -> SUBSET Heights] /\ S.started \in BOOLEAN
      /\ S.height \in HeightMap /\ S.assigned \in HeightMap /\ S.window \in Nat
      /\ S.chainTip \in BatchType /\ S.pending \in Seq(BatchType)
  BY SolverFields
<1>1. MaxHeight \in Nat /\ Heights \subseteq 0 .. MaxHeight
  BY BoundsAssumption DEF Heights
<1>2. CASE S.started
  <2>1. PICK g : g = [S.height EXCEPT ![s] = IF h = @ + 1 THEN h ELSE @]
    BY Zenon
  <2>2. g \in HeightMap /\ \A r \in Shards : S.height[r] <= g[r]
    BY <1>0, <1>1, <2>1 DEF HeightMap
  <2>3. A = [S EXCEPT !.height = g]
    BY <1>2, <2>1 DEF AddReceipt
  <2>4. /\ A \in SolverType /\ A.height = g /\ A.assigned = S.assigned
        /\ A.chainTip = S.chainTip /\ A.pending = S.pending
        /\ A.window = S.window /\ A.started = S.started
    BY <2>2, <2>3 DEF SolverType
  <2> HIDE DEF A
  <2>5. ManagerSound(A)
    <3> SUFFICES ASSUME NEW r \in Shards
                 PROVE  S.assigned[r] <= g[r]
      BY <1>2, <2>4 DEF ManagerSound
    <3>1. S.assigned[r] \in Int /\ S.height[r] \in Int /\ g[r] \in Int
      BY <1>0, <2>2 DEF HeightMap
    <3> QED BY <2>2, <3>1 DEF ManagerSound
  <2>6. ChainSound(A)
    BY <2>4 DEF ChainSound
  <2> QED BY <2>4, <2>5, <2>6 DEF A
<1>3. CASE ~ S.started
  <2>1. PICK B : B = [S.bootstrap EXCEPT ![s] = @ \cup {h}]
    BY Zenon
  <2>2. B \in [Shards -> SUBSET Heights]
    BY <1>0, <2>1
  <2>3. PICK T : T = [S EXCEPT !.bootstrap = B]
    BY Zenon
  <2>4. /\ T \in SolverType /\ T.bootstrap = B /\ T.height = S.height
        /\ T.assigned = S.assigned /\ T.started = S.started
        /\ T.chainTip = S.chainTip /\ T.pending = S.pending /\ T.window = S.window
    BY <2>2, <2>3 DEF SolverType
  <2>5. A = IF \A r \in Shards : B[r] # {} THEN InitializeManager(T) ELSE T
    BY <1>3, <2>1, <2>3, <2>4 DEF AddReceipt
  <2>6. S.chainTip = << >>
    BY <1>3 DEF ManagerSound
  <2>7. CASE ~ \A r \in Shards : B[r] # {}
    <3>1. A = T
      BY <2>5, <2>7
    <3> HIDE DEF A
    <3> QED BY <2>4, <2>6, <3>1 DEF ChainSound, ManagerSound, A
  <2>8. CASE \A r \in Shards : B[r] # {}
    <3> DEFINE p == [r \in Shards |-> Min(B[r]) - 1]
               g == [r \in Shards |-> Continuous(B[r], p[r])]
    <3>1. ASSUME NEW r \in Shards
          PROVE  p[r] \in 0 .. MaxHeight
      <4>1. Min(B[r]) \in Heights
        BY <2>2, <2>8, MinReceipt
      <4> QED BY <1>1, <4>1 DEF Heights
    <3>2. ASSUME NEW r \in Shards
          PROVE  g[r] \in 0 .. MaxHeight /\ p[r] <= g[r]
      BY <2>2, <3>1, ContinuousType
    <3>3. p \in HeightMap /\ g \in HeightMap
      BY <3>1, <3>2 DEF HeightMap
    <3>4. A = [T EXCEPT !.started = TRUE, !.bootstrap = [r \in Shards |-> {}],
                        !.assigned = p, !.height = g]
      BY <2>5, <2>8, <2>4 DEF InitializeManager
    <3> HIDE DEF p, g
    <3>5. /\ A \in SolverType /\ A.height = g /\ A.assigned = p /\ A.started
          /\ A.chainTip = S.chainTip /\ A.pending = S.pending /\ A.window = S.window
      BY <2>4, <3>3, <3>4, Zenon DEF SolverType
    <3> HIDE DEF A
    <3>6. ManagerSound(A)
      BY <3>2, <3>5 DEF ManagerSound
    <3>7. ChainSound(A)
      BY <2>6, <3>5 DEF ChainSound
    <3> QED BY <3>5, <3>6, <3>7 DEF A
  <2> QED BY <2>7, <2>8
<1> QED BY <1>2, <1>3

\* drainFrozen: the chain grows by one batch, which joins the pending ones.
LEMMA SealedSound ==
    ASSUME NEW S \in SolverType, ChainSound(S), ManagerSound(S), PendingSound(S), S.started
    PROVE  /\ Sealed(S) \in SolverType
           /\ BuildHeader(S) \in HeaderType
           /\ Sealed(S).chainTip = Append(S.chainTip, BuildHeader(S))
           /\ DoneOf(Sealed(S)) = DoneOf(S)
           /\ ChainSound(Sealed(S)) /\ ManagerSound(Sealed(S)) /\ PendingSound(Sealed(S))
<1>0. /\ S.height \in HeightMap /\ S.assigned \in HeightMap /\ S.window \in Nat
      /\ S.chainTip \in Seq(HeaderType) /\ S.pending \in Seq(BatchType)
      /\ Len(S.chainTip) \in Nat /\ Len(S.pending) \in Nat
  BY SolverFields DEF BatchType
<1> DEFINE e == BuildHeader(S)
           c == S.chainTip
           b == Append(c, e)
           q == Append(S.pending, b)
           A == Sealed(S)
<1>1. e \in HeaderType /\ e.window = S.window /\ e.from = S.assigned /\ e.to = S.height
  BY <1>0 DEF BuildHeader, HeaderType
<1> HIDE DEF e
<1>2. /\ b \in Seq(HeaderType) /\ Len(b) = Len(c) + 1
      /\ \A k \in 1 .. Len(c) : b[k] = c[k]
      /\ b[Len(c) + 1] = e
  BY <1>0, <1>1, AppendProperties
<1>3. /\ \A n \in 0 .. Len(c) : Batch(b, n) = Batch(c, n)
      /\ Batch(b, Len(c) + 1) = b
  BY <1>0, <1>1, BatchOfAppend
<1> HIDE DEF b
<1>4. /\ q \in Seq(BatchType) /\ Len(q) = Len(S.pending) + 1
      /\ \A k \in 1 .. Len(S.pending) : q[k] = S.pending[k]
      /\ q[Len(S.pending) + 1] = b
  BY <1>0, <1>2, AppendProperties DEF BatchType
<1>5. PICK w \in Nat : w = S.window + 1
  BY <1>0
<1>6. A = [S EXCEPT !.assigned = S.height, !.window = w, !.chainTip = b, !.pending = q]
  BY <1>5 DEF Sealed, SolverType, b, e
<1>7. b \in BatchType /\ S.height \in HeightMap /\ q \in Seq(BatchType)
  BY <1>0, <1>2, <1>4 DEF BatchType
<1> HIDE DEF q
<1>8. /\ A \in SolverType /\ A.assigned = S.height /\ A.window = w
      /\ A.chainTip = b /\ A.pending = q /\ A.height = S.height /\ A.started = S.started
  BY <1>6, <1>7, Zenon DEF SolverType
<1> HIDE DEF A
<1>9. PICK n \in Nat, m \in Nat : n = Len(c) /\ m = Len(S.pending)
  BY <1>0
<1>10. /\ Len(b) = n + 1 /\ Len(q) = m + 1 /\ m <= n
       /\ DoneOf(S) = n - m /\ DoneOf(A) = n - m
  <2>1. Len(b) = n + 1 /\ Len(q) = m + 1
    BY <1>2, <1>4, <1>9
  <2>2. m <= n
    BY <1>9 DEF PendingSound
  <2>3. DoneOf(S) = n - m /\ DoneOf(A) = (n + 1) - (m + 1)
    BY <2>1, <1>8, <1>9, Zenon DEF DoneOf
  <2> QED BY <2>1, <2>2, <2>3
<1>11. ManagerSound(A)
  <2>1. \A r \in Shards : S.height[r] <= S.height[r]
    BY <1>0 DEF HeightMap
  <2> QED BY <1>8, <2>1 DEF ManagerSound
<1>12. ChainSound(A)
  <2>1. A.window = Len(b) + 1
    BY <1>5, <1>8, <1>9, <1>10 DEF ChainSound
  <2>2. ASSUME NEW k \in 1 .. Len(b)
        PROVE  /\ b[k].window = k
               /\ \A s \in Shards : b[k].from[s] <= b[k].to[s]
               /\ k > 1 => b[k].from = b[k - 1].to
    <3>1. CASE k \in 1 .. Len(c)
      <4>1. b[k] = c[k] /\ (k > 1 => k - 1 \in 1 .. Len(c) /\ b[k - 1] = c[k - 1])
        BY <1>0, <1>2, <3>1, SMTT(30)
      <4>2. /\ c[k].window = k
            /\ \A s \in Shards : c[k].from[s] <= c[k].to[s]
            /\ k > 1 => c[k].from = c[k - 1].to
        BY <3>1 DEF ChainSound
      <4> QED BY <4>1, <4>2
    <3>2. CASE k = Len(c) + 1
      <4>1. b[k] = e /\ b[k].window = k
        BY <1>0, <1>1, <1>2, <3>2 DEF ChainSound
      <4>2. \A s \in Shards : b[k].from[s] <= b[k].to[s]
        BY <1>1, <4>1 DEF ManagerSound
      <4>3. ASSUME k > 1
            PROVE  b[k].from = b[k - 1].to
        <5>1. k - 1 = Len(c) /\ Len(c) \in 1 .. Len(c) /\ c # << >>
          BY <1>0, <3>2, <4>3, EmptySeq
        <5>2. b[k - 1] = c[Len(c)]
          BY <1>2, <5>1
        <5> QED BY <1>1, <4>1, <5>1, <5>2 DEF ChainSound
      <4> QED BY <4>1, <4>2, <4>3
    <3> QED BY <1>0, <1>2, <3>1, <3>2
  <2>3. b[Len(b)].to = A.assigned
    BY <1>1, <1>2, <1>8
  <2> QED BY <1>8, <2>1, <2>2, <2>3 DEF ChainSound
<1>13. PendingSound(A)
  <2>1. Len(q) <= Len(b)
    BY <1>10
  <2>2. ASSUME NEW k \in 1 .. Len(q)
        PROVE  q[k] = Batch(b, DoneOf(S) + k)
    <3>1. CASE k \in 1 .. m
      <4>1. q[k] = Batch(c, DoneOf(S) + k)
        BY <1>4, <1>9, <3>1 DEF PendingSound
      <4>2. DoneOf(S) + k \in 0 .. n
        BY <1>10, <3>1
      <4> QED BY <1>3, <1>9, <4>1, <4>2
    <3>2. CASE k = m + 1
      <4>1. DoneOf(S) + k = n + 1
        BY <1>10, <3>2
      <4> QED BY <1>3, <1>4, <1>9, <3>2, <4>1
    <3> QED BY <1>10, <3>1, <3>2
  <2>3. DoneOf(A) = DoneOf(S)
    BY <1>10
  <2> QED BY <1>8, <2>1, <2>2, <2>3 DEF PendingSound
<1> QED BY <1>1, <1>8, <1>10, <1>11, <1>12, <1>13 DEF A, b, e

\* HandleFinalized: the oldest pending batch is done.
LEMMA FinishedSound ==
    ASSUME NEW S \in SolverType, ChainSound(S), ManagerSound(S), PendingSound(S),
           S.pending # << >>
    PROVE  /\ Finished(S) \in SolverType
           /\ Finished(S).chainTip = S.chainTip
           /\ DoneOf(Finished(S)) = DoneOf(S) + 1
           /\ ChainSound(Finished(S)) /\ ManagerSound(Finished(S)) /\ PendingSound(Finished(S))
<1> DEFINE A == Finished(S)
           q == Tail(S.pending)
<1>0. S.pending \in Seq(BatchType) /\ Len(S.chainTip) \in Nat /\ Len(S.pending) \in Nat \ {0}
  BY SolverFields, EmptySeq
<1>1. /\ q \in Seq(BatchType) /\ Len(q) = Len(S.pending) - 1
      /\ \A k \in 1 .. Len(q) : q[k] = S.pending[k + 1]
  BY <1>0, HeadTailProperties
<1> HIDE DEF q
<1>2. A = [S EXCEPT !.pending = q]
  BY DEF Finished, q
<1>3. /\ A \in SolverType /\ A.assigned = S.assigned /\ A.window = S.window
      /\ A.chainTip = S.chainTip /\ A.pending = q /\ A.height = S.height /\ A.started = S.started
  BY <1>1, <1>2, Zenon DEF SolverType
<1> HIDE DEF A
<1>4. PICK n \in Nat, m \in Nat : n = Len(S.chainTip) /\ m = Len(S.pending)
  BY <1>0
<1>5. /\ Len(q) = m - 1 /\ m <= n /\ DoneOf(S) = n - m
      /\ DoneOf(A) = n - (m - 1) /\ DoneOf(A) = DoneOf(S) + 1
  <2>1. Len(q) = m - 1
    BY <1>1, <1>4
  <2>2. m <= n
    BY <1>4 DEF PendingSound
  <2>3. DoneOf(S) = n - m /\ DoneOf(A) = n - (m - 1)
    BY <2>1, <1>3, <1>4, Zenon DEF DoneOf
  <2> QED BY <2>1, <2>2, <2>3
<1>6. ChainSound(A) /\ ManagerSound(A)
  BY <1>3 DEF ChainSound, ManagerSound
<1>7. PendingSound(A)
  <2>1. Len(q) <= Len(S.chainTip)
    BY <1>4, <1>5
  <2>2. ASSUME NEW k \in 1 .. Len(q)
        PROVE  q[k] = Batch(S.chainTip, DoneOf(A) + k)
    <3>1. k + 1 \in 1 .. Len(S.pending) /\ q[k] = S.pending[k + 1]
      BY <1>1, <1>4, <1>5
    <3>2. q[k] = Batch(S.chainTip, DoneOf(S) + (k + 1))
      BY <3>1 DEF PendingSound
    <3>3. DoneOf(S) + (k + 1) = DoneOf(A) + k
      BY <1>5
    <3> QED BY <3>2, <3>3
  <2> QED BY <1>3, <2>1, <2>2 DEF PendingSound
<1> QED BY <1>3, <1>5, <1>6, <1>7 DEF A

-----------------------------------------------------------------------------
(* The invariant *)

\* What the invariant says of the lengths.
LEMMA Lengths ==
    ASSUME IInv
    PROVE  /\ solver.chainTip \in Seq(HeaderType)
           /\ Len(solver.chainTip) \in Nat /\ DoneOf(solver) \in Nat
           /\ Len(tip) \in {DoneOf(solver), DoneOf(solver) + 1}
           /\ Len(tip) \in 0 .. Len(solver.chainTip)
           /\ tip = Batch(solver.chainTip, Len(tip))
           /\ solver.pending # << >> =>
                /\ DoneOf(solver) + 1 \in 1 .. Len(solver.chainTip)
                /\ Head(solver.pending) = Batch(solver.chainTip, DoneOf(solver) + 1)
           /\ DoneOf(solver) < Len(solver.chainTip) => solver.pending # << >>
<1>0. /\ solver \in SolverType /\ PendingSound(solver)
      /\ BeaconSound(solver.chainTip, DoneOf(solver))
  BY DEF IInv, TypeOK
<1>1. solver.chainTip \in Seq(HeaderType) /\ solver.pending \in Seq(BatchType)
  BY <1>0, SolverFields DEF BatchType
<1>2. PICK n \in Nat, m \in Nat : n = Len(solver.chainTip) /\ m = Len(solver.pending)
  BY <1>0, SolverFields
<1>3. m <= n
  BY <1>0, <1>2 DEF PendingSound
<1>4. DoneOf(solver) = n - m
  BY <1>2 DEF DoneOf
<1>5. PICK d \in Nat : d = DoneOf(solver) /\ d = n - m
  BY <1>3, <1>4
<1>6. OnChain(tip, solver.chainTip, d + 1) /\ Len(tip) >= d
  BY <1>0, <1>5 DEF BeaconSound
<1>7. Len(tip) \in 0 .. n /\ Len(tip) <= d + 1 /\ tip = Batch(solver.chainTip, Len(tip))
  <2>1. PICK m1 \in Int : m1 = d + 1
    BY <1>5
  <2>2. OnChain(tip, solver.chainTip, m1)
    BY <1>6, <2>1
  <2>3. /\ Len(tip) \in 0 .. Len(solver.chainTip) /\ Len(tip) <= m1
        /\ tip = Batch(solver.chainTip, Len(tip))
    BY <1>1, <2>2, OnChainLen
  <2> QED BY <1>2, <2>1, <2>3
<1>8. Len(tip) \in {d, d + 1}
  BY <1>6, <1>7
<1>9. ASSUME solver.pending # << >>
      PROVE  d + 1 \in 1 .. n /\ Head(solver.pending) = Batch(solver.chainTip, d + 1)
  <2>1. m \in Nat \ {0} /\ 1 \in 1 .. m
    BY <1>1, <1>2, <1>9, EmptySeq
  <2>2. Head(solver.pending) = solver.pending[1]
    BY <1>1, <1>9
  <2>3. solver.pending[1] = Batch(solver.chainTip, d + 1)
    BY <1>0, <1>2, <1>5, <2>1, Zenon DEF PendingSound
  <2> QED BY <1>5, <2>1, <2>2, <2>3
<1>10. d < n => solver.pending # << >>
  <2> SUFFICES ASSUME d < n, solver.pending = << >>
               PROVE  FALSE
    OBVIOUS
  <2>1. m = 0
    BY <1>2, EmptySeq
  <2> QED BY <1>5, <2>1
<1> QED BY <1>1, <1>2, <1>5, <1>7, <1>8, <1>9, <1>10, Zenon

\* The invariant holds initially.
LEMMA InitSound == Init => IInv
<1> SUFFICES ASSUME Init PROVE IInv
  OBVIOUS
<1> USE DEF Init
<1>1. << >> \in BatchType /\ << >> \in Seq(BatchType) /\ Len(<< >>) = 0
  BY EmptySeq DEF BatchType
<1>2. TypeOK
  <2>1. blocks \in HeightMap /\ crashes \in 0 .. MaxCrashes
    BY BoundsAssumption DEF HeightMap
  <2>2. receipts \in [Shards -> SUBSET Heights]
    OBVIOUS
  <2> QED BY <1>1, <2>1, <2>2, FreshSound DEF TypeOK
<1>3. solver.chainTip = << >> /\ DoneOf(solver) = 0
  BY FreshSound DEF Fresh
<1>4. \A b : b = << >> => OnChain(b, << >>, 0) /\ OnChain(b, << >>, 1)
  <2>1. Batch(<< >>, 0) = << >>
    BY SubSeqEmpty DEF Batch
  <2> QED BY <1>1, <2>1 DEF OnChain
<1>5. BeaconSound(<< >>, 0)
  BY <1>1, <1>4 DEF BeaconSound, AllOnChain
<1>6. PackagesSound(<< >>, 0)
  BY DEF PackagesSound
<1> QED BY <1>2, <1>3, <1>5, <1>6, FreshSound DEF IInv

\* A shard's new block preserves the invariant.
LEMMA PublishSound ==
    ASSUME IInv, NEW s \in Shards, Publish(s)
    PROVE  IInv'
<1> USE DEF Publish, beacon
<1>1. blocks' \in HeightMap /\ blocks[s] + 1 \in Heights
  BY BoundsAssumption DEF IInv, TypeOK, HeightMap, Heights
<1>2. receipts' \in [Shards -> SUBSET Heights]
  BY <1>1 DEF IInv, TypeOK
<1>3. TypeOK'
  BY <1>1, <1>2, Zenon DEF IInv, TypeOK
<1>4. BeaconSound(solver.chainTip, DoneOf(solver))' /\ PackagesSound(solver.chainTip, DoneOf(solver))'
  BY DEF IInv, BeaconSound, PackagesSound
<1> QED BY <1>3, <1>4 DEF IInv

\* HandleReceipt preserves the invariant.
LEMMA HandleReceiptSound ==
    ASSUME IInv, NEW s \in Shards, HandleReceipt(s)
    PROVE  IInv'
<1> USE DEF HandleReceipt, beacon
<1>1. solver \in SolverType /\ receipts \in [Shards -> SUBSET Heights]
  BY DEF IInv, TypeOK
<1>2. PICK h : h = Min(receipts[s])
  OBVIOUS
<1>3. h \in Heights
  BY <1>1, <1>2, MinReceipt
<1>4. solver' = AddReceipt(solver, s, h) /\ receipts' = [receipts EXCEPT ![s] = @ \ {h}]
  BY <1>2
<1>5. /\ solver' \in SolverType /\ solver'.chainTip = solver.chainTip
      /\ solver'.pending = solver.pending
      /\ ChainSound(solver') /\ ManagerSound(solver')
  BY <1>1, <1>3, <1>4, AddReceiptSound DEF IInv
<1>6. receipts' \in [Shards -> SUBSET Heights]
  BY <1>1, <1>4
<1>7. TypeOK'
  BY <1>5, <1>6, SMTT(30) DEF IInv, TypeOK
<1>8. DoneOf(solver') = DoneOf(solver) /\ PendingSound(solver')
  BY <1>5, Zenon DEF IInv, DoneOf, PendingSound
<1>9. BeaconSound(solver.chainTip, DoneOf(solver))' /\ PackagesSound(solver.chainTip, DoneOf(solver))'
  BY <1>5, <1>8, Zenon DEF IInv, BeaconSound, PackagesSound
<1> QED BY <1>5, <1>7, <1>8, <1>9 DEF IInv

\* TryClose with drainFrozen preserves the invariant: all batches stay on the longer chain.
LEMMA SealSound ==
    ASSUME IInv, Seal
    PROVE  IInv'
<1> USE DEF Seal, beacon
<1> DEFINE c == solver.chainTip
           e == BuildHeader(solver)
           d == DoneOf(solver)
<1>1. /\ solver' \in SolverType /\ e \in HeaderType /\ solver'.chainTip = Append(c, e)
      /\ DoneOf(solver') = d
      /\ ChainSound(solver') /\ ManagerSound(solver') /\ PendingSound(solver')
  BY SealedSound DEF IInv, TypeOK
<1>2. c \in Seq(HeaderType) /\ Len(c) \in Nat /\ d \in Nat
  BY Lengths
<1>3. PICK f : f = Append(c, e)
  BY Zenon
<1>4. TypeOK'
  BY <1>1 DEF IInv, TypeOK
<1> HIDE DEF c, e, d
<1>5. \A b, m : OnChain(b, c, m) => OnChain(b, f, m)
  BY <1>1, <1>2, <1>3, OnChainAppend
<1>6. BeaconSound(f, d)
  <2>1. BeaconSound(c, d)
    BY DEF IInv, c, d
  <2> QED BY <1>5, <2>1 DEF BeaconSound, AllOnChain
<1>7. PackagesSound(f, d)
  <2>1. PackagesSound(c, d)
    BY DEF IInv, c, d
  <2>2. \A n \in 1 .. d : n \in 0 .. Len(c)
    BY <1>2, Lengths DEF c, d
  <2>3. \A n \in 1 .. d : Batch(f, n) = Batch(c, n)
    BY <1>1, <1>2, <1>3, <2>2, BatchOfAppend, Zenon
  <2> QED BY <1>5, <2>1, <2>3 DEF PackagesSound
<1>8. BeaconSound(solver.chainTip, DoneOf(solver))' /\ PackagesSound(solver.chainTip, DoneOf(solver))'
  BY <1>1, <1>3, <1>6, <1>7, Zenon DEF BeaconSound, PackagesSound
<1> QED BY <1>1, <1>4, <1>8, Zenon DEF IInv

\* dispatchPending preserves the invariant: it sends batch Done + 1.
LEMMA DispatchPendingSound ==
    ASSUME IInv, DispatchPending
    PROVE  IInv'
<1> USE DEF DispatchPending, beacon
<1>1. PICK b : b = Head(solver.pending)
  OBVIOUS
<1>2. b \in BatchType
  <2>1. solver.pending \in Seq(BatchType)
    BY SolverFields, Zenon DEF IInv, TypeOK
  <2> QED BY <1>1, <2>1, HeadTailProperties
<1>3. OnChain(b, solver.chainTip, DoneOf(solver) + 1)
  BY <1>1, Lengths DEF OnChain
<1>4. toBeacon' \in Seq(BatchType) /\ AllOnChain(toBeacon', solver.chainTip, DoneOf(solver) + 1)
  <2>1. toBeacon \in Seq(BatchType) /\ AllOnChain(toBeacon, solver.chainTip, DoneOf(solver) + 1)
    BY Zenon DEF IInv, TypeOK, BeaconSound
  <2> QED BY <1>1, <1>2, <1>3, <2>1, QueueAppend, AppendProperties, Zenon
<1>5. TypeOK'
  BY <1>1, <1>2, <1>4, SMTT(30) DEF IInv, TypeOK
<1>6. BeaconSound(solver.chainTip, DoneOf(solver))' /\ PackagesSound(solver.chainTip, DoneOf(solver))'
  BY <1>4, Zenon DEF IInv, BeaconSound, PackagesSound
<1> QED BY <1>5, <1>6 DEF IInv

\* A finalized message is about the oldest pending batch.
LEMMA FinalizedHead ==
    ASSUME IInv, toSolver # << >>
    PROVE  /\ toSolver = << tip >> /\ Head(toSolver) = tip /\ Tail(toSolver) = << >>
           /\ Len(tip) = DoneOf(solver) + 1
           /\ solver.pending # << >> /\ Head(solver.pending) = tip
<1>1. toSolver = << tip >> /\ Len(tip) = DoneOf(solver) + 1
  BY DEF IInv, BeaconSound
<1>2. Head(toSolver) = tip /\ Tail(toSolver) = << >>
  BY <1>1
<1>3. DoneOf(solver) < Len(solver.chainTip)
  BY <1>1, Lengths
<1>4. solver.pending # << >> /\ Head(solver.pending) = tip
  BY <1>1, <1>3, Lengths
<1> QED BY <1>1, <1>2, <1>4

\* HandleFinalized preserves the invariant: Done moves on to the Beacon tip.
LEMMA HandleFinalizedSound ==
    ASSUME IInv, HandleFinalized
    PROVE  IInv'
<1> USE DEF HandleFinalized, beacon
<1> DEFINE c == solver.chainTip
           d == DoneOf(solver)
<1>1. /\ toSolver = << tip >> /\ Head(toSolver) = tip /\ Tail(toSolver) = << >>
      /\ Len(tip) = d + 1 /\ solver.pending # << >> /\ Head(solver.pending) = tip
  BY FinalizedHead
<1>2. /\ packages' = packages \cup PackagesOf(Shards, tip) /\ solver' = Finished(solver)
      /\ dispatched' = dispatched \ {tip} /\ stored' = solver' /\ toSolver' = << >>
      /\ UNCHANGED <<blocks, receipts, toBeacon, queue, proposal, tip, crashes>>
  BY <1>1, Zenon
<1>3. /\ solver' \in SolverType /\ solver'.chainTip = c /\ DoneOf(solver') = d + 1
      /\ ChainSound(solver') /\ ManagerSound(solver') /\ PendingSound(solver')
  BY <1>1, <1>2, FinishedSound, Zenon DEF IInv, TypeOK
<1>4. c \in Seq(HeaderType) /\ Len(c) \in Nat /\ d \in Nat /\ tip = Batch(c, d + 1)
  BY <1>1, Lengths, Zenon
<1>5. TypeOK'
  <2>1. packages' \subseteq Shards \X BatchType
    BY <1>2 DEF IInv, TypeOK, PackagesOf
  <2>2. toSolver' \in Seq(BatchType)
    BY <1>2, EmptySeq, Zenon
  <2> QED BY <1>2, <1>3, <2>1, <2>2, Zenon DEF IInv, TypeOK
<1> HIDE DEF HandleFinalized, c, d
<1>6. PICK d1 \in Nat : d1 = d + 1
  BY <1>4
<1>7. \A b : OnChain(b, c, d1) => OnChain(b, c, d1 + 1)
  BY <1>4, <1>6, OnChainMono
<1>8. BeaconSound(c, d)
  BY DEF IInv, c, d
<1>9. BeaconSound(solver.chainTip, DoneOf(solver))'
  <2>1. /\ AllOnChain(toBeacon, c, d1 + 1) /\ AllOnChain(queue, c, d1 + 1)
        /\ OnChain(tip, c, d1 + 1) /\ Len(tip) = d1
        /\ proposal # NoBatch => OnChain(proposal, c, d1 + 1) /\ Len(proposal) = Len(tip) + 1
    BY <1>1, <1>6, <1>7, <1>8 DEF BeaconSound, AllOnChain
  <2>2. Len(tip) >= d1
    BY <2>1
  <2> QED BY <1>2, <1>3, <1>6, <2>1, <2>2 DEF BeaconSound
<1>10. PackagesSound(solver.chainTip, DoneOf(solver))'
  <2>1. PackagesSound(c, d)
    BY DEF IInv, c, d
  <2>2. ASSUME NEW p \in packages'
        PROVE  OnChain(p[2], c, Len(tip)) /\ p[2] # << >>
    <3>1. CASE p \in packages
      BY <2>1, <3>1 DEF PackagesSound
    <3>2. CASE p \in PackagesOf(Shards, tip)
      <4>1. p[2] = tip
        BY <3>2 DEF PackagesOf
      <4>2. tip # << >> /\ Len(tip) <= Len(tip) /\ Len(tip) \in 0 .. Len(c)
        BY <1>1, <1>4, EmptySeq, Lengths DEF c
      <4> QED BY <1>1, <1>4, <4>1, <4>2 DEF OnChain
    <3> QED BY <1>2, <3>1, <3>2
  <2>3. ASSUME NEW n \in 1 .. d1
        PROVE  PackagesOf(Shards, Batch(c, n)) \subseteq packages'
    <3>1. CASE n \in 1 .. d
      BY <1>2, <2>1, <3>1 DEF PackagesSound
    <3>2. CASE n = d1
      BY <1>2, <1>4, <1>6, <3>2
    <3> QED BY <1>4, <1>6, <3>1, <3>2
  <2> QED BY <1>2, <1>3, <1>6, <2>2, <2>3 DEF PackagesSound
<1> QED BY <1>2, <1>3, <1>5, <1>9, <1>10 DEF IInv

\* A restart brings the Solver back to the state it had.
LEMMA RestartSame ==
    ASSUME IInv, Restart
    PROVE  solver' = solver /\ dispatched' = {} /\ crashes' \in 0 .. MaxCrashes
           /\ receipts' \in [Shards -> SUBSET Heights]
<1>1. crashes' \in 0 .. MaxCrashes
  BY BoundsAssumption DEF IInv, TypeOK, Restart
<1>2. receipts' \in [Shards -> SUBSET Heights]
  BY DEF IInv, TypeOK, Restart
<1> QED BY <1>1, <1>2 DEF IInv, Restart

\* A crash preserves the invariant: the saved state is the state in memory.
LEMMA CrashSound ==
    ASSUME IInv, Crash
    PROVE  IInv'
<1>1. /\ solver' = solver /\ dispatched' = {} /\ crashes' \in 0 .. MaxCrashes
      /\ receipts' \in [Shards -> SUBSET Heights]
  BY RestartSame DEF Crash
<1>2. /\ toSolver' \in {toSolver, << >>}
      /\ UNCHANGED <<blocks, stored, toBeacon, queue, proposal, tip, packages>>
  BY DEF Crash, beacon
<1>3. toSolver' \in Seq(BatchType)
  BY <1>2, EmptySeq, Zenon DEF IInv, TypeOK
<1>4. TypeOK'
  BY <1>1, <1>2, <1>3, Zenon DEF IInv, TypeOK
<1>5. BeaconSound(solver.chainTip, DoneOf(solver))' /\ PackagesSound(solver.chainTip, DoneOf(solver))'
  BY <1>1, <1>2 DEF IInv, BeaconSound, PackagesSound
<1> QED BY <1>1, <1>2, <1>4, <1>5 DEF IInv

\* So does a crash among the sends of HandleFinalized.
LEMMA CrashWhileSendingSound ==
    ASSUME IInv, CrashWhileSending
    PROVE  IInv'
<1>1. /\ solver' = solver /\ dispatched' = {} /\ crashes' \in 0 .. MaxCrashes
      /\ receipts' \in [Shards -> SUBSET Heights]
  BY RestartSame DEF CrashWhileSending
<1>2. /\ Head(toSolver) = tip /\ Tail(toSolver) = << >> /\ Len(tip) = DoneOf(solver) + 1
  BY FinalizedHead DEF CrashWhileSending
<1>3. PICK sent \in SUBSET Shards : packages' = packages \cup PackagesOf(sent, tip)
  BY <1>2, Zenon DEF CrashWhileSending
<1>4. toSolver' = << >> /\ UNCHANGED <<blocks, stored, toBeacon, queue, proposal, tip>>
  BY <1>2 DEF CrashWhileSending, beacon
<1>5. TypeOK'
  <2>1. packages' \subseteq Shards \X BatchType
    BY <1>3 DEF IInv, TypeOK, PackagesOf
  <2>2. toSolver' \in Seq(BatchType)
    BY <1>4, EmptySeq
  <2> QED BY <1>1, <1>4, <2>1, <2>2 DEF IInv, TypeOK
<1>6. BeaconSound(solver.chainTip, DoneOf(solver))'
  BY <1>1, <1>4 DEF IInv, BeaconSound
<1>7. PackagesSound(solver.chainTip, DoneOf(solver))'
  <2>1. PackagesSound(solver.chainTip, DoneOf(solver))
    BY Zenon DEF IInv
  <2>2. OnChain(tip, solver.chainTip, Len(tip)) /\ tip # << >>
    <3>1. Len(tip) <= Len(tip) /\ Len(tip) # 0
      BY <1>2, Lengths
    <3> QED BY <3>1, Lengths, EmptySeq DEF OnChain
  <2>3. \A p \in PackagesOf(sent, tip) : p[2] = tip
    BY DEF PackagesOf
  <2> QED BY <1>1, <1>3, <1>4, <2>1, <2>2, <2>3, Zenon DEF PackagesSound
<1> QED BY <1>1, <1>4, <1>5, <1>6, <1>7, Zenon DEF IInv

\* The Beacon leader queueing a batch preserves the invariant.
LEMMA HandleBatchProposalSound ==
    ASSUME IInv, HandleBatchProposal
    PROVE  IInv'
<1> DEFINE c == solver.chainTip
           m == DoneOf(solver) + 1
<1>1. /\ toBeacon \in Seq(BatchType) /\ queue \in Seq(BatchType)
      /\ AllOnChain(toBeacon, c, m) /\ AllOnChain(queue, c, m)
  BY DEF IInv, TypeOK, BeaconSound
<1>2. PICK b : b = Head(toBeacon)
  OBVIOUS
<1>3. /\ toBeacon # << >> /\ toBeacon' = Tail(toBeacon)
      /\ queue' \in {queue, Append(queue, b)}
      /\ UNCHANGED <<blocks, receipts, solver, stored, dispatched, proposal, tip, toSolver,
                     packages, crashes>>
  BY <1>2 DEF HandleBatchProposal
<1> HIDE DEF c, m
<1>4. /\ b \in BatchType /\ OnChain(b, c, m)
      /\ toBeacon' \in Seq(BatchType) /\ AllOnChain(toBeacon', c, m)
  BY <1>1, <1>2, <1>3, QueueTail, HeadTailProperties
<1>5. queue' \in Seq(BatchType) /\ AllOnChain(queue', c, m)
  <2>1. Append(queue, b) \in Seq(BatchType) /\ AllOnChain(Append(queue, b), c, m)
    BY <1>1, <1>4, QueueAppend, AppendProperties
  <2> QED BY <1>1, <1>3, <2>1, Zenon
<1>6. TypeOK'
  BY <1>3, <1>4, <1>5, Zenon DEF IInv, TypeOK
<1>7. BeaconSound(solver.chainTip, DoneOf(solver))' /\ PackagesSound(solver.chainTip, DoneOf(solver))'
  BY <1>3, <1>4, <1>5, Zenon DEF IInv, BeaconSound, PackagesSound, c, m
<1> QED BY <1>3, <1>6, <1>7 DEF IInv

\* BuildProposal preserves the invariant: the proposal is one longer than the tip.
LEMMA BuildProposalSound ==
    ASSUME IInv, BuildProposal
    PROVE  IInv'
<1> DEFINE c == solver.chainTip
           m == DoneOf(solver) + 1
<1>1. PICK b : b = Head(queue)
  OBVIOUS
<1>2. /\ queue # << >> /\ Sequential(b) /\ proposal' = b
      /\ UNCHANGED <<blocks, receipts, solver, stored, dispatched, toBeacon, queue, tip,
                     toSolver, packages, crashes>>
  BY <1>1 DEF BuildProposal, Validate
<1>3. queue \in Seq(BatchType) /\ AllOnChain(queue, c, m)
  BY DEF IInv, TypeOK, BeaconSound
<1>4. c \in Seq(HeaderType) /\ m \in Int /\ Len(c) \in Nat
  BY Lengths
<1> HIDE DEF c, m
<1>5. b \in BatchType /\ OnChain(b, c, m)
  BY <1>1, <1>2, <1>3, QueueTail, HeadTailProperties
<1>6. Len(b) = Len(tip) + 1
  <2>1. Len(b) \in Nat /\ b # << >> /\ b \in Seq(HeaderType)
    BY <1>2, <1>5, LenProperties DEF BatchType, Sequential
  <2>2. Len(b) \in Nat \ {0}
    BY <2>1, EmptySeq
  <2>3. tip = Batch(b, Len(b) - 1)
    BY <1>2 DEF Sequential, PreviousBatchID, Batch
  <2>4. Len(b) - 1 \in 0 .. Len(b)
    BY <2>2
  <2>5. Len(tip) = Len(b) - 1
    BY <2>1, <2>3, <2>4, BatchProperties, Zenon
  <2> QED BY <2>2, <2>5
<1>7. TypeOK'
  BY <1>2, <1>5 DEF IInv, TypeOK
<1>8. BeaconSound(solver.chainTip, DoneOf(solver))' /\ PackagesSound(solver.chainTip, DoneOf(solver))'
  BY <1>2, <1>5, <1>6, Zenon DEF IInv, BeaconSound, PackagesSound, c, m
<1> QED BY <1>2, <1>7, <1>8 DEF IInv

\* ProposalCommitAndDeliver preserves the invariant: the tip was at Done, so no
\* other finalized message is under way.
LEMMA CommitAndDeliverSound ==
    ASSUME IInv, CommitAndDeliver
    PROVE  IInv'
<1> DEFINE c == solver.chainTip
           d == DoneOf(solver)
<1>1. /\ proposal # NoBatch /\ tip' = proposal /\ queue' = RemoveQueued(queue, proposal)
      /\ toSolver' = Append(toSolver, proposal) /\ proposal' = NoBatch
      /\ UNCHANGED <<blocks, receipts, solver, stored, dispatched, toBeacon, packages, crashes>>
  BY DEF CommitAndDeliver, Commit
<1>2. proposal \in BatchType /\ queue \in Seq(BatchType)
  BY <1>1 DEF IInv, TypeOK
<1>3. BeaconSound(c, d)
  BY DEF IInv
<1>4. /\ c \in Seq(HeaderType) /\ d \in Nat /\ Len(tip) \in {d, d + 1}
  BY Lengths
<1> HIDE DEF c, d
<1>5. PICK m \in Nat : m = d + 1
  BY <1>4
<1>6. OnChain(proposal, c, m) /\ Len(proposal) = Len(tip) + 1
  BY <1>1, <1>3, <1>5 DEF BeaconSound
<1>7. Len(proposal) <= m
  BY <1>4, <1>5, <1>6, OnChainLen
<1>8. Len(tip) = d /\ Len(proposal) = m
  BY <1>4, <1>5, <1>6, <1>7
<1>9. toSolver = << >>
  BY <1>3, <1>4, <1>8 DEF BeaconSound
<1>10. toSolver' = << proposal >> /\ toSolver' \in Seq(BatchType)
  BY <1>1, <1>2, <1>9
<1>11. queue' \in Seq(BatchType) /\ AllOnChain(queue', c, m)
  BY <1>1, <1>2, <1>3, <1>5, QueueRemove DEF BeaconSound
<1>12. TypeOK'
  BY <1>1, <1>2, <1>10, <1>11 DEF IInv, TypeOK
<1>13. BeaconSound(solver.chainTip, DoneOf(solver))'
  <2>1. m >= d
    BY <1>4, <1>5
  <2>2. solver'.chainTip = c /\ DoneOf(solver') = d
    BY <1>1, Zenon DEF c, d
  <2> QED BY <1>1, <1>3, <1>5, <1>6, <1>8, <1>10, <1>11, <2>1, <2>2 DEF BeaconSound
<1>14. PackagesSound(solver.chainTip, DoneOf(solver))'
  <2>1. PackagesSound(c, d)
    BY DEF IInv, c, d
  <2>2. solver'.chainTip = c /\ DoneOf(solver') = d
    BY <1>1 DEF c, d
  <2>3. d <= m /\ d \in Int /\ m \in Int
    BY <1>4, <1>5
  <2>4. \A b : OnChain(b, c, d) => OnChain(b, c, m)
    BY <1>4, <2>3, OnChainMono
  <2> QED BY <1>1, <1>8, <2>1, <2>2, <2>4 DEF PackagesSound
<1> QED BY <1>1, <1>12, <1>13, <1>14 DEF IInv

\* The invariant holds in every reachable state.
THEOREM Invariance == Spec => []IInv
<1>1. IInv /\ [Next]_vars => IInv'
  <2> SUFFICES ASSUME IInv, [Next]_vars
               PROVE  IInv'
    OBVIOUS
  <2>1. ASSUME NEW s \in Shards, Publish(s)
        PROVE  IInv'
    BY <2>1, PublishSound
  <2>2. ASSUME NEW s \in Shards, HandleReceipt(s)
        PROVE  IInv'
    BY <2>2, HandleReceiptSound
  <2>3. CASE Seal
    BY <2>3, SealSound
  <2>4. CASE DispatchPending
    BY <2>4, DispatchPendingSound, Zenon
  <2>5. CASE HandleFinalized
    BY <2>5, HandleFinalizedSound
  <2>6. CASE Crash
    BY <2>6, CrashSound
  <2>7. CASE CrashWhileSending
    BY <2>7, CrashWhileSendingSound
  <2>8. CASE HandleBatchProposal
    BY <2>8, HandleBatchProposalSound
  <2>9. CASE BuildProposal
    BY <2>9, BuildProposalSound
  <2>10. CASE CommitAndDeliver
    BY <2>10, CommitAndDeliverSound
  <2>11. CASE UNCHANGED vars
    BY <2>11 DEF vars, IInv, TypeOK, BeaconSound, PackagesSound
  <2> QED BY <2>1, <2>2, <2>3, <2>4, <2>5, <2>6, <2>7, <2>8, <2>9, <2>10, <2>11 DEF Next
<1> QED BY <1>1, InitSound, PTL DEF Spec

\* Every variable keeps its type, restarts included.
THEOREM TypeCorrect == Spec => []TypeOK
<1>1. IInv => TypeOK
  BY DEF IInv
<1> QED BY <1>1, Invariance, PTL

-----------------------------------------------------------------------------
(* What follows from the invariant *)

\* A batch of the chain is a prefix of it.
LEMMA OnChainPrefix ==
    ASSUME NEW X, NEW c \in Seq(X), NEW b, NEW m \in Int, OnChain(b, c, m)
    PROVE  Prefix(b, c)
<1>1. Len(b) \in 0 .. Len(c) /\ \A k \in 1 .. Len(b) : b[k] = c[k]
  BY OnChainLen
<1>2. Len(c) \in Nat
  BY LenProperties
<1> QED BY <1>1, <1>2 DEF Prefix

\* No restart makes the Solver build a second batch for a window: all batches
\* that left it (dispatchPending after drainFrozen) lie on its one saved chain.
THEOREM SolverOneChain == Spec => []OneChain
<1>1. IInv => OneChain
  <2> SUFFICES ASSUME IInv, NEW b \in Released
               PROVE  Prefix(b, stored.chainTip)
    BY Zenon DEF OneChain
  <2> DEFINE c == solver.chainTip
             d == DoneOf(solver)
  <2>1. /\ c \in Seq(HeaderType) /\ d + 1 \in Int /\ Len(tip) \in Int
        /\ BeaconSound(c, d) /\ PackagesSound(c, d) /\ stored.chainTip = c
    <3>1. d \in Nat /\ Len(tip) \in {d, d + 1}
      BY Lengths
    <3> QED BY <3>1, Lengths, SMTT(30) DEF IInv
  <2> HIDE DEF c, d
  <2>2. OnChain(b, c, d + 1) \/ OnChain(b, c, Len(tip))
    <3>1. OnChain(tip, c, d + 1) /\ (proposal # NoBatch => OnChain(proposal, c, d + 1))
      BY <2>1 DEF BeaconSound
    <3>2. \A k \in 1 .. Len(toBeacon) : OnChain(toBeacon[k], c, d + 1)
      BY <2>1 DEF BeaconSound, AllOnChain
    <3>3. \A k \in 1 .. Len(queue) : OnChain(queue[k], c, d + 1)
      BY <2>1 DEF BeaconSound, AllOnChain
    <3>4. \A k \in 1 .. Len(toSolver) : toSolver[k] = tip
      BY <2>1 DEF BeaconSound
    <3>5. \A p \in packages : OnChain(p[2], c, Len(tip))
      BY <2>1 DEF PackagesSound
    <3> QED BY <3>1, <3>2, <3>3, <3>4, <3>5 DEF Released
  <2> QED BY <2>1, <2>2, OnChainPrefix
<1> QED BY <1>1, Invariance, PTL

\* The Beacon can accept the oldest pending batch or has committed it already
\* (validateSequence and Validator.Validate refuse nothing else the Solver offers).
THEOREM PendingHeadAcceptable == Spec => []HeadAcceptable
<1>1. IInv => HeadAcceptable
  <2> SUFFICES ASSUME IInv, solver.pending # << >>
               PROVE  \/ Validate(Head(solver.pending))
                      \/ Prefix(Head(solver.pending), tip)
    BY DEF HeadAcceptable
  <2>1. PICK c, b : c = solver.chainTip /\ b = Head(solver.pending)
    OBVIOUS
  <2>2. PICK d \in Nat : d = DoneOf(solver)
    BY Lengths
  <2>3. /\ c \in Seq(HeaderType) /\ Len(c) \in Nat /\ d + 1 \in 1 .. Len(c)
        /\ b = Batch(c, d + 1) /\ tip = Batch(c, Len(tip)) /\ Len(tip) \in {d, d + 1}
    BY <2>1, <2>2, Lengths
  <2>4. d + 1 \in 0 .. Len(c) /\ d \in 0 .. Len(c) /\ d \in 0 .. d + 1
    BY <2>3
  <2>5. /\ b \in Seq(HeaderType) /\ Len(b) = d + 1 /\ b # << >>
        /\ \A k \in 1 .. d + 1 : b[k] = c[k]
    BY <2>3, <2>4, BatchProperties
  <2>6. CASE Len(tip) = d + 1
    <3>1. tip = b
      BY <2>3, <2>6
    <3>2. Len(b) <= Len(b)
      BY <2>5
    <3> QED BY <2>1, <3>1, <3>2 DEF Prefix
  <2>7. CASE Len(tip) = d
    <3>1. tip = Batch(c, d)
      BY <2>3, <2>7
    <3>2. /\ \A k \in 1 .. d : tip[k] = c[k]
          /\ tip = << >> <=> d = 0
      BY <2>3, <2>4, <3>1, BatchProperties
    <3>3. PreviousBatchID(b) = tip
      <4>1. PreviousBatchID(b) = Batch(b, d)
        BY <2>5 DEF PreviousBatchID, Batch
      <4> QED BY <2>3, <2>4, <3>1, <4>1, BatchOfBatch
    <3>4. Header(b) = c[d + 1] /\ (d # 0 => Header(tip) = c[d])
      BY <2>5, <2>7, <3>2 DEF Header
    <3>5. /\ c[d + 1].window = d + 1
          /\ \A s \in Shards : c[d + 1].from[s] <= c[d + 1].to[s]
          /\ d # 0 => c[d + 1].from = c[d].to /\ c[d].window = d
      <4>1. /\ \A k \in 1 .. Len(c) : c[k].window = k
            /\ \A k \in 1 .. Len(c) : \A s \in Shards : c[k].from[s] <= c[k].to[s]
            /\ \A k \in 1 .. Len(c) : k > 1 => c[k].from = c[k - 1].to
        BY <2>1 DEF IInv, ChainSound
      <4>2. PICK k \in 1 .. Len(c) : k = d + 1
        BY <2>3
      <4>3. c[k].window = k /\ \A s \in Shards : c[k].from[s] <= c[k].to[s]
        BY <4>1, Zenon
      <4>4. ASSUME d # 0
            PROVE  c[k].from = c[d].to /\ c[d].window = d
        <5>1. d \in 1 .. Len(c) /\ k > 1 /\ k - 1 = d
          BY <2>3, <4>2, <4>4
        <5>2. c[k].from = c[k - 1].to
          BY <4>1, <5>1, Zenon
        <5>3. c[d].window = d
          BY <4>1, <5>1, Zenon
        <5> QED BY <5>1, <5>2, <5>3, Zenon
      <4> QED BY <4>2, <4>3, <4>4, Zenon
    <3>6. Sequential(b)
      BY <2>5, <3>2, <3>3, <3>4, <3>5 DEF Sequential
    <3>7. Validate(b)
      BY <3>2, <3>4, <3>5, <3>6 DEF Validate
    <3> QED BY <2>1, <3>7
  <2> QED BY <2>3, <2>6, <2>7
<1> QED BY <1>1, Invariance, PTL

\* HandleFinalized never meets a batch other than the oldest pending one.
THEOREM NoUnexpectedFinalized == Spec => []FinalizedExpected
<1>1. IInv => FinalizedExpected
  <2> SUFFICES ASSUME IInv, toSolver # << >>
               PROVE  /\ Len(toSolver) = 1
                      /\ solver.pending # << >> /\ Head(solver.pending) = Head(toSolver)
    BY DEF FinalizedExpected
  <2>1. /\ toSolver = << tip >> /\ Head(toSolver) = tip
        /\ solver.pending # << >> /\ Head(solver.pending) = tip
    BY FinalizedHead
  <2> QED BY <2>1
<1> QED BY <1>1, Invariance, PTL

\* No batch is forgotten: it is pending in the store or its packages are out
\* (HandleFinalized sends before it saves).
THEOREM NoBatchForgotten == Spec => []PendingOrSent
<1>1. IInv => PendingOrSent
  <2> SUFFICES ASSUME IInv, NEW k \in 1 .. Len(stored.chainTip)
               PROVE  \/ \E j \in 1 .. Len(stored.pending) :
                           stored.pending[j] = SubSeq(stored.chainTip, 1, k)
                      \/ PackagesOf(Shards, SubSeq(stored.chainTip, 1, k)) \subseteq packages
    BY DEF PendingOrSent
  <2>1. stored = solver /\ PendingSound(solver) /\ PackagesSound(solver.chainTip, DoneOf(solver))
    BY SMTT(30) DEF IInv
  <2>2. PICK d \in Nat, n \in Nat, m \in Nat :
            d = DoneOf(solver) /\ n = Len(solver.chainTip) /\ m = Len(solver.pending)
    BY Lengths, SolverFields, Zenon DEF IInv, TypeOK
  <2>3. d = n - m /\ k \in 1 .. n
    BY <2>1, <2>2 DEF DoneOf
  <2>4. CASE k <= d
    <3>1. k \in 1 .. d
      BY <2>3, <2>4
    <3> QED BY <2>1, <2>2, <3>1 DEF PackagesSound, Batch
  <2>5. CASE k > d
    <3>1. PICK j \in 1 .. m : d + j = k
      <4>1. k - d \in 1 .. m /\ d + (k - d) = k
        BY <2>3, <2>5
      <4> QED BY <4>1
    <3>2. solver.pending[j] = Batch(solver.chainTip, k)
      BY <2>1, <2>2, <3>1 DEF PendingSound
    <3> QED BY <2>1, <2>2, <3>2 DEF Batch
  <2> QED BY <2>3, <2>4, <2>5
<1> QED BY <1>1, Invariance, PTL

\* Settlement packages exist for batches the Beacon committed and no others.
THEOREM PackagesCommitted == Spec => []SentIsCommitted
<1>1. IInv => SentIsCommitted
  <2> SUFFICES ASSUME IInv, NEW p \in packages
               PROVE  Prefix(p[2], tip) /\ p[2] # << >>
    BY DEF SentIsCommitted
  <2>1. PICK c, b, n : c = solver.chainTip /\ b = p[2] /\ n = Len(tip)
    BY Zenon
  <2>2. c \in Seq(HeaderType) /\ n \in 0 .. Len(c) /\ tip = Batch(c, n)
    BY <2>1, Lengths, Zenon
  <2>3. OnChain(b, c, n) /\ b # << >>
    BY <2>1 DEF IInv, PackagesSound
  <2>4. Len(b) <= n /\ Len(b) \in 0 .. Len(c) /\ \A k \in 1 .. Len(b) : b[k] = c[k]
    BY <2>2, <2>3, OnChainLen
  <2>5. \A k \in 1 .. n : tip[k] = c[k]
    BY <2>2, BatchProperties
  <2>6. \A k \in 1 .. Len(b) : k \in 1 .. n
    BY <2>2, <2>4
  <2> QED BY <2>1, <2>3, <2>4, <2>5, <2>6 DEF Prefix
<1> QED BY <1>1, Invariance, PTL
=============================================================================
