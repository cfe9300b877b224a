------------------------------- MODULE Merkle -------------------------------
(* The Merkle tree of pkg/netting/merkle: Build, Proof and Verify.  A       *)
(* SHA-256 digest is the term it digests: two inputs have one digest only   *)
(* if they are the same input.                                              *)
EXTENDS Integers, Sequences, SequencesExt

hashLeaf(domain, payload) == <<"leaf", domain, payload>>
hashNode(left, right) == <<"node", left, right>>
emptyRoot == <<"empty">>

(* The parents of a level; the last node of an odd level is its own sibling.*)
Parents(level) ==
    [i \in 1 .. (Len(level) + 1) \div 2 |->
        hashNode(level[2 * i - 1], level[IF 2 * i > Len(level) THEN 2 * i - 1 ELSE 2 * i])]

RECURSIVE LevelsFrom(_)
LevelsFrom(level) ==
    IF Len(level) <= 1 THEN <<level>> ELSE <<level>> \o LevelsFrom(Parents(level))

(***************************************************************************)
(* Build(domain, leaves), for a set of leaves [Key, Payload] of distinct    *)
(* keys, which are numbers.                                                 *)
(***************************************************************************)
Build(domain, leaves) ==
    LET sorted == SetToSortSeq(leaves, LAMBDA l, k : l.Key < k.Key)
        levels == LevelsFrom([i \in 1 .. Len(sorted) |-> hashLeaf(domain, sorted[i].Payload)])
    IN  [keys |-> [i \in 1 .. Len(sorted) |-> sorted[i].Key],
         levels |-> levels,
         root |-> IF leaves = {} THEN emptyRoot ELSE levels[Len(levels)][1]]

(* The sibling of a node, both counted from 0.                              *)
Sibling(level, index) ==
    LET flipped == IF index % 2 = 0 THEN index + 1 ELSE index - 1
    IN  IF flipped >= Len(level) THEN index ELSE flipped

Proof(tree, key) ==
    LET leaf == (CHOOSE i \in 1 .. Len(tree.keys) : tree.keys[i] = key) - 1
    IN  [l \in 1 .. Len(tree.levels) - 1 |->
            LET index == leaf \div 2 ^ (l - 1)
                sibling == Sibling(tree.levels[l], index)
            IN  [Sibling |-> tree.levels[l][sibling + 1], SiblingOnLeft |-> sibling < index]]

Verify(domain, payload, proof, expectedRoot) ==
    LET climb(current, step) ==
            IF step.SiblingOnLeft THEN hashNode(step.Sibling, current)
                                  ELSE hashNode(current, step.Sibling)
    IN  FoldLeft(climb, hashLeaf(domain, payload), proof) = expectedRoot
=============================================================================
