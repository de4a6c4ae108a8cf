------------------------------- MODULE Merkle -------------------------------
(***************************************************************************)
(* Merkle trees: the incremental computation of root, branch and mutation  *)
(* flag (consensus/merkle.cpp), and the partial tree that is sent for      *)
(* filtered blocks and proofs (CPartialMerkleTree, merkleblock.cpp).       *)
(*                                                                         *)
(* Hashes are symbolic: a leaf is a sequence of one, the hash of two is    *)
(* the pair, so that no two different inputs collide.  The state is a list *)
(* of leaves that grows, like the transactions of a block.                 *)
(***************************************************************************)
EXTENDS Integers, Sequences, FiniteSets, SequencesExt

CONSTANTS
    LeafIds,      \* the transactions
    MaxLeaves,    \* the length of a list with different transactions
    MaxRepeated   \* the length of a list with repetitions

VARIABLE leaves

MerkleInit == leaves = <<>>

Leaf(t) == <<t>>
Distinct(s) == Cardinality(Range(s)) = Len(s)

Hash256(l, r) == <<l, r>>

MerkleNext ==
    \E t \in LeafIds :
        /\ leaves' = Append(leaves, Leaf(t))
        /\ \/ Len(leaves) < MaxRepeated /\ t <= 2
           \/ Len(leaves) < MaxLeaves /\ t = Len(leaves) + 1 /\ Distinct(leaves)

MerkleSpec == MerkleInit /\ [][MerkleNext]_leaves

-----------------------------------------------------------------------------
(* MerkleComputation.                                                      *)

BitSet(count, level) == (count \div 2 ^ level) % 2 = 1

\* Two subtrees are combined at the given level: the branch grows by the one that
\* the matching leaf is not in.  s holds inner, h, match (matchh), matchlevel,
\* mutated and branch.
Extended(s, level) ==
    IF s.match THEN [s EXCEPT !.branch = Append(@, s.inner[level])]
    ELSE IF s.matchlevel = level THEN [s EXCEPT !.branch = Append(@, s.h), !.match = TRUE]
    ELSE s

\* The mutation flag looks at the leaves only.
MutatedAtLeaves(s, level) == s.mutated \/ (level = 0 /\ s.inner[level] = s.h)

MutatedBy(s, level) == s.mutated \/ s.inner[level] = s.h

Combined(s, level) ==
    [Extended(s, level) EXCEPT !.h = Hash256(s.inner[level], s.h)]

\* For each of the lower bits of count that are 0, one step.
RECURSIVE Carry(_, _, _)
Carry(s, count, level) ==
    IF BitSet(count, level)
      THEN [s EXCEPT !.inner[level] = s.h, !.matchlevel = IF s.match THEN level ELSE @]
      ELSE Carry([Combined(s, level) EXCEPT !.mutated = MutatedBy(s, level)], count, level + 1)

\* The first loop, over the leaves of list; pos is the leaf the branch is for.
RECURSIVE Absorb(_, _, _, _)
Absorb(list, pos, s, count) ==
    IF count = Len(list) THEN s
    ELSE Absorb(list, pos,
                Carry([s EXCEPT !.h = list[count + 1], !.match = count = pos], count + 1, 0),
                count + 1)

\* The upward steps while the bit of count is 0.
RECURSIVE Propagate(_, _, _)
Propagate(s, count, level) ==
    IF BitSet(count, level) THEN <<s, level>>
    ELSE Propagate(Combined(s, level), count, level + 1)

\* The final sweep over the rightmost branch: an odd subtree is combined with itself.
RECURSIVE Sweep(_, _, _)
Sweep(s, count, level) ==
    IF count = 2 ^ level THEN s
    ELSE LET doubled == [s EXCEPT !.branch = IF s.match THEN Append(@, s.h) ELSE @,
                                  !.h = Hash256(s.h, s.h)]
             up == Propagate(doubled, count + 2 ^ level, level + 1)
         IN  Sweep(up[1], count + 2 ^ level, up[2])

LowestOne(count) == CHOOSE l \in 0..32 : BitSet(count, l) /\ \A k \in 0..(l - 1) : ~ BitSet(count, k)

Levels == 0..5

MerkleComputation(list, pos) ==
    LET start == [inner |-> [l \in Levels |-> <<>>], h |-> <<>>, match |-> FALSE,
                  matchlevel |-> -1, mutated |-> FALSE, branch |-> <<>>]
        all == Absorb(list, pos, start, 0)
        level == LowestOne(Len(list))
    IN  IF list = <<>> THEN start
        ELSE Sweep([all EXCEPT !.h = all.inner[level], !.match = all.matchlevel = level],
                   Len(list), level)

ComputeMerkleRoot(list) == MerkleComputation(list, -1).h
ComputeMerkleBranch(list, pos) == MerkleComputation(list, pos).branch
IsMutated(list) == MerkleComputation(list, -1).mutated

RECURSIVE ComputeMerkleRootFromBranch(_, _, _)
ComputeMerkleRootFromBranch(hash, branch, index) ==
    IF branch = <<>> THEN hash
    ELSE ComputeMerkleRootFromBranch(
             IF index % 2 = 1 THEN Hash256(Head(branch), hash) ELSE Hash256(hash, Head(branch)),
             Tail(branch), index \div 2)

-----------------------------------------------------------------------------
(* CPartialMerkleTree.                                                     *)

CalcTreeWidth(n, height) == (n + 2 ^ height - 1) \div 2 ^ height

TreeHeight(n) == CHOOSE h \in 0..32 : CalcTreeWidth(n, h) <= 1 /\ \A k \in 0..(h - 1) : CalcTreeWidth(n, k) > 1

RECURSIVE CalcHash(_, _, _)
CalcHash(list, height, pos) ==
    IF height = 0 THEN list[pos + 1]
    ELSE LET left == CalcHash(list, height - 1, pos * 2)
         IN  Hash256(left, IF pos * 2 + 1 < CalcTreeWidth(Len(list), height - 1)
                             THEN CalcHash(list, height - 1, pos * 2 + 1) ELSE left)

\* The bits and the hashes for the subtree at pos, M being the matched positions.
RECURSIVE TraverseAndBuild(_, _, _, _)
TraverseAndBuild(list, M, height, pos) ==
    LET n == Len(list)
        parent == \E p \in M : p \div 2 ^ height = pos
        left == TraverseAndBuild(list, M, height - 1, pos * 2)
        right == IF pos * 2 + 1 < CalcTreeWidth(n, height - 1)
                   THEN TraverseAndBuild(list, M, height - 1, pos * 2 + 1)
                   ELSE [bits |-> <<>>, hashes |-> <<>>]
    IN  IF height = 0 \/ ~ parent
          THEN [bits |-> <<parent>>, hashes |-> <<CalcHash(list, height, pos)>>]
          ELSE [bits |-> <<parent>> \o left.bits \o right.bits,
                hashes |-> left.hashes \o right.hashes]

\* A subtree without a right half is taken to be its left half.
RightOrLeftAlone(left, right, exists) == IF exists THEN right.hash ELSE <<>>

\* The right half, or the left one again where the tree ends.
RightOrLeft(left, right, exists) == IF exists THEN right.hash ELSE left.hash

\* What is read for the subtree at pos, from the bits and the hashes that are left:
\* its hash, the positions matched, whether it is bad, and what is left after it.
RECURSIVE TraverseAndExtract(_, _, _, _)
TraverseAndExtract(n, rest, height, pos) ==
    IF rest.bits = <<>> THEN [rest EXCEPT !.bad = TRUE, !.hash = <<>>]
    ELSE LET parent == Head(rest.bits)
             after == [rest EXCEPT !.bits = Tail(@)]
             left == TraverseAndExtract(n, after, height - 1, pos * 2)
             exists == pos * 2 + 1 < CalcTreeWidth(n, height - 1)
             right == IF exists THEN TraverseAndExtract(n, left, height - 1, pos * 2 + 1) ELSE left
         IN  IF height > 0 /\ parent
               THEN [right EXCEPT !.hash = Hash256(left.hash, RightOrLeft(left, right, exists)),
                                  !.bad = @ \/ (exists /\ right.hash = left.hash)]
             ELSE IF after.hashes = <<>> THEN [after EXCEPT !.bad = TRUE, !.hash = <<>>]
             ELSE [after EXCEPT !.hash = Head(after.hashes), !.hashes = Tail(@),
                                !.matches = IF parent THEN Append(@, pos) ELSE @]

\* The root and the matched positions, or the null hash and no claim.
ExtractMatches(n, tree) ==
    LET r == TraverseAndExtract(n, [bits |-> tree.bits, hashes |-> tree.hashes, hash |-> <<>>,
                                    matches |-> <<>>, bad |-> FALSE], TreeHeight(n), 0)
        whole == (Len(tree.bits) + 7) \div 8 = (Len(tree.bits) - Len(r.bits) + 7) \div 8
    IN  IF \/ n = 0 \/ Len(tree.hashes) > n \/ Len(tree.bits) < Len(tree.hashes)
           \/ r.bad \/ ~ whole \/ r.hashes # <<>>
          THEN [root |-> <<>>, matches |-> <<>>]
          ELSE [root |-> r.hash, matches |-> r.matches]

-----------------------------------------------------------------------------
\* The definition: pairs level by level, the last one doubled where one is missing.
RECURSIVE RootOf(_)
RootOf(list) ==
    LET half == (Len(list) + 1) \div 2
        Second(i) == IF 2 * i <= Len(list) THEN list[2 * i] ELSE list[2 * i - 1]
    IN  IF Len(list) <= 1 THEN Head(list)
        ELSE RootOf([i \in 1..half |-> Hash256(list[2 * i - 1], Second(i))])

Lists == UNION {[1..n -> {Leaf(1), Leaf(2)}] : n \in 1..MaxRepeated}
Roots == [l \in Lists |-> RootOf(l)]

\* A filtered block or a transaction proof tells exactly which of the transactions
\* matched, under the root that the block header commits to: for every number of
\* transactions and every set of matches, the receiver gets from the partial tree
\* the root that the incremental computation gives, and the positions that were
\* put in.  The branch that is made for one position leads to the same root.
PartialTreeRoundTrips ==
    leaves # <<>> /\ Distinct(leaves) =>
        LET root == ComputeMerkleRoot(leaves)
            n == Len(leaves)
        IN  /\ root = RootOf(leaves)
            /\ \A M \in SUBSET (0..(n - 1)) :
                  LET got == ExtractMatches(n, TraverseAndBuild(leaves, M, TreeHeight(n), 0))
                  IN  got.root = root /\ Range(got.matches) = M /\ Distinct(got.matches)
            /\ \A p \in 0..(n - 1) :
                  ComputeMerkleRootFromBranch(leaves[p + 1], ComputeMerkleBranch(leaves, p), p) = root

\* "this will detect all known ways of changing the transactions without affecting
\* the merkle root": of two lists with the same root the longer one is flagged.
MutationDetected ==
    leaves \in Lists =>
        \A l \in Lists : l # leaves /\ Len(l) <= Len(leaves) /\ Roots[l] = Roots[leaves]
            => IsMutated(leaves)
=============================================================================
