--------------------------- MODULE EquihashVerify ---------------------------
(***************************************************************************)
(* Equihash<N,K>::IsValidSolution as an operator, and the reference        *)
(* definition of an Equihash solution it is checked against.              *)
(***************************************************************************)
EXTENDS EquihashRows

(***************************************************************************)
(* One pass of the while loop body (lines 615-635): every pair X[i],       *)
(* X[i+1] is checked and merged.                                           *)
(***************************************************************************)
\* Mutant: the pair check without the canonical order test.
PairOkUnordered(L, p, len, li) ==
    /\ HasCollision(L[p], L[p + 1], CollisionByteLength)
    /\ DistinctIndices(L[p], L[p + 1], len, li)

PairOk(L, p, len, li) ==
    /\ HasCollision(L[p], L[p + 1], CollisionByteLength)
    /\ ~IndicesBefore(L[p + 1], L[p], len, li)
    /\ DistinctIndices(L[p], L[p + 1], len, li)

LevelOk(L, len, li) == \A g \in 0 .. Len(L) \div 2 - 1 : PairOk(L, 2 * g + 1, len, li)

MergeLevel(L, len, li) ==
    [g \in 1 .. Len(L) \div 2 |->
        FullMerge(L[2 * g - 1], L[2 * g], len, li, CollisionByteLength)]

RECURSIVE VerifyTree(_, _, _)
VerifyTree(L, len, li) ==
    IF Len(L) > 1
    THEN LevelOk(L, len, li)
         /\ VerifyTree(MergeLevel(L, len, li), len - CollisionByteLength, 2 * li)
    ELSE IsZero(L[1], len)

IsValidSolution(bs, s) ==
    /\ Len(s) = SolnSize
    /\ VerifyTree([p \in 1 .. Len(s) |-> FullRow(bs, s[p])], ExpandedHashLength, IndexBytes)

(***************************************************************************)
(* Reference definition of a solution (spec I1-I4 and the Equihash paper), *)
(* independent of the loop structure: 2^K distinct indices; for every node *)
(* of the binary tree at height l, the XOR of the expanded hashes of its   *)
(* leaves is zero on the first l blocks and the leftmost leaf of its left  *)
(* subtree is smaller than that of its right subtree; the XOR of all       *)
(* leaves is zero on all K+1 blocks.                                       *)
(***************************************************************************)
XorOfLeaves(bs, s, lo, hi) ==
    [b \in 1 .. K + 1 |->
        FoldLeft(LAMBDA acc, p : acc ^^ ExpandHash(bs, s[p])[b], 0,
                 [q \in 1 .. hi - lo + 1 |-> lo + q - 1])]

SolutionPredicate(bs, s) ==
    /\ Len(s) = SolnSize
    /\ IsInjective(s)
    /\ \A l \in 1 .. K : \A g \in 0 .. SolnSize \div 2 ^ l - 1 :
          LET lo == g * 2 ^ l + 1
          IN  /\ \A b \in 1 .. l : XorOfLeaves(bs, s, lo, lo + 2 ^ l - 1)[b] = 0
              /\ s[lo] < s[lo + 2 ^ (l - 1)]
    /\ \A b \in 1 .. K + 1 : XorOfLeaves(bs, s, 1, SolnSize)[b] = 0

\* Every solution by the reference definition over the seeds of a solve.
ValidSolutions(bs) == {s \in [1 .. SolnSize -> Seeds] : SolutionPredicate(bs, s)}

=============================================================================
