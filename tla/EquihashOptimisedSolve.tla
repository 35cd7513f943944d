----------------------- MODULE EquihashOptimisedSolve -----------------------
(***************************************************************************)
(* Equihash<N,K>::OptimisedSolve (equihash.cpp lines 394-595).             *)
(*                                                                         *)
(* Phase A runs the rounds on rows carrying truncated indices and collects *)
(* partial solutions; phase B rebuilds, for each partial solution, the     *)
(* full indices leaf by leaf, keeping one candidate list per subtree size  *)
(* in the slot vector X and colliding sibling lists with CollideBranches.  *)
(* As in EquihashBasicSolve, an action runs from one cancellation probe to *)
(* the next, probe records the label just asked and Cancel throws.         *)
(* Variables that the code declares in both phases (i, r, hashLen,         *)
(* lenIndices) are shared, their scopes being disjoint.                    *)
(***************************************************************************)
EXTENDS EquihashCollide, EquihashVerify

CONSTANT BaseStates

VARIABLES
    base_state,     \* the const eh_HashState& the rows are expanded from
    pc,             \* where the solver is
    probe,          \* label of the probe the last step asked, or "none"
    gen,            \* loop counter of the row generation loops (i at 415, j at 533)
    Xt,             \* phase A: the truncated row list
    Xc,             \* phase A: the overflow buffer of the current round
    i,              \* phase A: start of the current run; phase B: the leaf
    posFree,        \* phase A: next slot the compaction writes
    r,              \* phase A: round; phase B: level in the slot vector
    hashLen,        \* bytes of hash left in each row
    lenIndices,     \* bytes of index history in each row
    partialSolns,   \* phase A output: sequences of truncated indices
    ps,             \* phase B: how many partial solutions were taken
    X,              \* phase B: slot vector of optional full-row lists
    ic,             \* phase B: the candidate list being built and merged
    rti,            \* phase B: leaf index of the right subtree
    solns           \* the solution set

vars == <<base_state, pc, probe, gen, Xt, Xc, i, posFree, r, hashLen, lenIndices,
          partialSolns, ps, X, ic, rti, solns>>

ILen == CollisionBitLength + 1
RecreateSize == UntruncateIndex(1, 0, ILen)     \* recreate_size
NoList == [occupied |-> FALSE, rows |-> <<>>]   \* boost::none
Some(L) == [occupied |-> TRUE, rows |-> L]

\* Lines 421 and 490: the round loop's test, then the final round's test;
\* an empty or single list skips the final round: its scan is empty, and
\* EndPhaseA follows the pending probe.
\* Mutant: the round loop runs while r <= K.
LoopHeadExtraRound(rr, L) ==
    CASE rr <= K /\ Len(L) > 0 -> "sort"
      [] Len(L) > 1            -> "finalSort"
      [] OTHER                 -> "finalCollide"

LoopHead(rr, L) ==
    CASE rr < K /\ Len(L) > 0 -> "sort"
      [] Len(L) > 1           -> "finalSort"
      [] OTHER                -> "finalCollide"

\* Lines 503-508: every pair of a final run gives a partial solution.
FinalPartials(L, i0, j, len, li) ==
    [n \in 1 .. Len(PairsOfRun(j)) |->
        GetTruncatedIndices(TruncatedMerge(L[i0 + PairsOfRun(j)[n][1] + 1],
                                           L[i0 + PairsOfRun(j)[n][2] + 1], len, li, 0),
                            len, 2 * li)]

Partial == partialSolns[ps]

Init ==
    /\ base_state \in BaseStates
    /\ pc = "gen"
    /\ probe = "none"
    /\ gen = 0
    /\ Xt = <<>>
    /\ Xc = <<>>
    /\ i = 0
    /\ posFree = 0
    /\ r = 1
    /\ hashLen = ExpandedHashLength
    /\ lenIndices = TruncBytes
    /\ partialSolns = <<>>
    /\ ps = 0
    /\ X = <<>>
    /\ ic = <<>>
    /\ rti = 0
    /\ solns = {}

-----------------------------------------------------------------------------
(* Phase A: the truncated solve (lines 406-516).                           *)

\* Lines 415-418: expand one seed into a truncated row.
GenerateRow ==
    /\ pc = "gen"
    /\ Xt' = Append(Xt, TruncatedRow(base_state, gen, ILen))
    /\ gen' = gen + 1
    /\ pc' = IF gen + 1 < InitSize THEN "gen" ELSE LoopHead(r, Xt')
    /\ probe' = "ListGeneration"
    /\ UNCHANGED <<base_state, Xc, i, posFree, r, hashLen, lenIndices,
                   partialSolns, ps, X, ic, rti, solns>>

\* Lines 426-432.
SortList ==
    /\ pc = "sort"
    /\ Xt' \in Sorts(Xt, CollisionByteLength)
    /\ i' = 0
    /\ posFree' = 0
    /\ Xc' = <<>>
    /\ pc' = "collide"
    /\ probe' = "ListSorting"
    /\ UNCHANGED <<base_state, gen, r, hashLen, lenIndices, partialSolns, ps, X, ic, rti, solns>>

\* Lines 433-465: one run; merges that look like duplicates are dropped.
CollideRun ==
    /\ pc = "collide"
    /\ i < Len(Xt) - 1
    /\ \E j \in {RunLength(Xt, i, CollisionByteLength)} :
       \E s \in {StoreInPlace(Xt, Xc \o TruncatedCollisions(Xt, i, j, hashLen, lenIndices),
                              posFree, i + j)} :
           /\ Xt' = s.X
           /\ Xc' = s.Xc
           /\ posFree' = s.posFree
           /\ i' = i + j
    /\ probe' = "ListColliding"
    /\ UNCHANGED <<base_state, pc, gen, r, hashLen, lenIndices, partialSolns, ps, X, ic, rti, solns>>

\* Lines 467-485.
EndRound ==
    /\ pc = "collide"
    /\ ~(i < Len(Xt) - 1)
    /\ \E s \in {StoreInPlace(Xt, Xc, posFree, Len(Xt))} : Xt' = Compact(s)
    /\ Xc' = <<>>
    /\ i' = 0
    /\ posFree' = 0
    /\ hashLen' = hashLen - CollisionByteLength
    /\ lenIndices' = 2 * lenIndices
    /\ r' = r + 1
    /\ pc' = LoopHead(r + 1, Xt')
    /\ probe' = "RoundEnd"
    /\ UNCHANGED <<base_state, gen, partialSolns, ps, X, ic, rti, solns>>

\* Lines 490-493.
FinalSort ==
    /\ pc = "finalSort"
    /\ Xt' \in Sorts(Xt, hashLen)
    /\ i' = 0
    /\ pc' = "finalCollide"
    /\ probe' = "FinalSorting"
    /\ UNCHANGED <<base_state, gen, Xc, posFree, r, hashLen, lenIndices, partialSolns, ps, X, ic, rti, solns>>

\* Lines 496-512: every pair of a final run is a partial solution; the
\* indices are not checked for distinctness here.
FinalCollideRun ==
    /\ pc = "finalCollide"
    /\ i < Len(Xt) - 1
    /\ \E j \in {RunLength(Xt, i, hashLen)} :
           /\ partialSolns' = partialSolns \o FinalPartials(Xt, i, j, hashLen, lenIndices)
           /\ i' = i + j
    /\ probe' = "FinalColliding"
    /\ UNCHANGED <<base_state, pc, gen, Xt, Xc, posFree, r, hashLen, lenIndices, ps, X, ic, rti, solns>>

\* Line 516: Xt goes out of scope before phase B.
EndPhaseA ==
    /\ pc = "finalCollide"
    /\ ~(i < Len(Xt) - 1)
    /\ pc' = "nextPartial"
    /\ Xt' = <<>>
    /\ probe' = "none"
    /\ UNCHANGED <<base_state, gen, Xc, i, posFree, r, hashLen, lenIndices, partialSolns, ps, X, ic, rti, solns>>

-----------------------------------------------------------------------------
(* Phase B: recreating the full indices (lines 520-594).                   *)

\* Line 522: take the next partial solution with an empty slot vector.
NextPartial ==
    /\ pc = "nextPartial"
    /\ ps < Len(partialSolns)
    /\ ps' = ps + 1
    /\ X' = <<>>
    /\ i' = 0
    /\ gen' = 0
    /\ ic' = <<>>
    /\ pc' = "partialGen"
    /\ probe' = "none"
    /\ UNCHANGED <<base_state, Xt, Xc, posFree, r, hashLen, lenIndices, partialSolns, rti, solns>>

\* Lines 591-594: every partial solution is done; return the set.
ReturnSolutions ==
    /\ pc = "nextPartial"
    /\ ps = Len(partialSolns)
    /\ pc' = "done"
    /\ probe' = "none"
    /\ UNCHANGED <<base_state, gen, Xt, Xc, i, posFree, r, hashLen, lenIndices,
                   partialSolns, ps, X, ic, rti, solns>>

\* Lines 533-543: one candidate full index for leaf i; after the last one
\* the walk up the slot vector starts at level 0.
GenerateCandidate ==
    /\ pc = "partialGen"
    /\ ic' = Append(ic, FullRow(base_state, UntruncateIndex(Partial[i + 1], gen, ILen)))
    /\ gen' = gen + 1
    /\ IF gen + 1 < RecreateSize
       THEN UNCHANGED <<pc, hashLen, lenIndices, rti, r>>
       ELSE /\ pc' = "tree"
            /\ hashLen' = ExpandedHashLength
            /\ lenIndices' = IndexBytes
            /\ rti' = i
            /\ r' = 0
    /\ probe' = "PartialGeneration"
    /\ UNCHANGED <<base_state, Xt, Xc, i, posFree, partialSolns, ps, X, solns>>

\* Lines 567-577: the slot of this size is free (or new): store ic there,
\* leave the loop and move to the next leaf.
StoreSubtree ==
    /\ pc = "tree"
    /\ r <= K
    /\ r < Len(X) => ~X[r + 1].occupied
    /\ X' = IF r < Len(X) THEN [X EXCEPT ![r + 1] = Some(ic)] ELSE Append(X, Some(ic))
    /\ i' = i + 1
    /\ gen' = 0
    /\ ic' = <<>>
    /\ pc' = IF i + 1 < SolnSize THEN "partialGen" ELSE "top"
    /\ probe' = "PartialIndexEnd"
    /\ UNCHANGED <<base_state, Xt, Xc, posFree, r, hashLen, lenIndices, partialSolns, ps, rti, solns>>

\* Lines 547-552: the slot is occupied: append its list to ic and sort.
\* One tie order is taken: CollideBranches merges every pair of each run,
\* symmetrically, so the multiset of rows it leaves does not depend on the
\* order of equal keys, and every later use of ic sorts it again or takes
\* its rows as a set.
MergeSort ==
    /\ pc = "tree"
    /\ r <= K
    /\ r < Len(X) /\ X[r + 1].occupied
    /\ ic' = OneSort(ic \o X[r + 1].rows, hashLen)
    /\ pc' = "branches"
    /\ probe' = "PartialSorting"
    /\ UNCHANGED <<base_state, gen, Xt, Xc, i, posFree, r, hashLen, lenIndices,
                   partialSolns, ps, X, rti, solns>>

\* Lines 553-566, 575: collide the two subtrees' candidates; the merged
\* list moves one level up and the slot is cleared.
\* Mutant: the slot is not cleared (X[r] = boost::none missing).
CollideSubtreesKeepSlot ==
    /\ pc = "branches"
    /\ \E lti \in {rti - 2 ^ r} :
       \E c \in {CollideBranches(ic, hashLen, lenIndices, CollisionByteLength, ILen,
                                 Partial[lti + 1], Partial[rti + 1])} :
           /\ Len(c) > 0
           /\ ic' = c
           /\ hashLen' = hashLen - CollisionByteLength
           /\ lenIndices' = 2 * lenIndices
           /\ rti' = lti
           /\ r' = r + 1
    /\ pc' = "tree"
    /\ probe' = "PartialSubtreeEnd"
    /\ UNCHANGED <<base_state, gen, Xt, Xc, i, posFree, partialSolns, ps, X, solns>>

CollideSubtrees ==
    /\ pc = "branches"
    /\ \E lti \in {rti - 2 ^ r} :
       \E c \in {CollideBranches(ic, hashLen, lenIndices, CollisionByteLength, ILen,
                                 Partial[lti + 1], Partial[rti + 1])} :
           /\ Len(c) > 0
           /\ ic' = c
           /\ X' = [X EXCEPT ![r + 1] = NoList]
           /\ hashLen' = hashLen - CollisionByteLength
           /\ lenIndices' = 2 * lenIndices
           /\ rti' = lti
           /\ r' = r + 1
    /\ pc' = "tree"
    /\ probe' = "PartialSubtreeEnd"
    /\ UNCHANGED <<base_state, gen, Xt, Xc, i, posFree, partialSolns, ps, solns>>

\* Lines 559-561, 588-589: no pair survived: the partial solution is
\* invalid; go to the next one.
AbandonPartial ==
    /\ pc = "branches"
    /\ Len(CollideBranches(ic, hashLen, lenIndices, CollisionByteLength, ILen,
                           Partial[rti - 2 ^ r + 1], Partial[rti + 1])) = 0
    /\ pc' = "nextPartial"
    /\ probe' = "none"
    /\ UNCHANGED <<base_state, gen, Xt, Xc, i, posFree, r, hashLen, lenIndices,
                   partialSolns, ps, X, ic, rti, solns>>

\* Lines 580-586: every row of the top slot is a solution.
CollectTop ==
    /\ pc = "top"
    /\ solns' = solns \cup {GetIndices(row, hashLen, lenIndices) : row \in ToSet(X[K + 1].rows)}
    /\ pc' = "nextPartial"
    /\ probe' = "PartialEnd"
    /\ UNCHANGED <<base_state, gen, Xt, Xc, i, posFree, r, hashLen, lenIndices,
                   partialSolns, ps, X, ic, rti>>

\* The probe answers true: throw solver_cancelled; no solution escapes.
Cancel ==
    /\ probe # "none"
    /\ pc # "cancelled"
    /\ pc' = "cancelled"
    /\ solns' = {}
    /\ probe' = "none"
    /\ UNCHANGED <<base_state, gen, Xt, Xc, i, posFree, r, hashLen, lenIndices,
                   partialSolns, ps, X, ic, rti>>

Terminated == pc \in {"done", "cancelled"} /\ UNCHANGED vars

Step ==
    \/ GenerateRow \/ SortList \/ CollideRun \/ EndRound
    \/ FinalSort \/ FinalCollideRun \/ EndPhaseA
    \/ NextPartial \/ ReturnSolutions \/ GenerateCandidate \/ StoreSubtree
    \/ MergeSort \/ CollideSubtrees \/ AbandonPartial \/ CollectTop

Next == Step \/ Cancel \/ Terminated

Spec == Init /\ [][Next]_vars /\ WF_vars(Step)

-----------------------------------------------------------------------------
TypeOK ==
    /\ pc \in {"gen", "sort", "collide", "finalSort", "finalCollide", "nextPartial",
              "partialGen", "tree", "branches", "top", "done", "cancelled"}
    /\ gen \in 0 .. InitSize
    /\ r \in 0 .. K
    /\ posFree \in 0 .. Len(Xt)
    /\ ps \in 0 .. Len(partialSolns)
    /\ \A q \in 1 .. Len(partialSolns) : partialSolns[q] \in [1 .. SolnSize -> 0 .. 2 ^ TruncBits - 1]
    /\ Len(X) <= K + 1
    /\ solns \subseteq Seq(Seeds)

\* Bit l of the leaf counter.
Bit(n, l) == (n \div 2 ^ l) % 2

\* The slot vector X of the reconstruction is a binary counter of the
\* leaves done: before leaf i, slot l holds a list exactly when bit l of i
\* is set, and after the last leaf only the top slot K does (the assert
\* X.size() == K+1 at line 581 and the dereference of X[K] after it).
SlotsCountLeaves ==
    /\ pc = "partialGen" =>
          /\ \A l \in 0 .. Len(X) - 1 : X[l + 1].occupied <=> Bit(i, l) = 1
          /\ \A l \in Len(X) .. K : Bit(i, l) = 0
    /\ pc = "top" =>
          /\ Len(X) = K + 1
          /\ \A l \in 0 .. K : X[l + 1].occupied <=> l = K

\* Every returned solution has 2^K pairwise distinct indices in canonical
\* order (spec P5): the left subtree of every node starts with the smaller
\* index.  Reconstruction checks distinctness and orders each merge.
SolutionsDistinctCanonical ==
    pc = "done" =>
        \A s \in solns :
            /\ Len(s) = SolnSize
            /\ IsInjective(s)
            /\ \A l \in 1 .. K : \A g \in 0 .. SolnSize \div 2 ^ l - 1 :
                  s[g * 2 ^ l + 1] < s[g * 2 ^ l + 2 ^ (l - 1) + 1]

\* Phase A's duplicate filter (lines 449-451) drops the subtree of s at
\* some level l < K: its leaves XOR to zero on every block and its
\* truncated indices pair up.
FilteredByPhaseA(bs, s) ==
    \E l \in 1 .. K - 1 : \E g \in 0 .. SolnSize \div 2 ^ l - 1 :
        LET lo == g * 2 ^ l + 1
            tr == [q \in 1 .. 2 ^ l |-> TruncateIndex(s[lo + q - 1], ILen)]
        IN  /\ \A b \in 1 .. K + 1 : XorOfLeaves(bs, s, lo, lo + 2 ^ l - 1)[b] = 0
            /\ \A v \in ToSet(tr) : Cardinality({q \in 1 .. 2 ^ l : tr[q] = v}) % 2 = 0

\* OptimisedSolve may miss a solution only through the duplicate filter
\* (spec P4): every other solution survives the truncated rounds and the
\* in-place compaction as a partial solution, whose leaves' truncations
\* may be ordered differently from the full indices, and is rebuilt by
\* phase B.
UnfilteredSolutionsFound ==
    pc = "done" =>
        \A s \in ValidSolutions(base_state) : ~FilteredByPhaseA(base_state, s) => s \in solns

\* Every solution OptimisedSolve returns passes IsValidSolution (spec P3,
\* and P4 with BasicSolve complete).
OptimisedSolutionsValid == pc = "done" => \A s \in solns : IsValidSolution(base_state, s)

\* Every solve returns or is cancelled: phase A's scans advance, and phase
\* B takes each partial solution once and each leaf once.
Termination == <>(pc \in {"done", "cancelled"})

=============================================================================
