--------------------------- MODULE EquihashCollide ---------------------------
(***************************************************************************)
(* The collision reducer shared by BasicSolve, OptimisedSolve and          *)
(* CollideBranches: finding the run of rows that share a collision prefix  *)
(* (step 2b), enumerating the unordered pairs of a run in loop order       *)
(* (2c), and the in-place compaction of the produced rows into the slots   *)
(* already read (2d-2g).  X is 0-indexed in the code; the code's X[i] is   *)
(* L[i + 1] here, and i, j, posFree keep the code's values.                *)
(***************************************************************************)
EXTENDS EquihashRows

\* 2b: j = 1; while (i+j < X.size() && HasCollision(X[i], X[i+j], l)) j++;
RECURSIVE RunFrom(_, _, _, _)
RunFrom(L, i, j, l) ==
    IF i + j < Len(L) /\ HasCollision(L[i + 1], L[i + j + 1], l)
    THEN RunFrom(L, i, j + 1, l)
    ELSE j

\* Mutant: the run scan stops one row early.
RunLengthShort(L, i, l) == RunFrom(L, i, 1, l) - 1

RunLength(L, i, l) == RunFrom(L, i, 1, l)

\* 2c: the pairs (l, m), 0 <= l < m < j, in the order of the two loops.
PairsOfRun(j) ==
    FlattenSeq([a \in 1 .. j - 1 |-> [b \in 1 .. j - a |-> <<a - 1, a - 1 + b>>]])

\* 2c of BasicSolve: merge every pair of the run whose indices are distinct.
BasicCollisions(L, i, j, len, li) ==
    LET ok(q) == DistinctIndices(L[i + q[1] + 1], L[i + q[2] + 1], len, li)
        ps == SelectSeq(PairsOfRun(j), ok)
    IN [n \in 1 .. Len(ps) |->
          FullMerge(L[i + ps[n][1] + 1], L[i + ps[n][2] + 1], len, li, CollisionByteLength)]

(***************************************************************************)
(* 2d and 2e: while (posFree < limit && Xc.size() > 0)                     *)
(*     { X[posFree++] = Xc.back(); Xc.pop_back(); }                        *)
(***************************************************************************)
\* Mutant: what the store leaves in Xc is discarded (a fresh Xc per run).
StoreInPlaceDropRest(L, C, free, limit) ==
    LET cnt == IF free < limit THEN Min({limit - free, Len(C)}) ELSE 0
    IN [X       |-> [p \in 1 .. Len(L) |->
                       IF free < p /\ p <= free + cnt
                       THEN C[Len(C) - (p - free) + 1]
                       ELSE L[p]],
        Xc      |-> <<>>,
        posFree |-> free + cnt]

StoreInPlace(L, C, free, limit) ==
    LET cnt == IF free < limit THEN Min({limit - free, Len(C)}) ELSE 0
    IN [X       |-> [p \in 1 .. Len(L) |->
                       IF free < p /\ p <= free + cnt
                       THEN C[Len(C) - (p - free) + 1]
                       ELSE L[p]],
        Xc      |-> SubSeq(C, 1, Len(C) - cnt),
        posFree |-> free + cnt]

\* 2f and 2g: append what is left of Xc, or drop the unused tail of X.
\* Mutant: 2f missing, the overflow is dropped.
CompactNoOverflow(s) == SubSeq(s.X, 1, s.posFree)

Compact(s) ==
    IF Len(s.Xc) > 0 THEN s.X \o s.Xc ELSE SubSeq(s.X, 1, s.posFree)

(***************************************************************************)
(* IsProbablyDuplicate(indices, lenIndices) (lines 320-340): greedily pair *)
(* each unpaired position with the first later unpaired equal one; the     *)
(* history is a probable duplicate when every position is paired.          *)
(***************************************************************************)
\* Mutant: the outer test if (!checked_index[z]) missing.
RECURSIVE PairingNoCheck(_, _, _)
PairingNoCheck(ind, z, checked) ==
    IF z > Len(ind) THEN checked
    ELSE LET ys == {y \in z + 1 .. Len(ind) : ~checked[y] /\ ind[z] = ind[y]}
         IN  IF ys # {}
             THEN PairingNoCheck(ind, z + 1, [checked EXCEPT ![Min(ys)] = TRUE, ![z] = TRUE])
             ELSE PairingNoCheck(ind, z + 1, checked)

RECURSIVE Pairing(_, _, _)
Pairing(ind, z, checked) ==
    IF z > Len(ind) THEN checked
    ELSE LET ys == {y \in z + 1 .. Len(ind) : ~checked[y] /\ ind[z] = ind[y]}
         IN  IF ~checked[z] /\ ys # {}
             THEN Pairing(ind, z + 1, [checked EXCEPT ![Min(ys)] = TRUE, ![z] = TRUE])
             ELSE Pairing(ind, z + 1, checked)

IsProbablyDuplicate(ind, lenIndices) ==
    LET checked == Pairing(SubSeq(ind, 1, lenIndices), 1, [z \in 1 .. lenIndices |-> FALSE])
    IN  \A z \in 1 .. lenIndices : checked[z]

\* 2c of OptimisedSolve (lines 442-455): merge every pair of the run, and
\* drop a merge whose remaining hash is zero and whose truncated indices
\* pair up.
\* Mutant: the filter applied whatever the remaining hash.
TruncatedCollisionsAnyHash(L, i, j, len, li) ==
    LET merged == [n \in 1 .. Len(PairsOfRun(j)) |->
                     TruncatedMerge(L[i + PairsOfRun(j)[n][1] + 1],
                                    L[i + PairsOfRun(j)[n][2] + 1], len, li, CollisionByteLength)]
        keep(xi) == ~IsProbablyDuplicate(
                           GetTruncatedIndices(xi, len - CollisionByteLength, 2 * li), 2 * li)
    IN  SelectSeq(merged, keep)

TruncatedCollisions(L, i, j, len, li) ==
    LET merged == [n \in 1 .. Len(PairsOfRun(j)) |->
                     TruncatedMerge(L[i + PairsOfRun(j)[n][1] + 1],
                                    L[i + PairsOfRun(j)[n][2] + 1], len, li, CollisionByteLength)]
        keep(xi) == ~(/\ IsZero(xi, len - CollisionByteLength)
                      /\ IsProbablyDuplicate(
                           GetTruncatedIndices(xi, len - CollisionByteLength, 2 * li), 2 * li))
    IN  SelectSeq(merged, keep)

(***************************************************************************)
(* CollideBranches (lines 342-392): one round of the reducer on the merged *)
(* candidate lists of two sibling subtrees, keeping a distinct pair only   *)
(* when one row's leftmost index truncates to lt and the other's to rt,    *)
(* and merging it with the lt row as the first argument.                   *)
(***************************************************************************)
\* Mutant: CollideBranches without the DistinctIndices test.
BranchCollisionsNoDistinct(L, i, j, hlen, li, clen, ilen, lt, rt) ==
    LET a(q) == L[i + q[1] + 1]
        b(q) == L[i + q[2] + 1]
        ltFirst(q) == IsValidBranch(a(q), hlen, ilen, lt) /\ IsValidBranch(b(q), hlen, ilen, rt)
        rtFirst(q) == IsValidBranch(b(q), hlen, ilen, lt) /\ IsValidBranch(a(q), hlen, ilen, rt)
        ps == SelectSeq(PairsOfRun(j), LAMBDA q : ltFirst(q) \/ rtFirst(q))
    IN  [n \in 1 .. Len(ps) |->
           IF ltFirst(ps[n]) THEN FullMerge(a(ps[n]), b(ps[n]), hlen, li, clen)
                             ELSE FullMerge(b(ps[n]), a(ps[n]), hlen, li, clen)]

BranchCollisions(L, i, j, hlen, li, clen, ilen, lt, rt) ==
    LET a(q) == L[i + q[1] + 1]
        b(q) == L[i + q[2] + 1]
        ltFirst(q) == IsValidBranch(a(q), hlen, ilen, lt) /\ IsValidBranch(b(q), hlen, ilen, rt)
        rtFirst(q) == IsValidBranch(b(q), hlen, ilen, lt) /\ IsValidBranch(a(q), hlen, ilen, rt)
        ok(q) == DistinctIndices(a(q), b(q), hlen, li) /\ (ltFirst(q) \/ rtFirst(q))
        merge(q) == IF ltFirst(q) THEN FullMerge(a(q), b(q), hlen, li, clen)
                                  ELSE FullMerge(b(q), a(q), hlen, li, clen)
    IN  CHOOSE res \in {[n \in 1 .. Len(ps) |-> merge(ps[n])] : ps \in {SelectSeq(PairsOfRun(j), ok)}} :
            TRUE

\* The intermediate values of a step (the run length, the rows it yields,
\* the store) are bound by set comprehensions, so that each is computed once.
RECURSIVE BranchScan(_, _, _, _, _, _, _, _, _, _)
BranchScan(L, i, free, C, hlen, li, clen, ilen, lt, rt) ==
    IF i < Len(L) - 1
    THEN LET step(j) == {StoreInPlace(L, C \o Cj, free, i + j) :
                            Cj \in {BranchCollisions(L, i, j, hlen, li, clen, ilen, lt, rt)}}
             next(j) == {BranchScan(s.X, i + j, s.posFree, s.Xc, hlen, li, clen, ilen, lt, rt) :
                            s \in step(j)}
         IN  CHOOSE res \in UNION {next(j) : j \in {RunLength(L, i, clen)}} : TRUE
    ELSE Compact(StoreInPlace(L, C, free, Len(L)))

CollideBranches(L, hlen, li, clen, ilen, lt, rt) ==
    BranchScan(L, 0, 0, <<>>, hlen, li, clen, ilen, lt, rt)

=============================================================================
