---------------------------- MODULE EquihashRows ----------------------------
(***************************************************************************)
(* Row algebra of src/src/crypto/equihash.cpp: parameters, hash expansion, *)
(* index truncation, the StepRow / FullStepRow / TruncatedStepRow          *)
(* constructors and predicates, and the sort order CompareSR.              *)
(*                                                                         *)
(* A row's hash bytes are kept as a sequence of blocks of                  *)
(* CollisionByteLength bytes, each block the big-endian value of its       *)
(* bytes.  Every length the code passes (hashLen, trim, the collision      *)
(* length) is a multiple of CollisionByteLength, so a byte length len      *)
(* covers exactly the first len \div CollisionByteLength blocks.  A row's  *)
(* index history is the sequence of its indices (eh_index for full rows,   *)
(* eh_trunc for truncated rows); lenIndices is a byte count as in the code.*)
(*                                                                         *)
(* The Blake2b primitive is abstracted to its output: base_state is a      *)
(* function from a seed to the K+1 raw (unmasked) blocks the personalised  *)
(* hash yields for that seed.                                              *)
(***************************************************************************)
EXTENDS Integers, Sequences, FiniteSets, Bitwise, SequencesExt

CONSTANTS
    K,                  \* the Equihash parameter k: number of rounds
    CollisionBitLength, \* n/(k+1)
    TruncBits           \* bits of eh_trunc (8 in the code, scaled down in models)

ASSUME K \in Nat \ {0} /\ CollisionBitLength \in Nat \ {0} /\ TruncBits \in Nat \ {0}
ASSUME CollisionBitLength + 1 >= TruncBits

CollisionByteLength == (CollisionBitLength + 7) \div 8
ExpandedHashLength == (K + 1) * CollisionByteLength
IndexBytes == 4     \* sizeof(eh_index)
TruncBytes == 1     \* sizeof(eh_trunc)
InitSize == 2 ^ (CollisionBitLength + 1)    \* init_size
SolnSize == 2 ^ K                           \* soln_size
Seeds == 0 .. InitSize - 1
Blocks(len) == len \div CollisionByteLength

\* The values a raw hash block can take, and the hash states over them.
RawBlock == 0 .. 2 ^ (8 * CollisionByteLength) - 1
HashStates(S, Raw) == [S -> [1 .. K + 1 -> Raw]]

(***************************************************************************)
(* Index truncation (eh_trunc TruncateIndex, UntruncateIndex).             *)
(***************************************************************************)
TruncateIndex(i, ilen) == (i \div 2 ^ (ilen - TruncBits)) % 2 ^ TruncBits

UntruncateIndex(t, r, ilen) == (t * 2 ^ (ilen - TruncBits)) | r

(***************************************************************************)
(* StepRow(n, k, base_state, i): hash the little-endian seed and mask the  *)
(* high byte of every block with 0xFF >> (8*CollisionByteLength -          *)
(* CollisionBitLength), which keeps the low CollisionBitLength bits of the *)
(* big-endian block value.                                                 *)
(***************************************************************************)
ExpandHash(base_state, i) ==
    [b \in 1 .. K + 1 |-> base_state[i][b] % 2 ^ CollisionBitLength]

FullRow(base_state, i) == [h |-> ExpandHash(base_state, i), ix |-> <<i>>]

TruncatedRow(base_state, i, ilen) ==
    [h |-> ExpandHash(base_state, i), ix |-> <<TruncateIndex(i, ilen)>>]

(***************************************************************************)
(* Predicates on rows.                                                     *)
(***************************************************************************)
\* Lexicographic order on sequences of equal length (memcmp).
RECURSIVE LexLess(_, _)
LexLess(s, t) ==
    /\ s # <<>>
    /\ \/ s[1] < t[1]
       \/ s[1] = t[1] /\ LexLess(Tail(s), Tail(t))

HasCollision(a, b, l) == \A p \in 1 .. Blocks(l) : a.h[p] = b.h[p]

IsZero(a, len) == \A p \in 1 .. Blocks(len) : a.h[p] = 0

Indices(a, lenIndices, stride) == SubSeq(a.ix, 1, lenIndices \div stride)

\* equihash.h (not in the source tree): memcmp of the two index histories,
\* i.e. the lexicographically smaller history goes first (spec I3).
IndicesBefore(a, b, len, lenIndices) == LexLess(a.ix, b.ix)

\* equihash.h: the 2*lenIndices indices of the two rows, sorted, are
\* strictly increasing.
DistinctIndices(a, b, len, lenIndices) ==
    IsInjective(Indices(a, lenIndices, IndexBytes) \o Indices(b, lenIndices, IndexBytes))

\* equihash.h: the leftmost index of the row truncates to t.
IsValidBranch(a, len, ilen, t) == TruncateIndex(a.ix[1], ilen) = t

(***************************************************************************)
(* The merge constructors FullStepRow(a, b, len, lenIndices, trim) and     *)
(* TruncatedStepRow(a, b, len, lenIndices, trim): XOR of the hash bytes    *)
(* [trim, len), then the two index histories, the one IndicesBefore the    *)
(* other first.                                                            *)
(***************************************************************************)
XorHash(a, b, len, trim) ==
    [p \in 1 .. Blocks(len - trim) |->
        a.h[Blocks(trim) + p] ^^ b.h[Blocks(trim) + p]]

Combine(a, b, len, lenIndices, trim, stride) ==
    [h  |-> XorHash(a, b, len, trim),
     ix |-> IF IndicesBefore(a, b, len, lenIndices)
            THEN Indices(a, lenIndices, stride) \o Indices(b, lenIndices, stride)
            ELSE Indices(b, lenIndices, stride) \o Indices(a, lenIndices, stride)]

FullMerge(a, b, len, lenIndices, trim) == Combine(a, b, len, lenIndices, trim, IndexBytes)

TruncatedMerge(a, b, len, lenIndices, trim) == Combine(a, b, len, lenIndices, trim, TruncBytes)

GetIndices(a, len, lenIndices) == Indices(a, lenIndices, IndexBytes)

GetTruncatedIndices(a, len, lenIndices) == Indices(a, lenIndices, TruncBytes)

(***************************************************************************)
(* CompareSR(len): lexicographic order on the first len bytes.  std::sort  *)
(* is not stable, so sorting yields any arrangement in which the keys are  *)
(* non-decreasing.                                                         *)
(***************************************************************************)
Key(a, len) == SubSeq(a.h, 1, Blocks(len))

RECURSIVE Arrangements(_)
Arrangements(S) ==
    IF S = {} THEN {<<>>}
    ELSE UNION {{<<x>> \o t : t \in Arrangements(S \ {x})} : x \in S}

\* Rows with equal keys, in any order, one key after the other in
\* increasing order.  Ties are arranged by position, so equal rows are
\* kept as often as they occur.
Sorts(X, len) ==
    LET firsts == SelectSeq([p \in 1 .. Len(X) |-> p],
                            LAMBDA p : \A q \in 1 .. p - 1 : Key(X[q], len) # Key(X[p], len))
        keys == SortSeq([n \in 1 .. Len(firsts) |-> Key(X[firsts[n]], len)], LexLess)
        group(k) == {p \in 1 .. Len(X) : Key(X[p], len) = k}
        RECURSIVE Concat(_)
        Concat(ks) ==
            IF ks = <<>> THEN {<<>>}
            ELSE {a \o t : a \in Arrangements(group(Head(ks))), t \in Concat(Tail(ks))}
    IN {[q \in 1 .. Len(X) |-> X[perm[q]]] : perm \in Concat(keys)}

\* One of the sorts: equal keys ordered by their index histories.  Used
\* where the tie order cannot change the multiset of rows that follows.
RowBefore(a, b, len) ==
    \/ LexLess(Key(a, len), Key(b, len))
    \/ Key(a, len) = Key(b, len) /\ LexLess(a.ix, b.ix)

OneSort(X, len) == SortSeq(X, LAMBDA a, b : RowBefore(a, b, len))

=============================================================================
