------------------------- MODULE MC_ProbablyDuplicate -------------------------
(* IsProbablyDuplicate (lines 320-340) on every history of 2, 4 and 8       *)
(* truncated indices over three values, against the counting definition.    *)
EXTENDS EquihashCollide

VARIABLE ind    \* a truncated index history

Init == ind \in UNION {[1 .. n -> 0 .. 2] : n \in {2, 4, 8}}

Next == UNCHANGED ind

Spec == Init /\ [][Next]_ind

\* The greedy first-match pairing of IsProbablyDuplicate covers every
\* position exactly when every value occurs an even number of times in the
\* history: the filter of phase A drops precisely these merges.
PairingMatchesCounts ==
    IsProbablyDuplicate(ind, Len(ind))
        <=> \A v \in ToSet(ind) : Cardinality({p \in 1 .. Len(ind) : ind[p] = v}) % 2 = 0

=============================================================================
