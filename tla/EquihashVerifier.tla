-------------------------- MODULE EquihashVerifier --------------------------
(***************************************************************************)
(* Equihash<N,K>::IsValidSolution: rebuild the reduction tree bottom-up    *)
(* from a proposed solution, checking at every level that each adjacent   *)
(* pair collides on the next block, is in canonical order and has          *)
(* distinct indices, and that the single remaining row hashes to zero.     *)
(*                                                                         *)
(* The state machine runs the steps of EquihashVerify one loop iteration  *)
(* at a time on a proposed solution chosen in Init.                        *)
(***************************************************************************)
EXTENDS EquihashVerify

CONSTANTS
    RawValues,          \* raw hash block values the base states range over
    SolutionCandidates  \* proposed solutions (sequences of seeds)

VARIABLES base_state, soln, X, hashLen, lenIndices, pc, result

vars == <<base_state, soln, X, hashLen, lenIndices, pc, result>>

(***************************************************************************)
(* The state machine.                                                      *)
(***************************************************************************)
Init ==
    /\ soln \in SolutionCandidates
    /\ base_state \in HashStates(ToSet(soln), RawValues)
    /\ X = <<>>
    /\ hashLen = 0
    /\ lenIndices = 0
    /\ pc = "start"
    /\ result = FALSE

\* Lines 600-604: a solution of the wrong size is rejected.
RejectSize ==
    /\ pc = "start"
    /\ Len(soln) # SolnSize
    /\ result' = FALSE
    /\ pc' = "done"
    /\ UNCHANGED <<base_state, soln, X, hashLen, lenIndices>>

\* Mutant: the size check at line 601 is missing.
ExpandRowsAnySize ==
    /\ pc = "start"
    /\ X' = [p \in 1 .. Len(soln) |-> FullRow(base_state, soln[p])]
    /\ hashLen' = ExpandedHashLength
    /\ lenIndices' = IndexBytes
    /\ pc' = "loop"
    /\ UNCHANGED <<base_state, soln, result>>

\* Lines 606-613: expand every index into a full row.
ExpandRows ==
    /\ pc = "start"
    /\ Len(soln) = SolnSize
    /\ X' = [p \in 1 .. Len(soln) |-> FullRow(base_state, soln[p])]
    /\ hashLen' = ExpandedHashLength
    /\ lenIndices' = IndexBytes
    /\ pc' = "loop"
    /\ UNCHANGED <<base_state, soln, result>>

\* Lines 614-636: one level of the tree, every pair passing.
MergeRound ==
    /\ pc = "loop"
    /\ Len(X) > 1
    /\ LevelOk(X, hashLen, lenIndices)
    /\ X' = MergeLevel(X, hashLen, lenIndices)
    /\ hashLen' = hashLen - CollisionByteLength
    /\ lenIndices' = 2 * lenIndices
    /\ UNCHANGED <<base_state, soln, pc, result>>

\* Lines 617-630: a pair that does not collide, is out of order or shares
\* an index returns false.
RejectPair ==
    /\ pc = "loop"
    /\ Len(X) > 1
    /\ ~LevelOk(X, hashLen, lenIndices)
    /\ result' = FALSE
    /\ pc' = "done"
    /\ UNCHANGED <<base_state, soln, X, hashLen, lenIndices>>

\* Lines 638-639: the last row must be zero on its remaining bytes.
CheckZero ==
    /\ pc = "loop"
    /\ Len(X) <= 1
    /\ result' = IsZero(X[1], hashLen)
    /\ pc' = "done"
    /\ UNCHANGED <<base_state, soln, X, hashLen, lenIndices>>

Done == pc = "done" /\ UNCHANGED vars

Next == RejectSize \/ ExpandRows \/ MergeRound \/ RejectPair \/ CheckZero \/ Done

Spec == Init /\ [][Next]_vars

-----------------------------------------------------------------------------
\* Types; and every level the pairing loop (lines 614-636) reads has a
\* power-of-two number of rows, so X[i+1] is never read past the end: only
\* the size check at line 601 guarantees this for proposals of odd length.
TypeOK ==
    /\ pc \in {"start", "loop", "done"}
    /\ result \in BOOLEAN
    /\ hashLen \in 0 .. ExpandedHashLength
    /\ pc = "loop" => Len(X) \in {2 ^ l : l \in 0 .. K}

\* IsValidSolution accepts a proposed solution exactly when it is a
\* solution by the reference definition: right length, distinct indices,
\* canonical order at every node, every subtree XOR zero on its levels.
VerifierMatchesReference == pc = "done" => (result <=> SolutionPredicate(base_state, soln))


=============================================================================
