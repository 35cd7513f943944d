------------------------- MODULE EquihashBasicSolve -------------------------
(***************************************************************************)
(* Equihash<N,K>::BasicSolve (equihash.cpp lines 207-318).                 *)
(*                                                                         *)
(* One action per stretch of code between two calls of the cancellation   *)
(* probe: generating one row, sorting, handling one run of colliding rows, *)
(* closing a round, the final sort, one run of the final round, and the    *)
(* return.  probe holds the label of the probe the last step ended with;   *)
(* Cancel is the probe answering true there, which throws                  *)
(* solver_cancelled and discards everything.                               *)
(***************************************************************************)
EXTENDS EquihashCollide, EquihashVerify

CONSTANT BaseStates     \* the hash states a solve may be given

VARIABLES
    base_state, \* the const eh_HashState& the rows are expanded from
    pc,         \* where the solver is
    gen,        \* the seed of the next row of the first list
    X,          \* the row list
    Xc,         \* the overflow buffer of the current round
    i,          \* start of the current run
    posFree,    \* next slot the compaction writes
    r,          \* round number
    hashLen,    \* bytes of hash left in each row
    lenIndices, \* bytes of index history in each row
    solns,      \* the solution set
    probe       \* label of the probe the last step asked, or "none"

vars == <<base_state, pc, gen, X, Xc, i, posFree, r, hashLen, lenIndices, solns, probe>>

\* Lines 225 and 288: the round loop's test, then the final round's test.
\* A list of at most one row skips the final round: its scan is empty, and
\* FinalEnd is the return that follows the pending probe.
\* Mutant: the round loop runs while r <= K.
LoopHeadExtraRound(rr, L) ==
    CASE rr <= K /\ Len(L) > 0 -> "sort"
      [] Len(L) > 1            -> "finalSort"
      [] OTHER                 -> "finalCollide"

LoopHead(rr, L) ==
    CASE rr < K /\ Len(L) > 0 -> "sort"
      [] Len(L) > 1           -> "finalSort"
      [] OTHER                -> "finalCollide"

\* Lines 301-308: the index histories of the distinct pairs of a final run.
\* Mutant: the final round without the DistinctIndices test.
FinalSolutionsNoDistinct(L, i0, j, len, li) ==
    { GetIndices(FullMerge(L[i0 + q[1] + 1], L[i0 + q[2] + 1], len, li, 0), len, 2 * li) :
        q \in ToSet(PairsOfRun(j)) }

FinalSolutions(L, i0, j, len, li) ==
    { GetIndices(FullMerge(L[i0 + q[1] + 1], L[i0 + q[2] + 1], len, li, 0), len, 2 * li) :
        q \in {q \in ToSet(PairsOfRun(j)) :
                 DistinctIndices(L[i0 + q[1] + 1], L[i0 + q[2] + 1], len, li)} }

Init ==
    /\ base_state \in BaseStates
    /\ pc = "gen"
    /\ gen = 0
    /\ X = <<>>
    /\ Xc = <<>>
    /\ i = 0
    /\ posFree = 0
    /\ r = 1
    /\ hashLen = ExpandedHashLength
    /\ lenIndices = IndexBytes
    /\ solns = {}
    /\ probe = "none"

\* Lines 219-222: expand one seed into a full row.
GenerateRow ==
    /\ pc = "gen"
    /\ X' = Append(X, FullRow(base_state, gen))
    /\ gen' = gen + 1
    /\ pc' = IF gen + 1 < InitSize THEN "gen" ELSE LoopHead(r, X')
    /\ probe' = "ListGeneration"
    /\ UNCHANGED <<base_state, Xc, i, posFree, r, hashLen, lenIndices, solns>>

\* Lines 230-236: sort on the first CollisionByteLength bytes.
SortList ==
    /\ pc = "sort"
    /\ X' \in Sorts(X, CollisionByteLength)
    /\ i' = 0
    /\ posFree' = 0
    /\ Xc' = <<>>
    /\ pc' = "collide"
    /\ probe' = "ListSorting"
    /\ UNCHANGED <<base_state, gen, r, hashLen, lenIndices, solns>>

\* Lines 237-262: one run of colliding rows: merge its distinct pairs into
\* Xc, then move rows from the back of Xc into the slots already read.
CollideRun ==
    /\ pc = "collide"
    /\ i < Len(X) - 1
    /\ \E j \in {RunLength(X, i, CollisionByteLength)} :
       \E s \in {StoreInPlace(X, Xc \o BasicCollisions(X, i, j, hashLen, lenIndices),
                              posFree, i + j)} :
           /\ X' = s.X
           /\ Xc' = s.Xc
           /\ posFree' = s.posFree
           /\ i' = i + j
    /\ probe' = "ListColliding"
    /\ UNCHANGED <<base_state, pc, gen, r, hashLen, lenIndices, solns>>

\* Lines 264-281: drain Xc, append the overflow or trim the table, and go
\* to the next round.
EndRound ==
    /\ pc = "collide"
    /\ ~(i < Len(X) - 1)
    /\ \E s \in {StoreInPlace(X, Xc, posFree, Len(X))} : X' = Compact(s)
    /\ Xc' = <<>>
    /\ i' = 0
    /\ posFree' = 0
    /\ hashLen' = hashLen - CollisionByteLength
    /\ lenIndices' = 2 * lenIndices
    /\ r' = r + 1
    /\ pc' = LoopHead(r + 1, X')
    /\ probe' = "RoundEnd"
    /\ UNCHANGED <<base_state, gen, solns>>

\* Lines 288-291: sort on all remaining hash bytes.
FinalSort ==
    /\ pc = "finalSort"
    /\ X' \in Sorts(X, hashLen)
    /\ i' = 0
    /\ pc' = "finalCollide"
    /\ probe' = "FinalSorting"
    /\ UNCHANGED <<base_state, gen, Xc, posFree, r, hashLen, lenIndices, solns>>

\* Lines 294-312: one run of the final round: every distinct pair is a
\* solution.
FinalCollideRun ==
    /\ pc = "finalCollide"
    /\ i < Len(X) - 1
    /\ \E j \in {RunLength(X, i, hashLen)} :
           /\ solns' = solns \cup FinalSolutions(X, i, j, hashLen, lenIndices)
           /\ i' = i + j
    /\ probe' = "FinalColliding"
    /\ UNCHANGED <<base_state, pc, gen, X, Xc, posFree, r, hashLen, lenIndices>>

\* Lines 316-317: return the solution set.
FinalEnd ==
    /\ pc = "finalCollide"
    /\ ~(i < Len(X) - 1)
    /\ pc' = "done"
    /\ probe' = "none"
    /\ UNCHANGED <<base_state, gen, X, Xc, i, posFree, r, hashLen, lenIndices, solns>>

\* The probe answers true: throw solver_cancelled; no solution escapes.
Cancel ==
    /\ probe # "none"
    /\ pc # "cancelled"
    /\ pc' = "cancelled"
    /\ solns' = {}
    /\ probe' = "none"
    /\ UNCHANGED <<base_state, gen, X, Xc, i, posFree, r, hashLen, lenIndices>>

Terminated == pc \in {"done", "cancelled"} /\ UNCHANGED vars

Step ==
    \/ GenerateRow \/ SortList \/ CollideRun \/ EndRound
    \/ FinalSort \/ FinalCollideRun \/ FinalEnd

Next == Step \/ Cancel \/ Terminated

\* The solver is a sequential loop: it keeps taking steps while it can.
Spec == Init /\ [][Next]_vars /\ WF_vars(Step)

-----------------------------------------------------------------------------
TypeOK ==
    /\ pc \in {"gen", "sort", "collide", "finalSort", "finalCollide", "done", "cancelled"}
    /\ gen \in 0 .. InitSize
    /\ r \in 1 .. K
    /\ i \in 0 .. Len(X)
    /\ posFree \in 0 .. Len(X)
    /\ hashLen \in {ExpandedHashLength - (rr - 1) * CollisionByteLength : rr \in 1 .. K}
    /\ solns \subseteq Seq(Seeds)

\* Every solution BasicSolve returns passes IsValidSolution (spec P2, P5):
\* the in-place rounds, the canonical merge order and the distinctness
\* checks together only build trees the verifier accepts.
SolutionsValid == pc = "done" => \A s \in solns : IsValidSolution(base_state, s)

(***************************************************************************)
(* Refinement: the caller sees nothing until the return, then the solution *)
(* set; a cancelled solve shows nothing.                                    *)
(***************************************************************************)
Solver == INSTANCE EquihashSolver
    WITH status <- IF pc \in {"done", "cancelled"} THEN pc ELSE "running",
         out    <- IF pc = "done" THEN solns ELSE {}

\* BasicSolve implements the abstract solve: over every tie order of the
\* unstable sorts it returns exactly the set of all solutions (no colliding
\* pair missed by the run scan, no row overwritten or dropped by the
\* in-place compaction), once, and a cancellation at any probe returns
\* nothing.
RefinesSolver == Solver!Spec

\* As above, and a solve that is not cancelled returns: each loop of the
\* solver makes progress.
RefinesFairSolver == Solver!FairSpec

=============================================================================
