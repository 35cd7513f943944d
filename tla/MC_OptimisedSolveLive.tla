----------------------- MODULE MC_OptimisedSolveLive -----------------------
(***************************************************************************)
(* K = 2, CollisionBitLength = 1, TruncBits = 1, on the 512 hash tables in *)
(* which seed 0 hashes to zero in every block: one eighth of all tables,   *)
(* on which every action of the solver, phase B merges included, fires.   *)
(***************************************************************************)
EXTENDS EquihashOptimisedSolve

MC_BaseStates == {b \in HashStates(Seeds, 0 .. 2 ^ CollisionBitLength - 1) : b[0] = [n \in 1 .. K + 1 |-> 0]}
=============================================================================
