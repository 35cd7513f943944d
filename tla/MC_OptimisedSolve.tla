--------------------------- MODULE MC_OptimisedSolve ---------------------------
(* OptimisedSolve with K = 2 rounds, 1-bit collisions and 1-bit index       *)
(* truncations, so that reconstruction has two candidates per leaf, over    *)
(* every hash table of the 8 seeds.                                         *)
EXTENDS EquihashOptimisedSolve

MC_BaseStates == HashStates(Seeds, 0 .. 2 ^ CollisionBitLength - 1)

=============================================================================
