--------------------------- MODULE MC_BasicSolve ---------------------------
(***************************************************************************)
(* K = 2, CollisionBitLength = 1: four seeds, three one-byte blocks of one *)
(* significant bit each.  Every one of the 2^12 hash states is solved.    *)
(***************************************************************************)
EXTENDS EquihashBasicSolve

MC_BaseStates == HashStates(Seeds, 0 .. 2 ^ CollisionBitLength - 1)
=============================================================================
