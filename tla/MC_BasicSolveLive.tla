------------------------- MODULE MC_BasicSolveLive -------------------------
(***************************************************************************)
(* K = 2, CollisionBitLength = 1, three hash states chosen for their       *)
(* shapes: two runs of two rows that end in one solution; one run of all   *)
(* four rows whose six merges overflow the table (step 2f); runs of two    *)
(* rows whose merges never collide in the final round.                     *)
(***************************************************************************)
EXTENDS EquihashBasicSolve

MC_BaseStates ==
    { [s \in Seeds |-> <<s % 2, s \div 2, ((s % 2) + (s \div 2)) % 2>>],
      [s \in Seeds |-> <<0, s % 2, 1>>],
      [s \in Seeds |-> <<s \div 2, 0, s % 2>>] }
=============================================================================
