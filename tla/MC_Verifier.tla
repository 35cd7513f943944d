---------------------------- MODULE MC_Verifier ----------------------------
(***************************************************************************)
(* K = 2 rounds, CollisionBitLength = 1 (one-byte blocks, 4 seeds): every  *)
(* proposed solution of 4 indices and of the wrong lengths 2 and 3, over   *)
(* every hash state restricted to the indices it names.  Length 3 is the  *)
(* one the size check (line 601) alone keeps out of the pairing loop.      *)
(***************************************************************************)
EXTENDS EquihashVerifier

MC_SolutionCandidates ==
    [1 .. SolnSize -> Seeds] \cup [1 .. SolnSize \div 2 -> Seeds]
        \cup [1 .. SolnSize - 1 -> Seeds]

MC_RawValues == 0 .. 2 ^ CollisionBitLength - 1
=============================================================================
