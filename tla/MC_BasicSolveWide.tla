-------------------------- MODULE MC_BasicSolveWide --------------------------
(***************************************************************************)
(* K = 2, CollisionBitLength = 2: eight seeds and 2-bit blocks.  In each   *)
(* table five seeds share the first block and three share the other, so   *)
(* the first run's ten merges overflow its five slots: five rows wait in   *)
(* Xc while the second run is read and stored (2d), and the rest are      *)
(* appended after the scan (2f).  Each table has one solution, built from  *)
(* one pair of each run.                                                   *)
(***************************************************************************)
EXTENDS EquihashBasicSolve

\* Seed s hashes to T[s + 1].
Table(T) == [s \in Seeds |-> T[s + 1]]

MC_BaseStates ==
    { Table(<< <<0, 2, 3>>, <<0, 2, 0>>, <<1, 1, 2>>, <<1, 0, 0>>,
               <<0, 0, 2>>, <<1, 2, 3>>, <<0, 3, 2>>, <<0, 3, 0>> >>),
      Table(<< <<0, 1, 3>>, <<1, 2, 2>>, <<1, 1, 2>>, <<0, 1, 0>>,
               <<0, 3, 2>>, <<1, 3, 1>>, <<0, 2, 1>>, <<0, 0, 1>> >>),
      Table(<< <<0, 3, 3>>, <<1, 2, 2>>, <<1, 2, 1>>, <<0, 1, 0>>,
               <<0, 1, 2>>, <<1, 3, 0>>, <<0, 2, 3>>, <<0, 1, 3>> >>) }
=============================================================================
