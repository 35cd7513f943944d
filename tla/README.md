# TLA+ models of the Equihash solvers and verifier

This directory models `src/src/crypto/equihash.cpp`, the Equihash
proof-of-work engine: the row algebra, the collision reducer, the two solvers
(`BasicSolve`, `OptimisedSolve`) and the verifier (`IsValidSolution`).
Everything is checked with TLC over scaled-down parameters.

## The system

Equihash<N,K> looks for 2^K distinct seeds whose expanded hashes XOR to zero.
Each seed's hash is split into K+1 blocks of `CollisionBitLength = N/(K+1)`
bits. The solution must also form a binary tree in which the two halves
of every node collide on one more block, and the left half starts with the
smaller index (canonical order, spec I3).

- **Row algebra** (lines 26-205):
  - A row holds hash bytes followed by its index history.
  - A full row stores 32-bit big-endian indices. A truncated row stores 8-bit
    truncations `(i >> (ilen-8)) & 0xff`.
  - Merging two rows XORs their bytes from `trim` to `len`. It then appends
    the two histories, the one that `IndicesBefore` the other first.
  - The predicates are `HasCollision`, `IsZero`, `DistinctIndices` and
    `IsValidBranch`. The list is ordered with `CompareSR`.
- **Collision reducer** (steps 2b-2g, repeated in both solvers and in
  `CollideBranches`, lines 237-281, 342-392, 433-485):
  - A sorted list is scanned run by run. Each run is a maximal group of rows
    sharing the next block.
  - Every pair of a run is merged, through a filter, into the buffer `Xc`.
  - The buffer is moved back into the slots already read (2d). What is left
    is drained after the scan (2e).
  - Any overflow is then appended (2f), or else the table is cut to the
    slots written (2g).
- **BasicSolve** (207-318):
  - Generates 2^(CBitL+1) full rows.
  - Runs K-1 reducer rounds with `DistinctIndices` as the filter.
  - A final round collides on all remaining bytes and collects the distinct
    pairs as solutions.
- **OptimisedSolve** (394-595):
  - Phase A runs the same rounds on truncated rows. Its filter is
    `IsProbablyDuplicate`, applied when the remaining hash is zero. The
    final round's pairs become *partial solutions* (sequences of
    truncations).
  - Phase B rebuilds each partial solution leaf by leaf. For each leaf it
    generates the `recreate_size` seeds with that truncation.
  - The rebuilt lists are kept in a slot vector `X` of optional lists, one
    slot per subtree size. Whenever a slot is already full, its list is
    merged with the new one and the two are collided with `CollideBranches`.
  - The rows of the top slot are the solutions.
- **IsValidSolution** (597-640) rebuilds the tree bottom-up. At each level
  it checks collision, order and distinctness. At the end it checks that
  the last row is zero.
- **Cancellation:**
  - Every loop asks `cancelled(label)`. A true answer throws
    `solver_cancelled` and discards everything.
  - This is the only interaction with another actor. The solvers are
    otherwise sequential.

The header `equihash.h` is not in the source tree. `IndicesBefore`,
`DistinctIndices`, `IsValidBranch` and `CompareSR` are therefore modelled
from the spec (marked `spec_modelled` in `PROJECT.json`):
- `IndicesBefore` is the lexicographic (memcmp) order of the histories.
- `DistinctIndices` means all indices of the two rows are pairwise distinct.
- `IsValidBranch` means the leftmost index truncates to the given value.

## Abstractions

- **Hash.** Blake2b is replaced by its output. `base_state` is a function
  from a seed to its K+1 raw blocks. Masking (line 88) keeps the low
  `CollisionBitLength` bits of each block. The models range over *every*
  table, which covers anything the hash can return.
- **Bytes.** A row's hash is a sequence of blocks of `CollisionByteLength`
  bytes. Every length the code uses is a multiple of this, so a byte length
  `len` is `len \div CollisionByteLength` blocks. Index histories are
  sequences of integers, and `lenIndices` stays a byte count as in the code.
- **Truncation.** The truncation width is the constant `TruncBits` (8 in the
  code). This lets a model with 2-bit indices drop one bit and force phase B
  to choose among two candidates per leaf.
- **Sorting.** `std::sort` is not stable. `Sorts(X, len)` is every
  arrangement of the rows (by position, so equal rows stay distinct) whose
  keys are non-decreasing, so each order of ties is explored. The phase B
  sort (line 551) is the one exception: `OneSort` takes one order, with ties
  broken by the index history. This is sound because `CollideBranches`
  merges every pair of each run symmetrically. `Combine` puts the histories
  in `IndicesBefore` order and XOR is symmetric. The multiset of rows it
  leaves therefore does not depend on the tie order, and every later use of
  `ic` sorts it again or takes its rows as a set. Exploring every tie order
  there as well multiplies the state space past what TLC can finish.
- **Evaluation.** The recursive scan `BranchScan` and the collisions of a
  run bind their intermediate values with set comprehensions
  (`CHOOSE res \in {... : s \in {...}} : TRUE`) instead of `LET`. The two
  mean the same. TLC does not cache `LET` values when it evaluates
  `ENABLED` for fairness, so the `LET` form costs exponential time in
  liveness runs.
- **Control.** One action per stretch of code between two probes. A list
  of at most one row after the rounds skips the final round (lines 288
  and 490). The model then goes to the final stage, whose scan is empty.
  `FinalEnd` (or `EndPhaseA`) is the return after the pending probe, so a
  cancellation at that probe is still possible, and a returned solve is
  never cancelled afterwards. The probe
  is remembered in `probe`, and `Cancel` is the probe answering true. Pure
  loops inside a stretch are operators:
  - `RunLength` for 2b;
  - `PairsOfRun` for the 2c loop order;
  - `StoreInPlace` for 2d/2e;
  - `Compact` for 2f/2g;
  - `CollideBranches` as a whole.
- **Left out:**
  - logging;
  - `invalidCount` (never read);
  - the index byte encoding;
  - `InitialiseState`;
  - the explicit instantiations (real parameter sets have 2^21 rows).

## Modules

| module | models | state / actions |
|---|---|---|
| `EquihashRows` | row algebra, sort | operators: `ExpandHash`, `FullRow`, `TruncatedRow`, `TruncateIndex`, `UntruncateIndex`, `Combine`/`FullMerge`/`TruncatedMerge`, `HasCollision`, `IsZero`, `DistinctIndices`, `IsValidBranch`, `Sorts`, `OneSort` |
| `EquihashCollide` | reducer | `RunLength`, `PairsOfRun`, `BasicCollisions`, `TruncatedCollisions`, `IsProbablyDuplicate`, `StoreInPlace`, `Compact`, `CollideBranches` |
| `EquihashVerify` | `IsValidSolution` as an operator, plus a reference definition | `VerifyTree`, `IsValidSolution`; reference `SolutionPredicate` (tree of XORs, injectivity, canonical order), `ValidSolutions` |
| `EquihashVerifier` | `IsValidSolution` as a state machine | `RejectSize`, `ExpandRows`, `MergeRound`, `RejectPair`, `CheckZero` |
| `EquihashBasicSolve` | `BasicSolve` | variables `X, Xc, i, posFree, r, hashLen, lenIndices, solns, probe`; actions `GenerateRow`, `SortList`, `CollideRun`, `EndRound`, `FinalSort`, `FinalCollideRun`, `FinalEnd`, `Cancel` |
| `EquihashSolver` | the abstract solver: what a solve promises (spec section 4, P2, P5, no partial results) | variables `base_state, status, out`; actions `Return` (the whole solution set `Solutions[base_state]`, in one step) and `Cancel`; `Spec` and `FairSpec` (weak fairness of `Return`) |
| `EquihashOptimisedSolve` | `OptimisedSolve` | phase A as in BasicSolve on `Xt`, plus `EndPhaseA`; phase B `NextPartial`, `GenerateCandidate`, `StoreSubtree`, `MergeSort`, `CollideSubtrees`, `AbandonPartial`, `CollectTop`, `ReturnSolutions` |
| `MC_*` | instantiations for TLC | |

Operators whose names end in a bug description are mutants used to check
that the properties can fail: `...NoDistinct`, `...ExtraRound`,
`...KeepSlot`, `...NoOverflow`, `...Short`, `...Unordered`, `...NoCheck`,
`...AnySize`, `...AnyHash`, `...DropRest`. No specification uses them.

## Refinement

`EquihashBasicSolve` defines `Solver == INSTANCE EquihashSolver` with the
refinement mapping:
- `status` is `pc` once the solver is done or cancelled, else `"running"`;
- `out` is `solns` once the solver is done, else `{}`.

Every solver step except `FinalEnd` and `Cancel` is a stuttering step of
the abstract solver. `FinalEnd` is its `Return` and must produce exactly
`Solutions[base_state]`, the reference set of `EquihashVerify`. `Cancel` is
its `Cancel`. `RefinesSolver == Solver!Spec` therefore says that BasicSolve
returns the exact solution set, for every tie order of its sorts, or
nothing. `RefinesFairSolver == Solver!FairSpec` adds that, under the
solver's fairness, it does return unless it is cancelled.

`OptimisedSolve` does not refine `EquihashSolver`: it may miss solutions
(spec P4), and it returns invalid ones (the finding below). Its properties
state instead what it does promise.

## Runs

| run | cfg | checks | result |
|---|---|---|---|
| `verifier` | `MC_Verifier.cfg` | `VerifierMatchesReference` | pass. For K=2 and 1-bit collisions, every table over the seeds used and every proposed sequence of length 4, 3 or 2: IsValidSolution is true exactly on the reference solutions, and `TypeOK` shows the pairing loop only sees power-of-two levels. Length 3 is what makes the size check at line 601 matter: without it the loop would read past the end (574,112 states) |
| `basic_exhaustive` | `MC_BasicSolve.cfg` | `SolutionsValid` (P2, P5), `RefinesSolver` | pass. For all 4096 tables and every tie order, BasicSolve implements the abstract solver: it returns exactly the valid solutions, or nothing when cancelled (351,040 states) |
| `basic_carry` | `MC_BasicSolveWide.cfg` | `RefinesSolver` | pass. 8 seeds and 2-bit blocks, on three tables in which the first run's ten merges overflow its five slots. Five rows wait in `Xc` while the second run is read and stored (2d), then they are appended (2f). The solution set is still exact for every tie order (17,481 states) |
| `basic_fair_refinement` | `MC_BasicSolveLive.cfg` | `RefinesFairSolver` | pass. Three tables with collisions in every round: unless cancelled, the solve returns the whole solution set (567 states) |
| `optimised_exhaustive` | `MC_OptimisedSolve.cfg` | `SlotsCountLeaves` (the assert at 581), `SolutionsDistinctCanonical` (P5), `UnfilteredSolutionsFound` | pass (511,040 states). `UnfilteredSolutionsFound` says that every valid solution is returned unless phase A's duplicate filter (line 449) drops one of its subtrees. The filter is therefore the only way OptimisedSolve misses a solution |
| `optimised_invalid` | `MC_OptimisedInvalid.cfg` | `OptimisedSolutionsValid` (P3) | **violation** (see below) |
| `optimised_termination` | `MC_OptimisedSolveLive.cfg` | `Termination` | pass. On the 512 tables in which seed 0 hashes to zero, every behaviour reaches `done` or `cancelled`, and every action fires (63,080 states) |
| `probably_duplicate` | `MC_ProbablyDuplicate.cfg` | `PairingMatchesCounts` | pass. All histories of 2, 4 and 8 entries over 3 values |

### Finding: OptimisedSolve returns invalid solutions

Take K=2 and 1-bit collisions (TLC's shortest counterexample). Seeds 0
and 2 hash to `000`, seed 1 to `010` and seed 3 to `011`.
- Phase A yields the partial solutions `<<0,0,0,1>>` and `<<0,1,1,1>>`.
  Their truncations repeat, but the duplicate filter lets them through
  because the remaining hash is not zero.
- Phase B gives each leaf the two candidates with that truncation.
  `CollideBranches` checks only that each side's *leftmost* index truncates
  to `lt`/`rt`. Rows built from one subtree can therefore pair with each
  other.
- It collides only on `CollisionByteLength` bytes. The last block is never
  tested for zero before line 582 inserts the rows.
- `<<0,2,1,3>>` and `<<0,3,1,2>>` are returned, but their XOR is `001`.
  IsValidSolution rejects them, which contradicts spec P3 and P4.

With real Blake2b output the last block is zero only by chance, so the
solver can emit solutions that fail verification. A miner would simply have
them rejected.

## Bounds and why they are enough

- **Main models: K=2, CollisionBitLength=1, TruncBits=1.** This means 4
  seeds, 3 blocks, 2-bit indices truncated to 1 bit (two candidates per
  leaf), and one ordinary round plus the final round. These cases all
  occur:
  - runs of length 1 to 4 (empty and full compaction);
  - overflow of `Xc` (2f) and truncation (2g);
  - duplicate indices in the final round;
  - ties in every sort;
  - partial solutions that are invalid (`AbandonPartial`), valid, or
    spurious;
  - every slot state of the reconstruction.

  Every action fires, and every table of the 4 seeds is explored.
- **Rounds.** K=2 has one reducer round before the final round. Compaction,
  merging and `CollideBranches` behave the same in every round. The slot
  vector's binary counting needs K ≥ 2 to reach a merge at level 1.
- **Carry-over.** With 4 seeds, rows never wait in `Xc` across a later
  run. A run of a rows yields a(a-1)/2 merges, which is at most a when
  a ≤ 3, and a run of 4 has no later run. `basic_carry` therefore uses 8
  seeds (CollisionBitLength=2) and three tables built for it: runs of 5
  and 3 rows, one solution each, and few ties in the final sort. The
  mutant that discards what is left in `Xc` after each run breaks it.
  A store that runs past the slots already read cannot be expressed. The
  model keeps merged rows one block shorter, so it cannot read a merged
  row as an unread one the way the C code would.
- **Verifier.** Its model ranges over every table of the indices used and
  every sequence of the seeds of length 4 (the right size), and 2 and 3
  (wrong sizes, one a power of two and one not).

## Fairness

Both solvers' `Spec` has `WF_vars(Step)` over the solver's own steps. The
solver is a sequential loop that keeps running while it can. The probe can
stop it, and that is not assumed to happen (`Cancel` is not fair). The
abstract `FairSpec` has the matching `WF_vars(Return)`.

The liveness runs use fewer tables than the safety runs:
- `basic_fair_refinement` uses three tables. On tables with many equal
  keys, TLC re-enumerates every tie order of `Sorts` to check each edge of
  the behaviour graph against the action. That is quadratic in the 720
  orders of six equal rows.
- `optimised_termination` uses the 512 tables in which seed 0 hashes to
  zero. Over all 4096 tables the run takes about five and a half minutes.

## Plan for later work

- A refinement from `EquihashVerifier` to the operator `IsValidSolution`.
- A model with K=3 for deeper slot vectors, if TLC can afford it.
