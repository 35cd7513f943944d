---------------------------- MODULE EquihashSolver ----------------------------
(***************************************************************************)
(* What a solve promises (spec section 4, P2, P5 and "no partial results"): *)
(* given a base hash state it either returns, in one step, the set of all   *)
(* Equihash solutions of that state, or it is cancelled and returns         *)
(* nothing.  EquihashBasicSolve implements it.                              *)
(***************************************************************************)
EXTENDS EquihashVerify

CONSTANT BaseStates

VARIABLES
    base_state, \* the hash state the solve was given
    status,     \* "running", "done" or "cancelled"
    out         \* the solution set seen by the caller

vars == <<base_state, status, out>>

\* The solution set of every hash state the solve may be given.
Solutions == [bs \in BaseStates |-> ValidSolutions(bs)]

Init ==
    /\ base_state \in BaseStates
    /\ status = "running"
    /\ out = {}

\* The solve returns every solution there is, and nothing else.
Return ==
    /\ status = "running"
    /\ status' = "done"
    /\ out' = Solutions[base_state]
    /\ UNCHANGED base_state

\* The cancellation probe answers true: solver_cancelled is thrown.
Cancel ==
    /\ status = "running"
    /\ status' = "cancelled"
    /\ UNCHANGED <<base_state, out>>

Next == Return \/ Cancel

Spec == Init /\ [][Next]_vars

\* A solve that is not cancelled returns.
FairSpec == Spec /\ WF_vars(Return)

=============================================================================
