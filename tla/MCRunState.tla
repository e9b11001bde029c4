------------------------------ MODULE MCRunState ------------------------------
(***************************************************************************)
(* RunState on a small instance.  Three tasks are one operation and two    *)
(* unreserved probes that can overtake its reading; the bounds are named   *)
(* in the README.                                                          *)
(***************************************************************************)
EXTENDS RunState, TLC

CONSTANTS t1, t2, t3

MCTasks == {t1, t2, t3}
TwoTasks == {t1, t2}
TaskSymmetry == Permutations(MCTasks)
==============================================================================
