--------------------------- MODULE MCRunLifecycle ---------------------------
(***************************************************************************)
(* A small instance of RunLifecycle for TLC: two tasks, and enough runs    *)
(* for one of them to be retried twice.                                    *)
(***************************************************************************)
EXTENDS RunLifecycle, TLC

CONSTANTS r1, r2, r3, t1, t2

ThreeRuns == {r1, r2, r3}
TwoTasks == {t1, t2}

Symmetry == Permutations(Runs) \cup Permutations(Tasks)
=============================================================================
