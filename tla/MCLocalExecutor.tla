-------------------------- MODULE MCLocalExecutor --------------------------
(* Model values for LocalExecutor. *)
EXTENDS LocalExecutor

CONSTANTS c1, c2

ThreeFiles == 1 .. 3

\* ".backend/x", "backend/x" and "docs/x", with "backend" allowed: the first
\* cut is the second, the other two cut lie nowhere.
TheSecond == {2}
CutPaths == <<2, 0, 0>>

TwoChecks == {c1, c2}
Symmetry == {[c \in {c1, c2} |-> c], [c \in {c1, c2} |-> IF c = c1 THEN c2 ELSE c1]}
=============================================================================
