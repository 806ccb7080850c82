--------------------------- MODULE MCDeployments ---------------------------
(* Model values for Deployments. *)
EXTENDS Deployments

CONSTANTS j1, j2, q1, w1

OneJob == {j1}
TwoJobs == {j1, j2}
OneOperator == {q1}
OneScanner == {w1}
=============================================================================
