-------------------------- MODULE MCSymphonyWorker --------------------------
(* Model values for SymphonyWorker. *)
EXTENDS SymphonyWorker

CONSTANTS w1, w2, r1, r2

TwoWorkers == {w1, w2}
TwoRuns == {r1, r2}
OneRun == {r1}
=============================================================================
