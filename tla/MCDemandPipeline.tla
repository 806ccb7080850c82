-------------------------- MODULE MCDemandPipeline --------------------------
(* Model values and call sets for DemandPipeline. *)
EXTENDS DemandPipeline, TLC

CONSTANTS q1, q2

TwoRequests == {q1, q2}
Symmetry == Permutations(Requests)

AllCalls == {"spec", "context", "impact", "task", "approve", "reject", "run",
             "retry"}
=============================================================================
