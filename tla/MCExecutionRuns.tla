-------------------------- MODULE MCExecutionRuns --------------------------
(***************************************************************************)
(* Small instances of ExecutionRuns for TLC.  Each configuration chooses   *)
(* the calls its clients make.                                             *)
(***************************************************************************)
EXTENDS ExecutionRuns, TLC

CONSTANTS t1, t2, w1, w2, q1, q2

OneTask == {t1}
TwoTasks == {t1, t2}
NoHighRisk == {}
RiskyTask == {t1}

OneWorker == {w1}
TwoWorkers == {w1, w2}

OneRequest == {q1}
TwoRequests == {q1, q2}

LocalOnly == {"local"}
SymphonyOnly == {"symphony"}
BothKinds == {"local", "symphony"}

AllCalls == {"create", "retry", "dispatch", "pause", "resume", "cancel",
             "claim", "heartbeat", "complete", "recover", "approve", "reject"}
NoResumeCalls == AllCalls \ {"resume"}
CreateCalls == {"create"}
ControlCalls == {"create", "claim", "pause", "resume"}
RecoveryCalls == {"create", "retry", "dispatch", "cancel", "claim",
                  "heartbeat", "complete", "recover"}
DeferCalls == {"create", "dispatch", "claim", "recover"}
StartCalls == {"create", "dispatch", "claim"}
CancelCalls == {"create", "claim", "complete", "cancel"}
RerunCalls == {"create", "dispatch", "claim", "cancel", "retry"}

Symmetry == Permutations(Workers) \cup Permutations(Requests)
=============================================================================
