--------------------------- MODULE MCMergeReview ---------------------------
(* Model values for MergeReview. *)
EXTENDS MergeReview

CONSTANTS q1, q2, k1

OneCaller == {q1}
OneSyncer == {q2}
NoSyncer == {}
OneCheck == {k1}
Ends == {"success", "failed"}
PendingAndEnds == {"pending", "success", "failed"}
LocalAndGitLab == {"local", "gitlab"}
GitLab == {"gitlab"}
GitHub == {"github"}
AnyCommit == {"base", "head", "none"}
TheBase == {"base"}
TheHead == {"head"}
TheRecorded == [base |-> {0}, head |-> {1}, none |-> {}]
HeadAndRepair == [head |-> {1, 2}]
=============================================================================
