---------------------------- MODULE RunLifecycle ----------------------------
(***************************************************************************)
(* What the execution queue of AI-PJM promises about its runs, without     *)
(* requests, sessions, leases or workers: a run is queued or blocked by    *)
(* the gate when it is created, only a queued run starts, a run that has   *)
(* ended stays as it ended, a task has at most one active run and no more  *)
(* than MaxConcurrency runs are running.  ExecutionRuns is shown to        *)
(* implement this module as long as its requests do not overlap.           *)
(* An operator X_Bug before an operator X is X with a bug, as there.       *)
(***************************************************************************)
EXTENDS Naturals, FiniteSets

CONSTANTS
    Runs,            \* identifiers a run may be given
    Tasks,           \* coding tasks
    MaxConcurrency,  \* settings.execution_max_concurrency
    NoTask           \* the task of a run that does not exist yet

ASSUME LifecycleAssumption ==
    /\ IsFiniteSet(Runs)
    /\ MaxConcurrency \in Nat
    /\ NoTask \notin Tasks

VARIABLES
    status,  \* status of every run, "none" before its creation
    taskOf   \* task of every run

vars == <<status, taskOf>>

\* ExecutionRunStatus, and the status of a row that is not there yet.
RunStatus == {"none", "queued", "running", "paused", "cancelled",
              "blocked", "failed", "succeeded"}

\* The statuses the idempotence check of create_execution_run looks for.
ActiveStatus == {"queued", "running", "paused"}

\* The statuses no handler starts from.
FinalStatus == {"cancelled", "blocked", "failed", "succeeded"}

ActiveRuns(t) == {r \in Runs : taskOf[r] = t /\ status[r] \in ActiveStatus}
Running == {r \in Runs : status[r] = "running"}

Init ==
    /\ status = [r \in Runs |-> "none"]
    /\ taskOf = [r \in Runs |-> NoTask]

-----------------------------------------------------------------------------

\* The gate passes and the task has no active run.
Enqueue(r, t) ==
    /\ status[r] = "none"
    /\ ActiveRuns(t) = {}
    /\ status' = [status EXCEPT ![r] = "queued"]
    /\ taskOf' = [taskOf EXCEPT ![r] = t]

\* The gate does not pass: the run is kept as a record of the refusal.
Block(r, t) ==
    /\ status[r] = "none"
    /\ status' = [status EXCEPT ![r] = "blocked"]
    /\ taskOf' = [taskOf EXCEPT ![r] = t]

\* A dispatch or a worker's claim.
Start_AtLimit(r) ==
    /\ status[r] = "queued"
    /\ Cardinality(Running) <= MaxConcurrency
    /\ status' = [status EXCEPT ![r] = "running"]
    /\ UNCHANGED taskOf
Start(r) ==
    /\ status[r] = "queued"
    /\ Cardinality(Running) < MaxConcurrency
    /\ status' = [status EXCEPT ![r] = "running"]
    /\ UNCHANGED taskOf

Pause(r) ==
    /\ status[r] = "queued"
    /\ status' = [status EXCEPT ![r] = "paused"]
    /\ UNCHANGED taskOf

Resume_Cancelled(r) ==
    /\ status[r] \in {"paused", "cancelled"}
    /\ status' = [status EXCEPT ![r] = "queued"]
    /\ UNCHANGED taskOf
Resume(r) ==
    /\ status[r] = "paused"
    /\ status' = [status EXCEPT ![r] = "queued"]
    /\ UNCHANGED taskOf

Cancel_Any(r) ==
    /\ status[r] # "none"
    /\ status' = [status EXCEPT ![r] = "cancelled"]
    /\ UNCHANGED taskOf
Cancel(r) ==
    /\ status[r] \in ActiveStatus
    /\ status' = [status EXCEPT ![r] = "cancelled"]
    /\ UNCHANGED taskOf

\* One or, when leases are recovered, several running runs end.
Finish(rs, outcome) ==
    /\ rs \subseteq Running
    /\ outcome \in {"failed", "succeeded"}
    /\ status' = [r \in Runs |-> IF r \in rs THEN outcome ELSE status[r]]
    /\ UNCHANGED taskOf

Next ==
    \/ \E r \in Runs, t \in Tasks : Enqueue(r, t) \/ Block(r, t)
    \/ \E r \in Runs : Start(r) \/ Pause(r) \/ Resume(r) \/ Cancel(r)
    \/ \E rs \in SUBSET Runs, outcome \in {"failed", "succeeded"} :
          Finish(rs, outcome)

Spec == Init /\ [][Next]_vars

-----------------------------------------------------------------------------

TypeOK ==
    /\ status \in [Runs -> RunStatus]
    /\ taskOf \in [Runs -> Tasks \cup {NoTask}]

\* A task never has two runs that are queued, running or paused.
OneActiveRun ==
    \A r1, r2 \in Runs :
        /\ status[r1] \in ActiveStatus
        /\ status[r2] \in ActiveStatus
        /\ taskOf[r1] = taskOf[r2]
        => r1 = r2

\* Never more running runs than the limit.
WithinCapacity == Cardinality(Running) <= MaxConcurrency

\* A run that has ended keeps its outcome, and no run changes its task.
FinalIsForever ==
    [][\A r \in Runs :
          /\ status[r] \in FinalStatus => status'[r] = status[r]
          /\ status[r] # "none" => taskOf'[r] = taskOf[r]]_vars
=============================================================================
