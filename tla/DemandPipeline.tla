--------------------------- MODULE DemandPipeline ---------------------------
(***************************************************************************)
(* One demand of AI-PJM on its way to a task that may be executed: specs,  *)
(* repository context, impact analysis, coding tasks, the manual approval  *)
(* and the gate before every run (DeliveryService and DeliveryGateEngine). *)
(*                                                                         *)
(* A stage loads its rows, awaits a workflow provider for seconds, and     *)
(* writes in one commit: XLoad and XCommit, as in ExecutionRuns, with the  *)
(* provider's failures and retries in between.  A session writes a column  *)
(* only when the new value differs from the one it has loaded.             *)
(* An operator X_Bug before an operator X is X with a bug: no part of the  *)
(* model.                                                                  *)
(***************************************************************************)
EXTENDS Naturals, FiniteSets

CONSTANTS
    MaxSpecs,   \* bound: spec cards of the demand
    MaxTasks,   \* bound: coding tasks of the demand
    Requests,   \* bound: requests served at a time
    Calls,      \* the calls that clients make
    External,   \* the workflow provider is openai or dify
    Fallback,   \* settings.ai_workflow_provider_fallback_enabled
    Attempts    \* settings.ai_workflow_provider_retry_attempts, at least 1

ASSUME PipelineAssumption ==
    /\ MaxSpecs \in Nat
    /\ MaxTasks \in Nat
    /\ External \in BOOLEAN
    /\ Fallback \in BOOLEAN
    /\ Attempts \in Nat \ {0}

Specs == 1 .. MaxSpecs    \* created_at grows with the id
Tasks == 1 .. MaxTasks

VARIABLES
    class,      \* what the gate engine makes of raw_input: risk, confidence
    verdict,    \* demand.manual_approval_status
    risk,       \* risk_level, none until a spec exists
    spec,       \* the status of every spec card
    context,    \* the status of the latest repository context
    task,       \* status and spec of every coding task
    approvals,  \* the tasks named by the passed manual gates, 0 for no task
    queued,     \* tasks for which the execution gate has ever let a run through
    active,     \* tasks with a run that is queued or running
    req         \* the request each slot serves

rows == <<class, verdict, risk, spec, context, task, approvals, queued,
          active>>
vars == <<class, verdict, risk, spec, context, task, approvals, queued,
          active, req>>

-----------------------------------------------------------------------------

Verdict == {"none", "approved", "rejected"}
SpecStatus == {"none", "manual_review", "approved"}
TaskStatus == {"none", "draft", "ready", "running", "blocked", "completed"}

Class == [risk : {"low", "high"}, confident : BOOLEAN]

\* The highest id that is in use, 0 if there is none.
Latest(ids, used) ==
    CHOOSE i \in {0} \cup ids :
        /\ i = 0 \/ i \in used
        /\ \A j \in used : j <= i
LatestSpec == Latest(Specs, {s \in Specs : spec[s] # "none"})
TaskStatusOf(t) == IF t = 0 THEN "none" ELSE task[t].status
LatestTask == Latest(Tasks, {t \in Tasks : task[t].status # "none"})

Ops == {"idle", "spec", "context", "impact", "task", "approve", "reject",
        "retry", "run"}

\* A request: what it has loaded (spec s, task t and the status of it, the
\* verdict) and what it has decided to write (out).
Request == [op : Ops, via : {"none", "primary", "fallback"},
            attempt : 0 .. Attempts, s : 0 .. MaxSpecs, t : 0 .. MaxTasks,
            task : TaskStatus, verdict : Verdict,
            out : {"none", "manual_review", "approved", "draft", "ready",
                   "queued", "blocked"}]

Idle == [op |-> "idle", via |-> "none", attempt |-> 0, s |-> 0, t |-> 0,
         task |-> "none", verdict |-> "none", out |-> "none"]

Arrives(q, call) == call \in Calls /\ req[q].op = "idle"

\* Request q is served and goes on with what it has loaded.
Begin(q, loaded) ==
    /\ req' = [req EXCEPT ![q] = loaded]
    /\ UNCHANGED rows

\* A stage that calls its provider first.
Asks(op, s, out) ==
    [Idle EXCEPT !.op = op, !.via = "primary", !.attempt = 1, !.s = s, !.out = out]

EndRequest(q) == req' = [req EXCEPT ![q] = Idle]

Flushed(current, loaded, new) == IF new = loaded THEN current ELSE new

-----------------------------------------------------------------------------
(* The provider: _run_provider_operation for specs and impact analyses; the *)
(* other stages call the provider once.                                     *)

\* An answer is missing, late, refused or malformed: AIServiceException.
\* Retries end after Attempts; then the local rules are asked, once.
ProviderFails_OneMore(q) ==
    /\ req[q].via # "none"
    /\ IF req[q].via = "primary" /\ req[q].op \in {"spec", "impact"}
       THEN IF req[q].attempt <= Attempts
            THEN req' = [req EXCEPT ![q].attempt = @ + 1]
            ELSE IF External /\ Fallback
                 THEN req' = [req EXCEPT ![q] = [@ EXCEPT !.attempt = 1,
                                                     !.via = "fallback"]]
                 ELSE EndRequest(q)
       ELSE EndRequest(q)
    /\ UNCHANGED rows
ProviderFails(q) ==
    /\ req[q].via # "none"
    /\ IF req[q].via = "primary" /\ req[q].op \in {"spec", "impact"}
       THEN IF req[q].attempt < Attempts
            THEN req' = [req EXCEPT ![q].attempt = @ + 1]
            ELSE IF External /\ Fallback
                 THEN req' = [req EXCEPT ![q] = [@ EXCEPT !.attempt = 1,
                                                     !.via = "fallback"]]
                 ELSE EndRequest(q)
       ELSE EndRequest(q)
    /\ UNCHANGED rows

-----------------------------------------------------------------------------
(* generate_spec *)

\* decide_spec_status
SpecDecision(automatic) ==
    IF class.risk = "low" /\ class.confident /\ automatic
    THEN "approved" ELSE "manual_review"

SpecLoad(q, automatic) ==
    /\ Arrives(q, "spec")
    /\ Begin(q, Asks("spec", 0, SpecDecision(automatic)))

SpecCommit(q) ==
    /\ req[q].op = "spec"
    /\ \E s \in Specs :
          /\ s = LatestSpec + 1
          /\ spec' = [spec EXCEPT ![s] = req[q].out]
    /\ risk' = class.risk
    /\ EndRequest(q)
    /\ UNCHANGED <<class, verdict, context, task, approvals, queued, active>>

-----------------------------------------------------------------------------
(* collect_repo_context and analyze_impact *)

\* Without force_refresh an existing context, ready or not, is returned.
ContextLoad(q, force) ==
    /\ Arrives(q, "context")
    /\ force \/ context = "none"
    /\ Begin(q, Asks("context", 0, "none"))

\* evaluate_repo_context on the confidence of the answer.
ContextCommit(q, confident) ==
    /\ req[q].op = "context"
    /\ context' = IF confident THEN "ready" ELSE "insufficient"
    /\ EndRequest(q)
    /\ UNCHANGED <<class, verdict, risk, spec, task, approvals, queued,
                   active>>

ImpactLoad(q) ==
    /\ Arrives(q, "impact")
    /\ Begin(q, Asks("impact", LatestSpec, "none"))

\* The row it adds has a risk and a status of its own, which no decision
\* looks at; the demand keeps the risk of its spec.
ImpactCommit(q) ==
    /\ req[q].op = "impact"
    /\ EndRequest(q)
    /\ UNCHANGED rows

-----------------------------------------------------------------------------
(* create_coding_task *)

\* has_manual_execution_approval: once recorded, an approval is found forever.
ManuallyApproved == approvals # {}

TaskDecision(s) ==
    IF spec[s] = "approved" /\ (risk = "low" \/ ManuallyApproved)
    THEN "ready" ELSE "draft"

TaskLoad(q, s) ==
    /\ Arrives(q, "task")
    /\ spec[s] # "none"
    /\ Begin(q, Asks("task", s, TaskDecision(s)))

TaskCommit(q) ==
    /\ req[q].op = "task"
    /\ \E t \in Tasks :
          /\ t = LatestTask + 1
          /\ task' = [task EXCEPT ![t] =
                        [status |-> req[q].out, spec |-> req[q].s]]
    /\ EndRequest(q)
    /\ UNCHANGED <<class, verdict, risk, spec, context, approvals, queued,
                   active>>

-----------------------------------------------------------------------------
(* record_manual_approval *)

DecisionLoad(q, call) ==
    /\ call \in {"approve", "reject"}
    /\ Arrives(q, call)
    /\ Begin(q, [Idle EXCEPT !.op = call, !.s = LatestSpec, !.t = LatestTask,
                             !.task = TaskStatusOf(LatestTask), !.verdict = verdict])

\* The task the request has loaded gets a new status.
TaskSet(q, new) ==
    [task EXCEPT ![req[q].t].status = Flushed(@, req[q].task, new)]

ApproveCommit(q) ==
    /\ req[q].op = "approve"
    /\ verdict' = Flushed(verdict, req[q].verdict, "approved")
    /\ spec' = [s \in Specs |-> IF s = req[q].s THEN "approved" ELSE spec[s]]
    /\ approvals' = approvals \cup {req[q].t}
    /\ task' = IF req[q].task = "draft" THEN TaskSet(q, "ready") ELSE task
    /\ EndRequest(q)
    /\ UNCHANGED <<class, risk, context, queued, active>>

RejectCommit(q) ==
    /\ req[q].op = "reject"
    /\ verdict' = Flushed(verdict, req[q].verdict, "rejected")
    /\ task' = IF req[q].task \in {"draft", "ready"}
               THEN TaskSet(q, "blocked") ELSE task
    /\ EndRequest(q)
    /\ UNCHANGED <<class, risk, spec, context, approvals, queued, active>>

-----------------------------------------------------------------------------
(* create_execution_run and retry_coding_task_execution, up to the gate. *)

\* evaluate_execution_allowed on the task status the session sees.
ExecutionAllowed(status) ==
    /\ status = "ready"
    /\ ManuallyApproved \/ risk # "high"

GateDecision(status) ==
    IF ExecutionAllowed(status) THEN "queued" ELSE "blocked"

RunLoad(q, t) ==
    /\ Arrives(q, "run")
    /\ task[t].status # "none"
    /\ Begin(q, [Idle EXCEPT !.op = "run", !.t = t, !.out = GateDecision(task[t].status)])

\* A refused run is only a record.
RunCommit(q) ==
    /\ req[q].op = "run"
    /\ IF req[q].out = "queued"
       THEN /\ queued' = queued \cup {req[q].t}
            /\ active' = active \cup {req[q].t}
       ELSE UNCHANGED <<queued, active>>
    /\ EndRequest(q)
    /\ UNCHANGED <<class, verdict, risk, spec, context, task, approvals>>

RetryLoad_AnyRisk(q, t) ==
    /\ Arrives(q, "retry")
    /\ task[t].status \notin {"none", "running", "draft"}
    /\ Begin(q, [Idle EXCEPT !.op = "retry", !.t = t, !.task = task[t].status])
RetryLoad_AnyStatus(q, t) ==
    /\ Arrives(q, "retry")
    /\ risk = "high" => ManuallyApproved
    /\ task[t].status \notin {"none", "running"}
    /\ Begin(q, [Idle EXCEPT !.op = "retry", !.t = t, !.task = task[t].status])
RetryLoad(q, t) ==
    /\ Arrives(q, "retry")
    /\ risk = "high" => ManuallyApproved
    /\ task[t].status \notin {"none", "running", "draft"}
    /\ Begin(q, [Idle EXCEPT !.op = "retry", !.t = t, !.task = task[t].status])

\* A blocked or completed task becomes ready in a commit of its own; then the
\* same session creates the run.
RetryCommit(q) ==
    /\ req[q].op = "retry"
    /\ task' = TaskSet(q, "ready")
    /\ req' = [req EXCEPT ![q] = [Idle EXCEPT !.op = "run", !.t = req[q].t,
                                             !.out = GateDecision("ready")]]
    /\ UNCHANGED <<class, verdict, risk, spec, context, approvals, queued, active>>

-----------------------------------------------------------------------------
(* The environment. *)

\* A run of task t starts or ends (see ExecutionRuns); a cancelled one that
\* had not started leaves the task ready.
ExecutionMoves(t) ==
    /\ t \in active
    /\ \/ /\ task[t].status # "running"
          /\ task' = [task EXCEPT ![t].status = "running"]
          /\ UNCHANGED active
       \/ /\ \E ended \in {"completed", "blocked", "ready"} :
                task' = [task EXCEPT ![t].status = ended]
          /\ active' = active \ {t}
    /\ UNCHANGED <<class, verdict, risk, spec, context, approvals, queued, req>>

\* A rollback, or the backend dies.
Abandon(q) ==
    /\ req[q].op # "idle"
    /\ EndRequest(q)
    /\ UNCHANGED rows

-----------------------------------------------------------------------------

Init ==
    /\ class \in Class
    /\ verdict = "none"
    /\ risk = "none"
    /\ spec = [s \in Specs |-> "none"]
    /\ context = "none"
    /\ task = [t \in Tasks |-> [status |-> "none", spec |-> 0]]
    /\ approvals = {}
    /\ queued = {}
    /\ active = {}
    /\ req = [q \in Requests |-> Idle]

Stage(q) ==
    \/ \E automatic \in BOOLEAN : SpecLoad(q, automatic)
    \/ \E force \in BOOLEAN : ContextLoad(q, force)
    \/ ImpactLoad(q)
    \/ \E s \in Specs : TaskLoad(q, s)
    \/ SpecCommit(q)
    \/ \E confident \in BOOLEAN : ContextCommit(q, confident)
    \/ ImpactCommit(q)
    \/ TaskCommit(q)

Decision(q) ==
    \/ \E call \in {"approve", "reject"} : DecisionLoad(q, call)
    \/ ApproveCommit(q) \/ RejectCommit(q)

Start(q) ==
    \/ \E t \in Tasks : RunLoad(q, t) \/ RetryLoad(q, t)
    \/ RunCommit(q) \/ RetryCommit(q)

Next ==
    \/ \E q \in Requests :
          Stage(q) \/ ProviderFails(q) \/ Decision(q) \/ Start(q) \/ Abandon(q)
    \/ \E t \in Tasks : ExecutionMoves(t)

Spec == Init /\ [][Next]_vars

-----------------------------------------------------------------------------
(* Properties. *)

TypeOK ==
    /\ class \in Class
    /\ verdict \in Verdict
    /\ risk \in {"none", class.risk}
    /\ spec \in [Specs -> SpecStatus]
    /\ context \in {"none", "ready", "insufficient"}
    /\ task \in [Tasks -> [status : TaskStatus, spec : 0 .. MaxSpecs]]
    /\ approvals \subseteq 0 .. MaxTasks
    /\ queued \subseteq Tasks
    /\ active \subseteq queued
    /\ req \in [Requests -> Request]

\* A high-risk demand is never executed, and none of its tasks is ready, as
\* long as no human has approved it: whatever stages, retries, rejections and
\* runs overlap (decide_spec_status, create_coding_task, the retry's check and
\* evaluate_execution_allowed all take part).
HighRiskIsReviewed ==
    class.risk = "high" /\ approvals = {} =>
        /\ queued = {}
        /\ \A t \in Tasks : task[t].status \in {"none", "draft", "blocked"}

\* A draft task leaves that state by a human decision only: it becomes ready
\* in the step that records an approval of this very task, or blocked.
DraftNeedsDecision ==
    [][\A t \in Tasks :
          task[t].status = "draft" /\ task'[t].status # "draft" =>
              \/ task'[t].status = "blocked"
              \/ /\ task'[t].status = "ready"
                 /\ t \in approvals']_vars
=============================================================================
