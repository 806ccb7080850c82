---------------------------- MODULE ExecutionRuns ----------------------------
(***************************************************************************)
(* The execution queue of AI-PJM: the rows of execution_runs and           *)
(* coding_tasks, and the HTTP requests that change them (DeliveryService,  *)
(* the internal Symphony bridge and the manual approval of a demand).      *)
(* An operator X_Bug before an operator X is X with a bug: it is not part  *)
(* of the model, only the properties are tried on it.                      *)
(*                                                                         *)
(* A handler is an async coroutine with one database session: it reads the *)
(* rows it needs, decides, and writes them back in one commit.  So each    *)
(* handler is two actions.  XLoad(q, ...) is the reads of request q and    *)
(* the checks on what they returned; XCommit(q) is its flush and commit.   *)
(* The session writes a column only when the new value differs from the    *)
(* one it loaded, and writes it whatever the row has become meanwhile.     *)
(* Other requests may run in between, unless Serialized.                   *)
(***************************************************************************)
EXTENDS Naturals, FiniteSets

CONSTANTS
    MaxRuns,         \* bound: rows execution_runs can hold
    Tasks,           \* coding tasks, each the latest one of its demand
    HighRisk,        \* the tasks whose demand is classified L2 or L3
    Workers,         \* Symphony workers, by worker_id
    Kinds,           \* executor types requests ask for: "local", "symphony"
    Requests,        \* bound: requests the backend serves at a time
    Calls,           \* the calls that clients make
    MaxConcurrency,  \* settings.execution_max_concurrency
    Serialized,      \* no request starts while another reads and writes
    NoTask, NoWorker

ASSUME ExecutionAssumption ==
    /\ MaxRuns \in Nat
    /\ MaxConcurrency \in Nat
    /\ HighRisk \subseteq Tasks
    /\ Kinds \subseteq {"local", "symphony"}
    /\ Serialized \in BOOLEAN
    /\ NoTask \notin Tasks
    /\ NoWorker \notin Workers

Runs == 1 .. MaxRuns    \* created_at grows with the id

VARIABLES
    run,       \* execution_runs: the row of every run
    task,      \* coding_tasks: the status of every task
    approved,  \* tasks whose demand has an approved manual gate, ever
    selfTest,  \* the latest SELF_TEST_PASSED gate of every task
    req,       \* the request each slot serves, with the rows it loaded
    holding    \* observer: workers that hold a granted claim on a run

db == <<run, task, approved, selfTest>>
vars == <<run, task, approved, selfTest, req, holding>>

-----------------------------------------------------------------------------
(* Rows. *)

RunStatus == {"none", "queued", "running", "paused", "cancelled",
              "blocked", "failed", "succeeded"}
TaskStatus == {"draft", "ready", "running", "blocked", "completed"}
ActiveStatus_NoQueued == {"running", "paused"}
ActiveStatus == {"queued", "running", "paused"}

\* evidence_json, one JSON column: who claimed the run, the lease at the time
\* of reading, and what the dispatch section says.
Evidence == [owner : Workers \cup {NoWorker},
             lease : {"none", "live", "expired"},
             result : {"none", "deferred", "passed", "failed"}]
NoEvidence == [owner |-> NoWorker, lease |-> "none", result |-> "none"]

Row == [status : RunStatus,
        task : Tasks \cup {NoTask},
        kind : {"none", "local", "symphony"},
        ev : Evidence]
NoRow == [status |-> "none", task |-> NoTask, kind |-> "none",
          ev |-> NoEvidence]

RunsOf(t) == {r \in Runs : run[r].task = t}
ActiveRuns(t) == {r \in RunsOf(t) : run[r].status \in ActiveStatus}

\* count_running_execution_runs, with exclude_run_id.
RunningCount(r) ==
    Cardinality({x \in Runs \ {r} : run[x].status = "running"})

-----------------------------------------------------------------------------
(* Requests. *)

Ops == {"idle", "create", "retry", "recreate", "redispatch", "dispatch",
        "executing", "finish", "defer", "pause", "resume", "cancel", "claim",
        "heartbeat", "complete", "recover", "approve", "reject"}

Request == [op : Ops, rows : [Runs -> Row],
            tasks : [Tasks -> TaskStatus \cup {"none"}],
            worker : Workers \cup {NoWorker},
            kind : {"none", "local", "symphony"}, gate : BOOLEAN]

\* The session's copy of the runs rs and the tasks ts; "none" is not loaded.
Session(op, rs, ts, w) ==
    [op |-> op, worker |-> w, kind |-> "none", gate |-> FALSE,
     rows |-> [r \in Runs |-> IF r \in rs THEN run[r] ELSE NoRow],
     tasks |-> [t \in Tasks |-> IF t \in ts THEN task[t] ELSE "none"]]

Idle == [op |-> "idle", worker |-> NoWorker, kind |-> "none", gate |-> FALSE,
         rows |-> [r \in Runs |-> NoRow], tasks |-> [t \in Tasks |-> "none"]]

\* The runs and tasks a request has loaded.
LoadedRuns(q) == {r \in Runs : req[q].rows[r].status # "none"}
LoadedTasks(q) == {t \in Tasks : req[q].tasks[t] # "none"}

\* A client makes a call.  An executing request is running its commands: it
\* is between two commits and does not delay the others.
Arrives(q, call) ==
    /\ call \in Calls
    /\ req[q].op = "idle"
    /\ Serialized =>
          \A p \in Requests : req[p].op \in {"idle", "executing"}

\* Request q reads the run r and its task.
Load(q, op, r, w) ==
    /\ req' = [req EXCEPT ![q] = Session(op, {r}, {run[r].task}, w)]
    /\ UNCHANGED <<db, holding>>

EndRequest(q) == req' = [req EXCEPT ![q] = Idle]

\* The value of a column after the flush: only a changed attribute is written.
Flushed(current, loaded, new) == IF new = loaded THEN current ELSE new

\* The task column after request q sets the status of its task t to new.
TaskSet(q, t, new) ==
    [task EXCEPT ![t] = Flushed(@, req[q].tasks[t], new)]

\* The run row after request q sets status and evidence of its run r.
RunSet(q, r, status, ev) ==
    LET written == Flushed(run[r].status, req[q].rows[r].status, status)
    IN  [run EXCEPT ![r] = [run[r] EXCEPT !.status = written, !.ev = ev]]

-----------------------------------------------------------------------------
(* Creating runs: create_execution_run and retry_coding_task_execution. *)

\* has_manual_execution_approval: the demand of the task has, somewhere in
\* its history, an approved manual gate.
ManuallyApproved_AnyDemand(t) == approved # {}
ManuallyApproved(t) == t \in approved

\* evaluate_execution_allowed on the task status the session sees.
GatePassed(t, status) ==
    /\ status = "ready"
    /\ ManuallyApproved(t) \/ t \notin HighRisk

CreateLoad(q, t, kind) ==
    /\ Arrives(q, "create")
    /\ req' = [req EXCEPT ![q] =
          [Session("create", ActiveRuns(t), {t}, NoWorker)
             EXCEPT !.kind = kind, !.gate = GatePassed(t, task[t])]]
    /\ UNCHANGED <<db, holding>>

\* The retry of a failed, cancelled or completed execution.
RetryLoad(q, t, kind) ==
    /\ Arrives(q, "retry")
    /\ t \in HighRisk => ManuallyApproved(t)
    /\ task[t] \notin {"running", "draft"}
    /\ req' = [req EXCEPT ![q] =
          [Session("retry", ActiveRuns(t), {t}, NoWorker)
             EXCEPT !.kind = kind]]
    /\ UNCHANGED <<db, holding>>

\* A blocked or completed task is made ready, in a commit of its own.  The
\* session keeps its copy of the task and of the task's runs.
RetryCommit(q) ==
    /\ req[q].op = "retry"
    /\ \E t \in LoadedTasks(q) :
          /\ task' = TaskSet(q, t, "ready")
          /\ req' = [req EXCEPT ![q] =
                [@ EXCEPT !.op = "recreate", !.tasks[t] = "ready",
                          !.gate = GatePassed(t, "ready")]]
    /\ UNCHANGED <<run, approved, selfTest, holding>>

\* After its create a retry dispatches the run if it is queued.
AfterCreate(q, r, row) ==
    req' = [req EXCEPT ![q] =
        IF req[q].op = "recreate" /\ row.status = "queued"
        THEN [Idle EXCEPT !.op = "redispatch", !.rows[r] = row]
        ELSE Idle]

\* The gate passes and the session has seen an active run: the latest is
\* returned, as it is now.
CreateExisting(q) ==
    /\ req[q].op \in {"create", "recreate"}
    /\ req[q].gate
    /\ \E r \in LoadedRuns(q) :
          /\ \A x \in LoadedRuns(q) : x <= r
          /\ AfterCreate(q, r, run[r])
    /\ UNCHANGED <<db, holding>>

\* Otherwise a run is inserted, queued or blocked as the gate decided.
CreateCommit(q) ==
    /\ req[q].op \in {"create", "recreate"}
    /\ req[q].gate => LoadedRuns(q) = {}
    /\ \E r \in Runs, t \in LoadedTasks(q) :
          /\ run[r].status = "none"
          /\ \A x \in 1 .. r - 1 : run[x].status # "none"
          /\ LET row == [status |-> IF req[q].gate THEN "queued" ELSE "blocked",
                         task |-> t, kind |-> req[q].kind, ev |-> NoEvidence]
             IN  run' = [run EXCEPT ![r] = row] /\ AfterCreate(q, r, row)
    /\ UNCHANGED <<task, approved, selfTest, holding>>

-----------------------------------------------------------------------------
(* dispatch_execution_run. *)

\* A dispatch call, or the dispatch that ends a retry.
MayDispatch(q, r) ==
    \/ Arrives(q, "dispatch")
    \/ req[q].op = "redispatch" /\ LoadedRuns(q) = {r}

DispatchLoad(q, r) ==
    /\ MayDispatch(q, r)
    /\ run[r].status = "queued"
    /\ run[r].kind = "local"
    /\ RunningCount(r) < MaxConcurrency
    /\ Load(q, "dispatch", r, NoWorker)

DispatchCommit(q) ==
    /\ req[q].op = "dispatch"
    /\ \E r \in LoadedRuns(q), t \in LoadedTasks(q) :
          /\ run' = RunSet(q, r, "running", run[r].ev)
          /\ task' = TaskSet(q, t, "running")
          /\ req' = [req EXCEPT ![q] =
                [@ EXCEPT !.op = "executing", !.tasks[t] = "running"]]
    /\ UNCHANGED <<approved, selfTest, holding>>

\* The task's status after its run has ended.
TaskOutcome_RunStatus(passed) == IF passed THEN "succeeded" ELSE "failed"
TaskOutcome(passed) == IF passed THEN "completed" ELSE "blocked"

\* The executor has returned; the session reads the run again (not the task)
\* and leaves everything as it is when the run was cancelled meanwhile.
Refresh_KeepsGoing(q) ==
    /\ req[q].op = "executing"
    /\ Serialized => \A p \in Requests : req[p].op \in {"idle", "executing"}
    /\ \E r \in LoadedRuns(q) :
          req' = [req EXCEPT ![q] =
                    [@ EXCEPT !.op = "finish", !.rows[r] = run[r]]]
    /\ UNCHANGED <<db, holding>>
Refresh(q) ==
    /\ req[q].op = "executing"
    /\ \E r \in LoadedRuns(q) :
          IF run[r].status = "cancelled"
          THEN EndRequest(q)
          ELSE /\ Serialized =>
                    \A p \in Requests : req[p].op \in {"idle", "executing"}
               /\ req' = [req EXCEPT ![q] =
                    [@ EXCEPT !.op = "finish", !.rows[r] = run[r]]]
    /\ UNCHANGED <<db, holding>>

\* The result is written; the bridge section moves below execution_allowed.
FinishCommit(q, succeeded) ==
    /\ req[q].op = "finish"
    /\ \E r \in LoadedRuns(q), t \in LoadedTasks(q) :
          /\ run' = RunSet(q, r, IF succeeded THEN "succeeded" ELSE "failed",
                [NoEvidence EXCEPT !.result =
                    IF succeeded THEN "passed" ELSE "failed"])
          /\ task' = TaskSet(q, t, TaskOutcome(succeeded))
          /\ selfTest' = [selfTest EXCEPT ![t] =
                IF succeeded THEN "passed" ELSE "failed"]
    /\ EndRequest(q)
    /\ UNCHANGED <<approved, holding>>

\* A symphony run is left queued for a worker.
DeferLoad(q, r) ==
    /\ MayDispatch(q, r)
    /\ run[r].status = "queued"
    /\ run[r].kind = "symphony"
    /\ Load(q, "defer", r, NoWorker)

\* Status "queued" is what was loaded, so only the evidence is written; when
\* it was deferred before, the new evidence may equal the loaded one.
DeferCommit(q) ==
    /\ req[q].op = "defer"
    /\ \E r \in LoadedRuns(q) :
          LET deferred == [NoEvidence EXCEPT !.result = "deferred"]
          IN  \/ run' = RunSet(q, r, "queued", deferred)
              \/ req[q].rows[r].ev = deferred /\ UNCHANGED run
    /\ EndRequest(q)
    /\ UNCHANGED <<task, approved, selfTest, holding>>

-----------------------------------------------------------------------------
(* Operator control: pause, resume and cancel keep the loaded evidence and *)
(* append a control entry to it, so the column is always written.          *)

PauseLoad(q, r) ==
    /\ Arrives(q, "pause")
    /\ run[r].status = "queued"
    /\ Load(q, "pause", r, NoWorker)

PauseCommit(q) ==
    /\ req[q].op = "pause"
    /\ \E r \in LoadedRuns(q), t \in LoadedTasks(q) :
          /\ run' = RunSet(q, r, "paused", req[q].rows[r].ev)
          /\ task' = TaskSet(q, t, "ready")
    /\ EndRequest(q)
    /\ UNCHANGED <<approved, selfTest, holding>>

ResumeLoad(q, r) ==
    /\ Arrives(q, "resume")
    /\ run[r].status = "paused"
    /\ Load(q, "resume", r, NoWorker)

ResumeCommit(q) ==
    /\ req[q].op = "resume"
    /\ \E r \in LoadedRuns(q), t \in LoadedTasks(q) :
          /\ run' = RunSet(q, r, "queued", req[q].rows[r].ev)
          /\ task' = TaskSet(q, t, "ready")
    /\ EndRequest(q)
    /\ UNCHANGED <<approved, selfTest, holding>>

CancelLoad_Blocked(q, r) ==
    /\ Arrives(q, "cancel")
    /\ run[r].status \in ActiveStatus \cup {"blocked"}
    /\ Load(q, "cancel", r, NoWorker)
CancelLoad(q, r) ==
    /\ Arrives(q, "cancel")
    /\ run[r].status \in ActiveStatus
    /\ Load(q, "cancel", r, NoWorker)

CancelCommit(q) ==
    /\ req[q].op = "cancel"
    /\ \E r \in LoadedRuns(q), t \in LoadedTasks(q) :
          LET wasRunning == req[q].rows[r].status = "running"
          IN  /\ run' = RunSet(q, r, "cancelled", req[q].rows[r].ev)
              /\ task' = TaskSet(q, t,
                    IF wasRunning THEN "blocked" ELSE "ready")
              /\ selfTest' = IF wasRunning
                             THEN [selfTest EXCEPT ![t] = "failed"]
                             ELSE selfTest
    /\ EndRequest(q)
    /\ UNCHANGED <<approved, holding>>

-----------------------------------------------------------------------------
(* The Symphony bridge. *)

\* _bridge_evidence: the loaded evidence with an owner and a fresh lease.
Leased_OwnerOnly(ev, w) == [ev EXCEPT !.owner = w]
Leased(ev, w) == [ev EXCEPT !.owner = w, !.lease = "live"]

\* A worker runs one claim at a time.
ClaimLoad(q, r, w) ==
    /\ Arrives(q, "claim")
    /\ \A x \in Runs : w \notin holding[x]
    /\ run[r].kind = "symphony"
    /\ run[r].status = "queued"
    /\ RunningCount(r) < MaxConcurrency
    /\ Load(q, "claim", r, w)

\* claim_execution_run is the one conditional update: rowcount 1 means won.
ClaimWins_Always(q, r) == TRUE
ClaimWins(q, r) == run[r].status = "queued"

ClaimCommit(q) ==
    /\ req[q].op = "claim"
    /\ \E r \in LoadedRuns(q), t \in LoadedTasks(q) :
          IF ClaimWins(q, r)
          THEN /\ run' = [run EXCEPT ![r] = [@ EXCEPT !.status = "running",
                     !.ev = Leased(req[q].rows[r].ev, req[q].worker)]]
               /\ task' = TaskSet(q, t, "running")
               /\ holding' = [holding EXCEPT ![r] = @ \cup {req[q].worker}]
          ELSE UNCHANGED <<run, task, holding>>
    /\ EndRequest(q)
    /\ UNCHANGED <<approved, selfTest>>

\* _get_owned_running_run, for a worker that is still on the run.  It does
\* not look at the lease.
Owned(r, w) ==
    /\ w \in holding[r]
    /\ run[r].kind = "symphony"
    /\ run[r].status = "running"
    /\ run[r].ev.owner = w

HeartbeatLoad(q, r, w) ==
    /\ Arrives(q, "heartbeat")
    /\ Owned(r, w)
    /\ Load(q, "heartbeat", r, w)

HeartbeatCommit(q) ==
    /\ req[q].op = "heartbeat"
    /\ \E r \in LoadedRuns(q) :
          run' = [run EXCEPT ![r] =
                    [@ EXCEPT !.ev = Leased(req[q].rows[r].ev, req[q].worker)]]
    /\ EndRequest(q)
    /\ UNCHANGED <<task, approved, selfTest, holding>>

CompleteLoad(q, r, w) ==
    /\ Arrives(q, "complete")
    /\ Owned(r, w)
    /\ Load(q, "complete", r, w)

\* Success needs the worker's word and the bridge's own validation of the
\* changed files, the required checks and the expected evidence.
CompletionPassed_Unvalidated(requested, validated) == requested
CompletionPassed(requested, validated) == requested /\ validated

CompleteCommit(q, requested, validated) ==
    /\ req[q].op = "complete"
    /\ \E r \in LoadedRuns(q), t \in LoadedTasks(q) :
          LET passed == CompletionPassed(requested, validated)
          IN  /\ run' = RunSet(q, r, IF passed THEN "succeeded" ELSE "failed",
                    [req[q].rows[r].ev EXCEPT !.result =
                        IF validated THEN "passed" ELSE "failed"])
              /\ task' = TaskSet(q, t, TaskOutcome(passed))
              /\ selfTest' = [selfTest EXCEPT ![t] =
                    IF passed THEN "passed" ELSE "failed"]
              /\ holding' = [holding EXCEPT ![r] = @ \ {req[q].worker}]
    /\ EndRequest(q)
    /\ UNCHANGED approved

\* recover_expired_running_runs: every expired run in one commit.
Expired_Queued == {r \in Runs : /\ run[r].status = "queued"
                                /\ run[r].kind = "symphony"
                                /\ run[r].ev.lease = "expired"}
Expired == {r \in Runs : /\ run[r].status = "running"
                         /\ run[r].kind = "symphony"
                         /\ run[r].ev.lease = "expired"}

RecoverLoad(q) ==
    /\ Arrives(q, "recover")
    /\ Expired # {}
    /\ req' = [req EXCEPT ![q] =
          Session("recover", Expired, {run[r].task : r \in Expired}, NoWorker)]
    /\ UNCHANGED <<db, holding>>

RecoverCommit(q) ==
    /\ req[q].op = "recover"
    /\ run' = [r \in Runs |->
          IF r \in LoadedRuns(q)
          THEN [run[r] EXCEPT !.status = "failed", !.ev = req[q].rows[r].ev]
          ELSE run[r]]
    /\ task' = [t \in Tasks |->
          IF t \in LoadedTasks(q)
          THEN Flushed(task[t], req[q].tasks[t], "blocked")
          ELSE task[t]]
    /\ selfTest' = [t \in Tasks |->
          IF t \in LoadedTasks(q) THEN "failed" ELSE selfTest[t]]
    /\ EndRequest(q)
    /\ UNCHANGED <<approved, holding>>

-----------------------------------------------------------------------------
(* record_manual_approval, as far as it concerns the latest task. *)

ApproveLoad(q, t) ==
    /\ Arrives(q, "approve")
    /\ req' = [req EXCEPT ![q] = Session("approve", {}, {t}, NoWorker)]
    /\ UNCHANGED <<db, holding>>

ApproveCommit(q) ==
    /\ req[q].op = "approve"
    /\ \E t \in LoadedTasks(q) :
          /\ approved' = approved \cup {t}
          /\ task' = IF req[q].tasks[t] = "draft"
                     THEN TaskSet(q, t, "ready") ELSE task
    /\ EndRequest(q)
    /\ UNCHANGED <<run, selfTest, holding>>

RejectLoad(q, t) ==
    /\ Arrives(q, "reject")
    /\ req' = [req EXCEPT ![q] = Session("reject", {}, {t}, NoWorker)]
    /\ UNCHANGED <<db, holding>>

\* An earlier approval stays on record.
RejectCommit(q) ==
    /\ req[q].op = "reject"
    /\ \E t \in LoadedTasks(q) :
          task' = IF req[q].tasks[t] \in {"draft", "ready"}
                  THEN TaskSet(q, t, "blocked") ELSE task
    /\ EndRequest(q)
    /\ UNCHANGED <<run, approved, selfTest, holding>>

-----------------------------------------------------------------------------
(* The environment. *)

\* A request ends without writing more: a check fails after the load, an
\* exception rolls the session back, or the backend process dies.
Abandon(q) ==
    /\ req[q].op # "idle"
    /\ EndRequest(q)
    /\ UNCHANGED <<db, holding>>

\* Time passes the lease_expires_at of a running run.
LeaseExpires(r) ==
    /\ run[r].status = "running"
    /\ run[r].ev.lease = "live"
    /\ run' = [run EXCEPT ![r].ev.lease = "expired"]
    /\ UNCHANGED <<task, approved, selfTest, req, holding>>

\* A worker crashes, never sees the answer to its claim, or gives up after
\* an error from the bridge.
WorkerStops(w, r) ==
    /\ w \in holding[r]
    /\ holding' = [holding EXCEPT ![r] = @ \ {w}]
    /\ UNCHANGED <<db, req>>

-----------------------------------------------------------------------------

\* create_coding_task: no task of a high-risk demand starts out ready.
Init ==
    /\ run = [r \in Runs |-> NoRow]
    /\ task \in [Tasks -> {"draft", "ready"}]
    /\ \A t \in HighRisk : task[t] = "draft"
    /\ approved = {}
    /\ selfTest = [t \in Tasks |-> "none"]
    /\ req = [q \in Requests |-> Idle]
    /\ holding = [r \in Runs |-> {}]

CreateStep(q) ==
    \/ \E t \in Tasks, kind \in Kinds : CreateLoad(q, t, kind)
    \/ \E t \in Tasks, kind \in Kinds : RetryLoad(q, t, kind)
    \/ RetryCommit(q) \/ CreateExisting(q) \/ CreateCommit(q)

DispatchStep(q) ==
    \/ \E r \in Runs : DispatchLoad(q, r) \/ DeferLoad(q, r)
    \/ DispatchCommit(q) \/ Refresh(q) \/ DeferCommit(q)
    \/ \E succeeded \in BOOLEAN : FinishCommit(q, succeeded)

ControlStep(q) ==
    \/ \E r \in Runs : PauseLoad(q, r) \/ ResumeLoad(q, r) \/ CancelLoad(q, r)
    \/ PauseCommit(q) \/ ResumeCommit(q) \/ CancelCommit(q)

BridgeStep(q) ==
    \/ \E r \in Runs, w \in Workers :
          ClaimLoad(q, r, w) \/ HeartbeatLoad(q, r, w) \/ CompleteLoad(q, r, w)
    \/ ClaimCommit(q) \/ HeartbeatCommit(q)
    \/ \E requested, validated \in BOOLEAN :
          CompleteCommit(q, requested, validated)
    \/ RecoverLoad(q) \/ RecoverCommit(q)

ApprovalStep(q) ==
    \/ \E t \in Tasks : ApproveLoad(q, t) \/ RejectLoad(q, t)
    \/ ApproveCommit(q) \/ RejectCommit(q)

Environment ==
    \/ \E q \in Requests : Abandon(q)
    \/ \E r \in Runs : LeaseExpires(r)
    \/ \E w \in Workers, r \in Runs : WorkerStops(w, r)

Next ==
    \/ \E q \in Requests :
          \/ CreateStep(q) \/ DispatchStep(q) \/ ControlStep(q)
          \/ BridgeStep(q) \/ ApprovalStep(q)
    \/ Environment

Spec == Init /\ [][Next]_vars

\* A request that reads and writes ends, in a commit or in an error.
RequestEnds(q) == req[q].op # "executing" /\ Abandon(q)

\* Time passes; a request ends, and so does an executor (its commands have a
\* timeout); workers keep polling, each poll recovers the expired runs first,
\* and a poll that is repeated forever is served and committed some time.
Fairness ==
    /\ \A r \in Runs : WF_vars(LeaseExpires(r))
    /\ \A q \in Requests :
          /\ WF_vars(RequestEnds(q))
          /\ SF_vars(Refresh(q))
          /\ SF_vars(RecoverLoad(q))
          /\ SF_vars(RecoverCommit(q))

FairSpec == Spec /\ Fairness

-----------------------------------------------------------------------------
(* Properties. *)

TypeOK ==
    /\ run \in [Runs -> Row]
    /\ task \in [Tasks -> TaskStatus]
    /\ approved \subseteq Tasks
    /\ selfTest \in [Tasks -> {"none", "passed", "failed"}]
    /\ req \in [Requests -> Request]
    /\ holding \in [Runs -> SUBSET Workers]

\* However requests overlap, a run of a high-risk demand that no human has
\* ever approved is at most the blocked record of a refused start: it is never
\* queued, claimed or dispatched (evaluate_execution_allowed, the retry's own
\* check and the status of a new task work together for this).
NoUnapprovedHighRisk ==
    \A r \in Runs :
        run[r].task \in HighRisk \ approved => run[r].status = "blocked"

\* However requests overlap, a run the gate has blocked stays blocked: no
\* control call, retry, claim or recovery brings it to life.
BlockedIsFinal ==
    [][\A r \in Runs :
          run[r].status = "blocked" => run'[r] = run[r]]_vars

\* As long as nobody resumes a run, at most one worker holds it: the
\* conditional update of claim_execution_run wins once, and neither a deferred
\* dispatch nor a heartbeat in flight puts the run back into the queue.
ClaimedOnce == \A r \in Runs : Cardinality(holding[r]) <= 1

\* With requests one at a time the task row agrees with its runs: it says
\* "running" exactly while one of its runs is running, whatever mixture of
\* dispatch, claim, control, recovery, retry and approval led there.
TaskFollowsRuns ==
    \A t \in Tasks :
        task[t] = "running" <=> \E r \in RunsOf(t) : run[r].status = "running"

\* With requests one at a time a completed task has a run that succeeded with
\* validated evidence, and its latest self-test gate passed: what
\* create_merge_request_record relies on when it looks for such a run.
CompletedIsEarned ==
    \A t \in Tasks :
        task[t] = "completed" =>
            /\ selfTest[t] = "passed"
            /\ \E r \in RunsOf(t) : /\ run[r].status = "succeeded"
                                    /\ run[r].ev.result = "passed"

\* With requests one at a time a running symphony run carries its owner and
\* its lease: without them no recovery finds it and no worker may end it.
RunningHasLease ==
    \A r \in Runs :
        /\ run[r].status = "running"
        /\ run[r].kind = "symphony"
        => run[r].ev.owner # NoWorker /\ run[r].ev.lease # "none"

\* The promise of the queue, under the mapping of a row to its status and its
\* task: one active run per task, the running limit, outcomes that stay.
Lifecycle == INSTANCE RunLifecycle
    WITH status <- [r \in Runs |-> run[r].status],
         taskOf <- [r \in Runs |-> run[r].task]

ImplementsLifecycle == Lifecycle!Spec

\* A task never has two queued, running or paused runs.
OneActiveRun == Lifecycle!OneActiveRun

\* The running rows never exceed the limit.
WithinCapacity == Lifecycle!WithinCapacity

\* A cancelled run stays cancelled: a late answer of its worker is refused.
CancelledIsFinal ==
    [][\A r \in Runs :
          run[r].status = "cancelled" => run'[r].status = "cancelled"]_vars

\* The local executors at work never exceed the limit.
ExecutorsWithinCapacity ==
    Cardinality({q \in Requests : req[q].op = "executing"}) <= MaxConcurrency

\* No two workers are executing runs of the same task.
TaskExecutedOnce ==
    \A t \in Tasks :
        Cardinality(UNION {holding[r] : r \in RunsOf(t)}) <= 1

\* A symphony run whose worker is gone does not stay running: its lease
\* expires and some worker's poll marks it failed.
AbandonedRunEnds ==
    \A r \in Runs :
        (/\ run[r].status = "running"
         /\ run[r].kind = "symphony"
         /\ holding[r] = {}) ~> run[r].status # "running"
=============================================================================
