------------------------ MODULE DemandPipelineProofs ------------------------
(***************************************************************************)
(* What holds of DemandPipeline for every number of specs, tasks, requests *)
(* and attempts, and however requests overlap: a high-risk demand is not   *)
(* executed before an approval, and draft tasks wait for a decision.       *)
(***************************************************************************)
EXTENDS DemandPipeline, WellFoundedInduction, TLAPS

\* What a request carries fits the rows it is going to write.
Prepared ==
    \A q \in Requests :
        /\ req[q].op = "spec" => req[q].out \in {"manual_review", "approved"}
        /\ req[q].op = "task" => req[q].out \in {"draft", "ready"}
        /\ req[q].op \in {"run", "retry"} => req[q].t \in Tasks

\* A task that executes, or that a request is about to execute, is no draft.
Startable ==
    /\ \A q \in Requests :
          req[q].op = "retry" \/ (req[q].op = "run" /\ req[q].out = "queued") =>
              task[req[q].t].status \notin {"none", "draft"}
    /\ \A t \in active : task[t].status \notin {"none", "draft"}

Unapproved == class.risk = "high" /\ approvals = {}

\* As long as nobody has approved it, a high-risk demand has its risk on
\* record before it has a task, and no request carries a permission.
NoPermission ==
    Unapproved =>
        /\ \A s \in Specs : spec[s] # "none" => risk = "high"
        /\ \A t \in Tasks : task[t].status # "none" => risk = "high"
        /\ \A q \in Requests :
              /\ req[q].op = "task" => req[q].out # "ready" /\ risk = "high"
              /\ req[q].op # "retry"
              /\ req[q].op = "run" => req[q].out # "queued"
              /\ req[q].op = "reject" /\ req[q].task # "none" => risk = "high"

IInv == TypeOK /\ Prepared /\ Startable /\ NoPermission /\ HighRiskIsReviewed

-----------------------------------------------------------------------------
(* The highest id in use. *)

\* Sets of ids have a highest one: the least of the upper bounds.
LEMMA HighestExists ==
    ASSUME NEW n \in Nat, NEW used \in SUBSET (1 .. n), used # {}
    PROVE  \E i \in used : \A j \in used : j <= i
<1> DEFINE bounds == {b \in Nat : \A j \in used : j <= b}
           less == {ss \in Nat \X Nat : ss[1] < ss[2]}
<1>1. IsWellFoundedOn(less, Nat)
    BY NatLessThanWellFounded DEF OpToRel
<1>2. n \in bounds
    OBVIOUS
<1>3. \E x \in bounds : \A y \in bounds : <<y, x>> \notin less
    <2> HIDE DEF less
    <2>1. bounds \subseteq Nat /\ bounds # {}
        BY <1>2
    <2> HIDE DEF bounds
    <2> QED BY <1>1, <2>1, WFMin
<1>4. PICK b \in bounds : \A y \in bounds : ~(y < b)
    BY <1>3
<1>5. b \in used
    <2> SUFFICES ASSUME b \notin used PROVE FALSE
        OBVIOUS
    <2>1. PICK j \in used : TRUE
        OBVIOUS
    <2>2. b - 1 \in Nat
        BY <2>1
    <2>3. b - 1 \in bounds
        BY <2>2
    <2> QED BY <1>4, <2>3
<1> QED BY <1>5

LEMMA LatestIsHighest ==
    ASSUME NEW n \in Nat, NEW used \in SUBSET (1 .. n)
    PROVE  /\ Latest(1 .. n, used) \in 0 .. n
           /\ \A j \in used : j <= Latest(1 .. n, used)
<1>1. \E i \in {0} \cup (1 .. n) : (i = 0 \/ i \in used) /\ \A j \in used : j <= i
    BY HighestExists
<1> DEFINE P(i) == (i = 0 \/ i \in used) /\ \A j \in used : j <= i
           S == {0} \cup (1 .. n)
<1>2. Latest(1 .. n, used) = CHOOSE i \in S : P(i)
    BY DEF Latest
<1>3. \E i \in S : P(i)
    BY <1>1
<1> HIDE DEF P, S
<1>4. Latest(1 .. n, used) \in S /\ P(Latest(1 .. n, used))
    BY <1>2, <1>3
<1> QED BY <1>4 DEF P, S

LEMMA LatestTypes ==
    ASSUME TypeOK
    PROVE  /\ LatestSpec \in 0 .. MaxSpecs
           /\ LatestTask \in 0 .. MaxTasks
           /\ TaskStatusOf(LatestTask) \in TaskStatus
           /\ TaskStatusOf(LatestTask) # "none" => LatestTask \in Tasks
           /\ \A t \in Tasks : task[t].status # "none" => t <= LatestTask
<1>1. LatestSpec \in 0 .. MaxSpecs
    BY PipelineAssumption, LatestIsHighest DEF LatestSpec, Specs
<1>2. /\ LatestTask \in 0 .. MaxTasks
      /\ \A t \in Tasks : task[t].status # "none" => t <= LatestTask
    BY PipelineAssumption, LatestIsHighest DEF LatestTask, Tasks
<1>3. /\ TaskStatusOf(LatestTask) \in TaskStatus
      /\ TaskStatusOf(LatestTask) # "none" => LatestTask \in Tasks
    BY <1>2, PipelineAssumption DEF TaskStatusOf, TypeOK, TaskStatus, Tasks
<1> QED BY <1>1, <1>2, <1>3

-----------------------------------------------------------------------------
(* Steps that change only the request of one slot.                          *)

LEMMA IdleType == Idle \in Request
BY PipelineAssumption DEF Idle, Request, Ops, TaskStatus, Verdict

LEMMA AsksType ==
    ASSUME NEW op \in Ops, NEW s \in 0 .. MaxSpecs,
           NEW out \in {"none", "manual_review", "approved", "draft", "ready"}
    PROVE  /\ Asks(op, s, out) \in Request
           /\ Asks(op, s, out).op = op
           /\ Asks(op, s, out).out = out
<1>1. 1 \in 0 .. Attempts
    BY PipelineAssumption
<1> QED BY <1>1, IdleType DEF Asks, Request

LEMMA InitIInv == Init => IInv
<1> SUFFICES ASSUME Init PROVE IInv
    OBVIOUS
<1>1. TypeOK
    BY IdleType, PipelineAssumption DEF Init, TypeOK, Verdict, SpecStatus, TaskStatus
<1>2. \A q \in Requests : req[q].op = "idle"
    BY DEF Init, Idle
<1> QED BY <1>1, <1>2 DEF IInv, Init, Prepared, Startable, NoPermission, HighRiskIsReviewed

\* A request that becomes r: what has to be known of r.
LEMMA RequestKeeps ==
    ASSUME IInv, NEW q \in Requests, NEW r \in Request,
           req' = [req EXCEPT ![q] = r], UNCHANGED rows,
           r.op = "spec" => r.out \in {"manual_review", "approved"},
           r.op = "task" => r.out \in {"draft", "ready"},
           r.op \in {"run", "retry"} => r.t \in Tasks,
           r.op = "retry" \/ (r.op = "run" /\ r.out = "queued") =>
               task[r.t].status \notin {"none", "draft"},
           Unapproved =>
              /\ r.op = "task" => r.out # "ready" /\ risk = "high"
              /\ r.op # "retry"
              /\ r.op = "run" => r.out # "queued"
              /\ r.op = "reject" /\ r.task # "none" => risk = "high"
    PROVE  IInv'
<1>1. TypeOK'
    BY DEF IInv, TypeOK, rows
<1>2. Prepared'
    BY DEF IInv, TypeOK, Prepared, rows
<1>3. Startable'
    BY DEF IInv, TypeOK, Startable, rows
<1>4. NoPermission'
    BY DEF IInv, TypeOK, NoPermission, Unapproved, rows
<1>5. HighRiskIsReviewed'
    BY DEF IInv, HighRiskIsReviewed, rows
<1> QED BY <1>1, <1>2, <1>3, <1>4, <1>5 DEF IInv

LEMMA EndKeeps ==
    ASSUME IInv, NEW q \in Requests, EndRequest(q), UNCHANGED rows
    PROVE  IInv'
BY RequestKeeps, IdleType DEF EndRequest, Idle

LEMMA ProviderFailsKeeps ==
    ASSUME IInv, NEW q \in Requests, ProviderFails(q)
    PROVE  IInv'
<1>1. CASE EndRequest(q)
    BY <1>1, EndKeeps DEF ProviderFails
<1>2. CASE ~EndRequest(q)
    <2>1. PICK via \in {"primary", "fallback"}, attempt \in 0 .. Attempts :
             req' = [req EXCEPT ![q] = [@ EXCEPT !.attempt = attempt, !.via = via]]
        <3>1. req[q] \in Request
            BY DEF IInv, TypeOK
        <3>2. CASE req[q].via = "primary" /\ req[q].attempt < Attempts
                   /\ req' = [req EXCEPT ![q].attempt = @ + 1]
            <4>1. req[q].attempt + 1 \in 0 .. Attempts
                BY <3>1, <3>2, PipelineAssumption DEF Request
            <4>2. [req[q] EXCEPT !.attempt = req[q].attempt + 1] =
                  [req[q] EXCEPT !.attempt = req[q].attempt + 1, !.via = "primary"]
                BY <3>1, <3>2 DEF Request
            <4> QED BY <3>2, <4>1, <4>2
        <3>3. CASE req' = [req EXCEPT ![q] = [@ EXCEPT !.attempt = 1, !.via = "fallback"]]
            <4>1. "fallback" \in {"primary", "fallback"} /\ 1 \in 0 .. Attempts
                BY PipelineAssumption
            <4> QED BY <3>3, <4>1
        <3> QED BY <1>2, <3>2, <3>3 DEF ProviderFails
    <2> DEFINE r == [req[q] EXCEPT !.attempt = attempt, !.via = via]
    <2>2. r \in Request /\ req[q] \in Request
        BY DEF IInv, TypeOK, Request
    <2>3. /\ r.op = req[q].op /\ r.out = req[q].out
          /\ r.t = req[q].t /\ r.task = req[q].task
        BY <2>2 DEF Request
    <2>4. req' = [req EXCEPT ![q] = r] /\ UNCHANGED rows
        BY <2>1 DEF ProviderFails
    <2> HIDE DEF r
    <2> QED BY <2>2, <2>3, <2>4, RequestKeeps
            DEF IInv, Prepared, Startable, NoPermission
<1> QED BY <1>1, <1>2

\* The loads: what each of them begins.
LEMMA SpecLoadKeeps ==
    ASSUME IInv, NEW q \in Requests, NEW automatic \in BOOLEAN, SpecLoad(q, automatic)
    PROVE  IInv'
<1> DEFINE r == Asks("spec", 0, SpecDecision(automatic))
<1>1. /\ SpecDecision(automatic) \in {"manual_review", "approved"}
      /\ "spec" \in Ops /\ 0 \in 0 .. MaxSpecs
    BY PipelineAssumption DEF SpecDecision, Ops
<1>2. r \in Request /\ r.op = "spec" /\ r.out = SpecDecision(automatic)
    BY <1>1, AsksType
<1>3. req' = [req EXCEPT ![q] = r] /\ UNCHANGED rows
    BY DEF SpecLoad, Begin
<1> HIDE DEF r
<1> QED BY <1>1, <1>2, <1>3, RequestKeeps

LEMMA ContextLoadKeeps ==
    ASSUME IInv, NEW q \in Requests, NEW force \in BOOLEAN, ContextLoad(q, force)
    PROVE  IInv'
<1> DEFINE r == Asks("context", 0, "none")
<1>1. r \in Request /\ r.op = "context"
    BY AsksType, PipelineAssumption DEF Ops
<1>2. req' = [req EXCEPT ![q] = r] /\ UNCHANGED rows
    BY DEF ContextLoad, Begin
<1> HIDE DEF r
<1> QED BY <1>1, <1>2, RequestKeeps

LEMMA ImpactLoadKeeps ==
    ASSUME IInv, NEW q \in Requests, ImpactLoad(q)
    PROVE  IInv'
<1> DEFINE r == Asks("impact", LatestSpec, "none")
<1>1. r \in Request /\ r.op = "impact"
    BY AsksType, LatestTypes DEF IInv, Ops
<1>2. req' = [req EXCEPT ![q] = r] /\ UNCHANGED rows
    BY DEF ImpactLoad, Begin
<1> HIDE DEF r
<1> QED BY <1>1, <1>2, RequestKeeps

LEMMA TaskLoadKeeps ==
    ASSUME IInv, NEW q \in Requests, NEW s \in Specs, TaskLoad(q, s)
    PROVE  IInv'
<1> DEFINE r == Asks("task", s, TaskDecision(s))
<1>1. TaskDecision(s) \in {"draft", "ready"} /\ s \in 0 .. MaxSpecs
    BY PipelineAssumption DEF TaskDecision, Specs
<1>2. r \in Request /\ r.op = "task" /\ r.out = TaskDecision(s)
    BY <1>1, AsksType DEF Ops
<1>3. req' = [req EXCEPT ![q] = r] /\ UNCHANGED rows
    BY DEF TaskLoad, Begin
<1>4. Unapproved => TaskDecision(s) # "ready" /\ risk = "high"
    BY DEF IInv, NoPermission, Unapproved, TaskLoad, TaskDecision, ManuallyApproved
<1> HIDE DEF r
<1> QED BY <1>1, <1>2, <1>3, <1>4, RequestKeeps

LEMMA DecisionLoadKeeps ==
    ASSUME IInv, NEW q \in Requests, NEW call \in {"approve", "reject"},
           DecisionLoad(q, call)
    PROVE  IInv'
<1> DEFINE r == [Idle EXCEPT !.op = call, !.s = LatestSpec, !.t = LatestTask,
                             !.task = TaskStatusOf(LatestTask), !.verdict = verdict]
<1>1. /\ r \in Request /\ r.op = call
      /\ r.task = TaskStatusOf(LatestTask)
    BY IdleType, LatestTypes DEF IInv, TypeOK, Request, Ops
<1>2. req' = [req EXCEPT ![q] = r] /\ UNCHANGED rows
    BY DEF DecisionLoad, Begin
<1>3. Unapproved /\ TaskStatusOf(LatestTask) # "none" => risk = "high"
    <2>1. TaskStatusOf(LatestTask) # "none" =>
             LatestTask \in Tasks /\ task[LatestTask].status # "none"
        BY LatestTypes DEF IInv, TaskStatusOf
    <2> QED BY <2>1 DEF IInv, NoPermission
<1> HIDE DEF r
<1> QED BY <1>1, <1>2, <1>3, RequestKeeps

LEMMA RunLoadKeeps ==
    ASSUME IInv, NEW q \in Requests, NEW t \in Tasks, RunLoad(q, t)
    PROVE  IInv'
<1> DEFINE decision == GateDecision(task[t].status)
           r == [Idle EXCEPT !.op = "run", !.t = t, !.out = decision]
<1>1. decision \in {"queued", "blocked"} /\ t \in 0 .. MaxTasks
    BY PipelineAssumption DEF GateDecision, Tasks
<1>2. r \in Request /\ r.op = "run" /\ r.t = t /\ r.out = decision
    BY <1>1, IdleType DEF Request, Ops
<1>3. req' = [req EXCEPT ![q] = r] /\ UNCHANGED rows
    BY DEF RunLoad, Begin
<1>4. decision = "queued" => task[t].status = "ready"
    BY DEF GateDecision, ExecutionAllowed
<1>5. Unapproved => decision # "queued"
    BY <1>4 DEF IInv, HighRiskIsReviewed, Unapproved
<1> HIDE DEF r, decision
<1> QED BY <1>2, <1>3, <1>4, <1>5, RequestKeeps

LEMMA RetryLoadKeeps ==
    ASSUME IInv, NEW q \in Requests, NEW t \in Tasks, RetryLoad(q, t)
    PROVE  IInv'
<1> DEFINE r == [Idle EXCEPT !.op = "retry", !.t = t, !.task = task[t].status]
<1>1. task[t].status \in TaskStatus /\ t \in 0 .. MaxTasks
    BY PipelineAssumption DEF IInv, TypeOK, Tasks
<1>2. r \in Request /\ r.op = "retry" /\ r.t = t
    BY <1>1, IdleType DEF Request, Ops
<1>3. req' = [req EXCEPT ![q] = r] /\ UNCHANGED rows
    BY DEF RetryLoad, Begin
<1>4. task[t].status \notin {"none", "draft"} /\ ~Unapproved
    BY DEF RetryLoad, IInv, NoPermission, Unapproved, ManuallyApproved
<1> HIDE DEF r
<1> QED BY <1>2, <1>3, <1>4, RequestKeeps

-----------------------------------------------------------------------------
(* The commits.                                                             *)

\* When slot q becomes idle, what is known of the other requests remains.
LEMMA EndTypes ==
    ASSUME IInv, NEW q \in Requests, EndRequest(q)
    PROVE  /\ req' \in [Requests -> Request]
           /\ \A p \in Requests : req'[p].op # "idle" => p # q
           /\ \A p \in Requests : p # q => req'[p] = req[p]
BY IdleType DEF IInv, TypeOK, EndRequest, Idle

LEMMA SpecCommitKeeps ==
    ASSUME IInv, NEW q \in Requests, SpecCommit(q)
    PROVE  IInv'
<1>1. req[q].out \in {"manual_review", "approved"}
    BY DEF IInv, Prepared, SpecCommit
<1>2. EndRequest(q) /\ UNCHANGED <<class, verdict, context, task, approvals, queued, active>>
    BY DEF SpecCommit
<1>3. spec' \in [Specs -> SpecStatus] /\ risk' = class.risk
    BY <1>1 DEF IInv, TypeOK, SpecCommit, SpecStatus
<1>4. TypeOK'
    BY <1>2, <1>3, EndTypes DEF IInv, TypeOK
<1>5. Prepared'
    BY <1>2, EndTypes DEF IInv, Prepared
<1>6. Startable'
    BY <1>2, EndTypes DEF IInv, Startable
<1>7. NoPermission'
    BY <1>2, <1>3, EndTypes DEF IInv, NoPermission, Unapproved
<1>8. HighRiskIsReviewed'
    BY <1>2 DEF IInv, HighRiskIsReviewed
<1> QED BY <1>4, <1>5, <1>6, <1>7, <1>8 DEF IInv

LEMMA ContextCommitKeeps ==
    ASSUME IInv, NEW q \in Requests, NEW confident \in BOOLEAN,
           ContextCommit(q, confident)
    PROVE  IInv'
<1>1. /\ EndRequest(q)
      /\ UNCHANGED <<class, verdict, risk, spec, task, approvals, queued, active>>
      /\ context' \in {"none", "ready", "insufficient"}
    BY DEF ContextCommit
<1>2. TypeOK'
    BY <1>1, EndTypes DEF IInv, TypeOK
<1>3. Prepared' /\ Startable'
    BY <1>1, EndTypes DEF IInv, Prepared, Startable
<1>4. NoPermission' /\ HighRiskIsReviewed'
    BY <1>1, EndTypes DEF IInv, NoPermission, Unapproved, HighRiskIsReviewed
<1> QED BY <1>2, <1>3, <1>4 DEF IInv

\* A new task never replaces one that exists.
LEMMA NewTask ==
    ASSUME IInv, NEW q \in Requests, TaskCommit(q)
    PROVE  \E t \in Tasks : /\ task[t].status = "none"
                            /\ task' = [task EXCEPT ![t] = [status |-> req[q].out,
                                                            spec |-> req[q].s]]
<1>1. PICK t \in Tasks : /\ t = LatestTask + 1
                         /\ task' = [task EXCEPT ![t] = [status |-> req[q].out,
                                                         spec |-> req[q].s]]
    BY DEF TaskCommit
<1>2. LatestTask \in 0 .. MaxTasks /\ ~(t <= LatestTask)
    BY <1>1, LatestTypes, PipelineAssumption DEF IInv
<1>3. task[t].status = "none"
    BY <1>2, LatestTypes DEF IInv
<1> QED BY <1>1, <1>3

\* Nor is it a permission to execute.
LEMMA TaskCommitKeeps ==
    ASSUME IInv, NEW q \in Requests, TaskCommit(q)
    PROVE  IInv'
<1>1. /\ EndRequest(q)
      /\ UNCHANGED <<class, verdict, risk, spec, context, approvals, queued, active>>
      /\ req[q].op = "task" /\ req[q] \in Request
    BY DEF IInv, TypeOK, TaskCommit
<1>2. req[q].out \in {"draft", "ready"}
    BY <1>1 DEF IInv, Prepared
<1>3. PICK t \in Tasks : /\ task[t].status = "none"
                         /\ task' = [task EXCEPT ![t] = [status |-> req[q].out,
                                                         spec |-> req[q].s]]
    BY NewTask
<1>5. /\ task'[t].status = req[q].out
      /\ \A u \in Tasks : u # t => task'[u] = task[u]
    BY <1>3 DEF IInv, TypeOK
<1>6. TypeOK'
    <2>1. [status |-> req[q].out, spec |-> req[q].s] \in
             [status : TaskStatus, spec : 0 .. MaxSpecs]
        BY <1>1, <1>2 DEF Request, TaskStatus
    <2>2. task' \in [Tasks -> [status : TaskStatus, spec : 0 .. MaxSpecs]]
        BY <1>3, <2>1 DEF IInv, TypeOK
    <2> QED BY <1>1, <2>2, EndTypes DEF IInv, TypeOK
<1>7. Prepared'
    BY <1>1, EndTypes DEF IInv, Prepared
<1>8. Startable'
    <2>1. active \subseteq Tasks
        BY DEF IInv, TypeOK
    <2>2. \A u \in Tasks : task[u].status \notin {"none", "draft"} => task'[u] = task[u]
        BY <1>3, <1>5
    <2> QED BY <1>1, <2>1, <2>2, EndTypes DEF IInv, Startable, Prepared
<1>9. NoPermission'
    BY <1>1, <1>5, EndTypes DEF IInv, NoPermission, Unapproved
<1>10. HighRiskIsReviewed'
    BY <1>1, <1>2, <1>5 DEF IInv, NoPermission, Unapproved, HighRiskIsReviewed
<1> QED BY <1>6, <1>7, <1>8, <1>9, <1>10 DEF IInv

\* What TaskSet writes.
LEMMA TaskSetTypes ==
    ASSUME IInv, NEW q \in Requests, NEW new \in TaskStatus \ {"none", "draft"}
    PROVE  /\ TaskSet(q, new) \in [Tasks -> [status : TaskStatus, spec : 0 .. MaxSpecs]]
           /\ \A u \in Tasks : \/ TaskSet(q, new)[u] = task[u]
                               \/ u = req[q].t /\ TaskSet(q, new)[u].status = new
<1>1. DOMAIN TaskSet(q, new) = DOMAIN task /\ DOMAIN task = Tasks
    BY DEF TaskSet, IInv, TypeOK
<1>2. ASSUME NEW u \in Tasks
      PROVE  /\ TaskSet(q, new)[u] \in [status : TaskStatus, spec : 0 .. MaxSpecs]
             /\ \/ TaskSet(q, new)[u] = task[u]
                \/ u = req[q].t /\ TaskSet(q, new)[u].status = new
    <2>1. task[u] \in [status : TaskStatus, spec : 0 .. MaxSpecs]
        BY DEF IInv, TypeOK
    <2>2. CASE u # req[q].t
        BY <2>1, <2>2 DEF TaskSet, IInv, TypeOK
    <2>3. CASE u = req[q].t
        <3>1. TaskSet(q, new)[u] =
                 [task[u] EXCEPT !.status = Flushed(task[u].status, req[q].task, new)]
            BY <2>3 DEF TaskSet, IInv, TypeOK
        <3>2. CASE new = req[q].task
            BY <2>1, <3>1, <3>2 DEF Flushed
        <3>3. CASE new # req[q].task
            BY <2>1, <2>3, <3>1, <3>3 DEF Flushed
        <3> QED BY <3>2, <3>3
    <2> QED BY <2>2, <2>3
<1>3. TaskSet(q, new) = [u \in Tasks |-> TaskSet(q, new)[u]]
    BY <1>1 DEF TaskSet
<1> QED BY <1>2, <1>3

LEMMA ActiveAreTasks ==
    ASSUME IInv PROVE active \subseteq Tasks
BY DEF IInv, TypeOK

LEMMA ApproveCommitKeeps ==
    ASSUME IInv, NEW q \in Requests, ApproveCommit(q)
    PROVE  IInv'
<1>1. /\ EndRequest(q) /\ UNCHANGED <<class, risk, context, queued, active>>
      /\ req[q] \in Request
    BY DEF IInv, TypeOK, ApproveCommit
<1>2. /\ task' \in [Tasks -> [status : TaskStatus, spec : 0 .. MaxSpecs]]
      /\ \A u \in Tasks : task'[u] = task[u] \/ task'[u].status = "ready"
    <2>1. "ready" \in TaskStatus \ {"none", "draft"}
        BY DEF TaskStatus
    <2>2. CASE req[q].task = "draft"
        BY <2>1, <2>2, TaskSetTypes DEF ApproveCommit
    <2>3. CASE req[q].task # "draft"
        BY <2>3 DEF ApproveCommit, IInv, TypeOK
    <2> QED BY <2>2, <2>3
<1>3. TypeOK'
    <2>1. verdict' \in Verdict
        BY DEF ApproveCommit, Flushed, IInv, TypeOK, Verdict
    <2>2. spec' \in [Specs -> SpecStatus]
        BY DEF ApproveCommit, IInv, TypeOK, SpecStatus
    <2>3. approvals' \subseteq 0 .. MaxTasks
        BY <1>1 DEF ApproveCommit, IInv, TypeOK, Request
    <2> QED BY <1>1, <1>2, <2>1, <2>2, <2>3, EndTypes DEF IInv, TypeOK
<1>4. Prepared'
    BY <1>1, EndTypes DEF IInv, Prepared
<1>5. Startable'
    BY <1>1, <1>2, EndTypes, ActiveAreTasks DEF IInv, Startable, Prepared
<1>6. approvals' # {}
    BY DEF ApproveCommit
<1>7. NoPermission' /\ HighRiskIsReviewed'
    BY <1>6 DEF NoPermission, Unapproved, HighRiskIsReviewed
<1> QED BY <1>3, <1>4, <1>5, <1>7 DEF IInv

LEMMA RejectCommitKeeps ==
    ASSUME IInv, NEW q \in Requests, RejectCommit(q)
    PROVE  IInv'
<1>1. /\ EndRequest(q)
      /\ UNCHANGED <<class, risk, spec, context, approvals, queued, active>>
      /\ req[q] \in Request /\ req[q].op = "reject"
    BY DEF IInv, TypeOK, RejectCommit
<1>2. /\ task' \in [Tasks -> [status : TaskStatus, spec : 0 .. MaxSpecs]]
      /\ \A u \in Tasks :
            \/ task'[u] = task[u]
            \/ task'[u].status = "blocked" /\ req[q].task # "none"
    <2>1. "blocked" \in TaskStatus \ {"none", "draft"}
        BY DEF TaskStatus
    <2>2. CASE req[q].task \in {"draft", "ready"}
        BY <2>1, <2>2, TaskSetTypes DEF RejectCommit
    <2>3. CASE req[q].task \notin {"draft", "ready"}
        BY <2>3 DEF RejectCommit, IInv, TypeOK
    <2> QED BY <2>2, <2>3
<1>3. TypeOK'
    <2>1. verdict' \in Verdict
        BY DEF RejectCommit, Flushed, IInv, TypeOK, Verdict
    <2> QED BY <1>1, <1>2, <2>1, EndTypes DEF IInv, TypeOK
<1>4. Prepared'
    BY <1>1, EndTypes DEF IInv, Prepared
<1>5. Startable'
    BY <1>1, <1>2, EndTypes, ActiveAreTasks DEF IInv, Startable, Prepared
<1>6. NoPermission'
    BY <1>1, <1>2, EndTypes DEF IInv, NoPermission, Unapproved
<1>7. HighRiskIsReviewed'
    BY <1>1, <1>2 DEF IInv, HighRiskIsReviewed
<1> QED BY <1>3, <1>4, <1>5, <1>6, <1>7 DEF IInv

LEMMA RunCommitKeeps ==
    ASSUME IInv, NEW q \in Requests, RunCommit(q)
    PROVE  IInv'
<1>1. /\ EndRequest(q)
      /\ UNCHANGED <<class, verdict, risk, spec, context, task, approvals>>
      /\ req[q].op = "run" /\ req[q].t \in Tasks
    BY DEF IInv, Prepared, RunCommit
<1>2. \/ UNCHANGED <<queued, active>>
      \/ /\ req[q].out = "queued"
         /\ queued' = queued \cup {req[q].t} /\ active' = active \cup {req[q].t}
    BY DEF RunCommit
<1>3. TypeOK'
    BY <1>1, <1>2, EndTypes DEF IInv, TypeOK
<1>4. Prepared'
    BY <1>1, EndTypes DEF IInv, Prepared
<1>5. Startable'
    BY <1>1, <1>2, EndTypes DEF IInv, Startable
<1>6. NoPermission'
    BY <1>1, EndTypes DEF IInv, NoPermission, Unapproved
<1>7. HighRiskIsReviewed'
    BY <1>1, <1>2 DEF IInv, NoPermission, Unapproved, HighRiskIsReviewed
<1> QED BY <1>3, <1>4, <1>5, <1>6, <1>7 DEF IInv

\* A retry makes its task ready and goes on as the creation of a run.
LEMMA RetryCommitKeeps ==
    ASSUME IInv, NEW q \in Requests, RetryCommit(q)
    PROVE  IInv'
<1> DEFINE r == [Idle EXCEPT !.op = "run", !.t = req[q].t, !.out = GateDecision("ready")]
<1>1. /\ UNCHANGED <<class, verdict, risk, spec, context, approvals, queued, active>>
      /\ req' = [req EXCEPT ![q] = r]
      /\ req[q].op = "retry" /\ req[q].t \in Tasks /\ req[q] \in Request
    BY DEF IInv, TypeOK, Prepared, RetryCommit
<1>2. r \in Request /\ r.op = "run" /\ r.t = req[q].t
    <2>1. GateDecision("ready") \in {"queued", "blocked"}
        BY DEF GateDecision
    <2>2. req[q].t \in 0 .. MaxTasks
        BY <1>1 DEF Request
    <2> QED BY <2>1, <2>2, IdleType DEF Request, Ops
<1> HIDE DEF r
<1>3. /\ task' \in [Tasks -> [status : TaskStatus, spec : 0 .. MaxSpecs]]
      /\ \A u \in Tasks : task'[u] = task[u] \/ task'[u].status = "ready"
    <2>1. "ready" \in TaskStatus \ {"none", "draft"}
        BY DEF TaskStatus
    <2> QED BY <2>1, TaskSetTypes DEF RetryCommit
<1>4. /\ req' \in [Requests -> Request] /\ req'[q] = r
      /\ \A p \in Requests : p # q => req'[p] = req[p]
    BY <1>1, <1>2 DEF IInv, TypeOK
<1>5. TypeOK'
    BY <1>1, <1>3, <1>4 DEF IInv, TypeOK
<1>6. Prepared'
    BY <1>1, <1>2, <1>4 DEF IInv, Prepared
<1>7. Startable'
    BY <1>1, <1>2, <1>3, <1>4, ActiveAreTasks DEF IInv, Startable, Prepared
<1>8. ~Unapproved /\ ~Unapproved'
    BY <1>1 DEF IInv, NoPermission, Unapproved
<1>9. NoPermission' /\ HighRiskIsReviewed'
    BY <1>8 DEF NoPermission, Unapproved, HighRiskIsReviewed
<1> QED BY <1>5, <1>6, <1>7, <1>9 DEF IInv

LEMMA ExecutionMovesKeeps ==
    ASSUME IInv, NEW t \in Tasks, ExecutionMoves(t)
    PROVE  IInv'
<1>1. /\ UNCHANGED <<class, verdict, risk, spec, context, approvals, queued, req>>
      /\ t \in active /\ active' \subseteq active
    BY DEF ExecutionMoves
<1>2. PICK new \in {"running", "completed", "blocked", "ready"} :
          task' = [task EXCEPT ![t].status = new]
    BY DEF ExecutionMoves
<1>3. /\ task' \in [Tasks -> [status : TaskStatus, spec : 0 .. MaxSpecs]]
      /\ task'[t].status = new
      /\ \A u \in Tasks : u # t => task'[u] = task[u]
    BY <1>2 DEF IInv, TypeOK, TaskStatus
<1>4. TypeOK'
    BY <1>1, <1>3 DEF IInv, TypeOK
<1>5. Prepared'
    BY <1>1 DEF IInv, Prepared
<1>6. Startable'
    BY <1>1, <1>3, ActiveAreTasks DEF IInv, Startable, Prepared
<1>7. ~Unapproved /\ ~Unapproved'
    BY <1>1 DEF IInv, TypeOK, HighRiskIsReviewed, Unapproved
<1>8. NoPermission' /\ HighRiskIsReviewed'
    BY <1>7 DEF NoPermission, Unapproved, HighRiskIsReviewed
<1> QED BY <1>4, <1>5, <1>6, <1>8 DEF IInv

-----------------------------------------------------------------------------

LEMMA NextIInv ==
    ASSUME IInv, [Next]_vars PROVE IInv'
<1>1. CASE UNCHANGED vars
    BY <1>1 DEF vars, IInv, TypeOK, Prepared, Startable, NoPermission, Unapproved,
                HighRiskIsReviewed
<1>2. ASSUME NEW q \in Requests, Stage(q) PROVE IInv'
    <2>1. ASSUME ImpactCommit(q) PROVE IInv'
        BY <2>1, EndKeeps DEF ImpactCommit
    <2> QED BY <1>2, <2>1, SpecLoadKeeps, ContextLoadKeeps, ImpactLoadKeeps, TaskLoadKeeps,
               SpecCommitKeeps, ContextCommitKeeps, TaskCommitKeeps DEF Stage
<1>3. ASSUME NEW q \in Requests, Decision(q) PROVE IInv'
    BY <1>3, DecisionLoadKeeps, ApproveCommitKeeps, RejectCommitKeeps DEF Decision
<1>4. ASSUME NEW q \in Requests, Start(q) PROVE IInv'
    BY <1>4, RunLoadKeeps, RetryLoadKeeps, RunCommitKeeps, RetryCommitKeeps DEF Start
<1>5. ASSUME NEW q \in Requests, Abandon(q) PROVE IInv'
    BY <1>5, EndKeeps DEF Abandon
<1> QED BY <1>1, <1>2, <1>3, <1>4, <1>5, ProviderFailsKeeps, ExecutionMovesKeeps DEF Next

LEMMA AlwaysIInv == Spec => []IInv
BY InitIInv, NextIInv, PTL DEF Spec

\* Whatever the numbers of specs, tasks, requests and attempts, every row
\* and every request of the pipeline stays of its type: a provider is not
\* asked more than Attempts times, and only tasks that the gate let through
\* execute.
THEOREM PipelineTypeCorrect == Spec => []TypeOK
<1>1. IInv => TypeOK
    BY DEF IInv
<1> QED BY <1>1, AlwaysIInv, PTL

\* For any number of overlapping stages, retries, rejections and runs: the
\* service executes no high-risk demand, and makes none of its tasks ready,
\* before a human has approved it.
THEOREM HighRiskWaits == Spec => []HighRiskIsReviewed
<1>1. IInv => HighRiskIsReviewed
    BY DEF IInv
<1> QED BY <1>1, AlwaysIInv, PTL

-----------------------------------------------------------------------------

LEMMA StepKeepsDrafts ==
    ASSUME IInv, Next, NEW t \in Tasks,
           task[t].status = "draft", task'[t].status # "draft"
    PROVE  \/ task'[t].status = "blocked"
           \/ task'[t].status = "ready" /\ t \in approvals'
<1>0. task' # task
    OBVIOUS
<1>1. ASSUME NEW q \in Requests, TaskCommit(q) PROVE FALSE
    BY <1>1, NewTask DEF IInv, TypeOK
<1>2. ASSUME NEW q \in Requests, ApproveCommit(q)
      PROVE  task'[t].status = "ready" /\ t \in approvals'
    <2>1. "ready" \in TaskStatus \ {"none", "draft"}
        BY DEF TaskStatus
    <2>2. task' = TaskSet(q, "ready")
        BY <1>0, <1>2 DEF ApproveCommit
    <2>3. t = req[q].t /\ task'[t].status = "ready"
        BY <2>1, <2>2, TaskSetTypes
    <2> QED BY <1>2, <2>3 DEF ApproveCommit
<1>3. ASSUME NEW q \in Requests, RejectCommit(q)
      PROVE  task'[t].status = "blocked"
    <2>1. "blocked" \in TaskStatus \ {"none", "draft"}
        BY DEF TaskStatus
    <2>2. task' = TaskSet(q, "blocked")
        BY <1>0, <1>3 DEF RejectCommit
    <2> QED BY <2>1, <2>2, TaskSetTypes
<1>4. ASSUME NEW q \in Requests, RetryCommit(q) PROVE FALSE
    <2>1. "ready" \in TaskStatus \ {"none", "draft"}
        BY DEF TaskStatus
    <2>2. task' = TaskSet(q, "ready") /\ task[req[q].t].status # "draft"
        BY <1>4 DEF RetryCommit, IInv, Startable
    <2> QED BY <2>1, <2>2, TaskSetTypes
<1>5. ASSUME NEW u \in Tasks, ExecutionMoves(u) PROVE FALSE
    <2>1. task[u].status # "draft" /\ u # t
        BY <1>5 DEF ExecutionMoves, IInv, Startable
    <2>2. PICK new \in TaskStatus : task' = [task EXCEPT ![u].status = new]
        BY <1>5 DEF ExecutionMoves, TaskStatus
    <2> QED BY <2>1, <2>2 DEF IInv, TypeOK
<1>6. ASSUME NEW q \in Requests,
             Stage(q) \/ ProviderFails(q) \/ Decision(q) \/ Start(q) \/ Abandon(q)
      PROVE  TaskCommit(q) \/ ApproveCommit(q) \/ RejectCommit(q) \/ RetryCommit(q)
    BY <1>0, <1>6
       DEF rows, Begin, Stage, SpecLoad, ContextLoad, ImpactLoad, TaskLoad, SpecCommit,
           ContextCommit, ImpactCommit, ProviderFails, Decision, DecisionLoad, Start,
           RunLoad, RetryLoad, RunCommit, Abandon
<1> QED BY <1>1, <1>2, <1>3, <1>4, <1>5, <1>6 DEF Next

\* A task that was created as a draft waits for a human, for any number of
\* requests that serve it at a time: it becomes ready in the commit that
\* records an approval of this task, and is otherwise only ever blocked.
THEOREM DraftWaits == Spec => DraftNeedsDecision
<1>1. IInv /\ [Next]_vars =>
        [\A t \in Tasks :
            task[t].status = "draft" /\ task'[t].status # "draft" =>
                \/ task'[t].status = "blocked"
                \/ /\ task'[t].status = "ready"
                   /\ t \in approvals']_vars
    <2> SUFFICES ASSUME IInv, Next, NEW t \in Tasks,
                        task[t].status = "draft", task'[t].status # "draft"
                 PROVE  \/ task'[t].status = "blocked"
                        \/ task'[t].status = "ready" /\ t \in approvals'
        OBVIOUS
    <2> QED BY StepKeepsDrafts
<1> QED BY <1>1, AlwaysIInv, PTL DEF Spec, DraftNeedsDecision
=============================================================================
