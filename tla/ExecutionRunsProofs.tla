------------------------- MODULE ExecutionRunsProofs -------------------------
(***************************************************************************)
(* Proofs about ExecutionRuns, for every number of runs, tasks, workers    *)
(* and requests and every choice of calls.  The first half lets requests   *)
(* overlap freely.  The second, from SerialInv on, takes them one at a     *)
(* time (Serialized): local executors still run between their two commits, *)
(* leases expire, workers stop and requests are abandoned at any moment.   *)
(***************************************************************************)
EXTENDS ExecutionRuns, FiniteSetTheorems, TLAPS

USE DEF RunStatus, TaskStatus, ActiveStatus

-----------------------------------------------------------------------------
(* What the helpers return. *)

\* A row is a record of a status, a task, an executor kind and evidence.
LEMMA RowFacts ==
  /\ NoRow \in Row
  /\ NoEvidence \in Evidence
  /\ \A x \in Row : /\ x.status \in RunStatus
                    /\ x.task \in Tasks \cup {NoTask}
                    /\ x.ev \in Evidence
BY DEF Row, NoRow, Evidence, NoEvidence

\* An idle slot is a request.
LEMMA IdleType == Idle \in Request
BY RowFacts DEF Idle, Request, Ops

\* A session that has just read its rows is a request.
LEMMA SessionType ==
  ASSUME TypeOK, NEW op \in Ops, NEW rs, NEW ts,
         NEW w \in Workers \cup {NoWorker}
  PROVE  Session(op, rs, ts, w) \in Request
<1>1. [r \in Runs |-> IF r \in rs THEN run[r] ELSE NoRow] \in [Runs -> Row]
  BY RowFacts DEF TypeOK
<1>2. [t \in Tasks |-> IF t \in ts THEN task[t] ELSE "none"]
        \in [Tasks -> TaskStatus \cup {"none"}]
  BY DEF TypeOK
<1> QED
  BY <1>1, <1>2 DEF Session, Request

\* A request stays one as it moves on: to another op with another status of
\* a task, another copy of a run, or what the gate said.
LEMMA RequestUpdate ==
  ASSUME NEW x \in Request, NEW op \in Ops, NEW gate \in BOOLEAN
  PROVE  /\ \A kind \in {"local", "symphony"} :
              /\ [x EXCEPT !.kind = kind] \in Request
              /\ [x EXCEPT !.kind = kind, !.gate = gate] \in Request
         /\ \A t \in Tasks, s \in TaskStatus :
              /\ [x EXCEPT !.op = op, !.tasks[t] = s] \in Request
              /\ [x EXCEPT !.op = op, !.tasks[t] = s, !.gate = gate]
                    \in Request
         /\ \A r \in Runs, row \in Row :
              [x EXCEPT !.op = op, !.rows[r] = row] \in Request
BY DEF Request

\* A row stays one when its status or evidence is replaced.
LEMMA RowUpdate ==
  ASSUME NEW x \in Row, NEW status \in RunStatus, NEW ev \in Evidence
  PROVE  /\ [x EXCEPT !.status = status, !.ev = ev] \in Row
         /\ [x EXCEPT !.ev = ev] \in Row
BY DEF Row

\* A row stays one when its lease runs out.
LEMMA LeaseOverType ==
  ASSUME NEW x \in Row
  PROVE  [x EXCEPT !.ev.lease = "expired"] \in Row
BY DEF Row, Evidence

\* Writing a status and an evidence leaves the rows typed.
LEMMA RunSetType ==
  ASSUME TypeOK, NEW q \in Requests, NEW r \in Runs,
         NEW status \in RunStatus, NEW ev \in Evidence
  PROVE  RunSet(q, r, status, ev) \in [Runs -> Row]
<1> DEFINE new == Flushed(run[r].status, req[q].rows[r].status, status)
           row == [run[r] EXCEPT !.status = new, !.ev = ev]
<1>1. run[r] \in Row /\ run \in [Runs -> Row]
  BY DEF TypeOK
<1>2. new \in RunStatus
  BY <1>1, RowFacts DEF Flushed
<1>3. row \in Row
  BY <1>1, <1>2 DEF Row
<1>4. RunSet(q, r, status, ev) = [run EXCEPT ![r] = row]
  BY DEF RunSet
<1> HIDE DEF row
<1> QED
  BY <1>1, <1>3, <1>4

\* Writing a task status leaves the task rows typed.
LEMMA TaskSetType ==
  ASSUME TypeOK, NEW q \in Requests, NEW t \in Tasks, NEW new \in TaskStatus
  PROVE  TaskSet(q, t, new) \in [Tasks -> TaskStatus]
BY DEF TypeOK, TaskSet, Flushed

\* A lease is evidence.
LEMMA LeasedType ==
  ASSUME NEW ev \in Evidence, NEW w \in Workers \cup {NoWorker}
  PROVE  Leased(ev, w) \in Evidence
BY DEF Leased, Evidence

-----------------------------------------------------------------------------
(* Type correctness. *)

\* What a typed request gives: typed copies of rows and tasks.
LEMMA RequestFacts ==
  ASSUME TypeOK, NEW q \in Requests
  PROVE  /\ req[q] \in Request
         /\ \A r \in Runs : req[q].rows[r] \in Row /\ req[q].rows[r].ev \in Evidence
         /\ \A r \in Runs : run[r] \in Row /\ run[r].ev \in Evidence
         /\ req[q].worker \in Workers \cup {NoWorker}
         /\ LoadedRuns(q) \subseteq Runs
         /\ LoadedTasks(q) \subseteq Tasks
         /\ [req EXCEPT ![q] = Idle] \in [Requests -> Request]
BY IdleType, RowFacts DEF TypeOK, Request, LoadedRuns, LoadedTasks

\* Reading one run and its task.
LEMMA LoadType ==
  ASSUME TypeOK, NEW q \in Requests, NEW r \in Runs, NEW op \in Ops,
         NEW w \in Workers \cup {NoWorker},
         Load(q, op, r, w)
  PROVE  TypeOK'
<1>1. Session(op, {r}, {run[r].task}, w) \in Request
  BY SessionType
<1> QED
  BY <1>1 DEF Load, db, TypeOK

\* What TypeOK does not say of a claim in flight: its worker is a worker.
ClaimHasWorker ==
  \A q \in Requests : req[q].op = "claim" => req[q].worker \in Workers

\* Each of the request's steps keeps the types.
LEMMA TypeStep ==
  ASSUME TypeOK, ClaimHasWorker, [Next]_vars
  PROVE  TypeOK'
<1> USE ExecutionAssumption
<1>1. ASSUME NEW q \in Requests, NEW t \in Tasks, NEW kind \in Kinds,
             CreateLoad(q, t, kind) \/ RetryLoad(q, t, kind)
      PROVE  TypeOK'
  <2>1. /\ Session("create", ActiveRuns(t), {t}, NoWorker) \in Request
        /\ Session("retry", ActiveRuns(t), {t}, NoWorker) \in Request
    BY SessionType DEF Ops
  <2>2. GatePassed(t, task[t]) \in BOOLEAN
    BY DEF GatePassed
  <2>3. /\ [Session("create", ActiveRuns(t), {t}, NoWorker) EXCEPT
               !.kind = kind, !.gate = GatePassed(t, task[t])] \in Request
        /\ [Session("retry", ActiveRuns(t), {t}, NoWorker) EXCEPT
               !.kind = kind] \in Request
    BY <2>1, <2>2, RequestUpdate DEF ExecutionAssumption, Ops
  <2>4. req' \in [Requests -> Request]
    BY <1>1, <2>3 DEF CreateLoad, RetryLoad, TypeOK
  <2> QED
    BY <1>1, <2>4 DEF CreateLoad, RetryLoad, TypeOK, db
<1>2. ASSUME NEW q \in Requests, RetryCommit(q)
      PROVE  TypeOK'
  <2>1. PICK t \in LoadedTasks(q) :
          /\ task' = TaskSet(q, t, "ready")
          /\ req' = [req EXCEPT ![q] =
                [req[q] EXCEPT !.op = "recreate", !.tasks[t] = "ready",
                               !.gate = GatePassed(t, "ready")]]
    BY <1>2 DEF RetryCommit
  <2>2. t \in Tasks /\ task' \in [Tasks -> TaskStatus]
    BY <2>1, TaskSetType DEF LoadedTasks
  <2>3. GatePassed(t, "ready") \in BOOLEAN
    BY DEF GatePassed
  <2>4. [req[q] EXCEPT !.op = "recreate", !.tasks[t] = "ready",
                       !.gate = GatePassed(t, "ready")] \in Request
    BY <2>2, <2>3, RequestFacts, RequestUpdate DEF Ops
  <2>5. req' \in [Requests -> Request]
    BY <2>1, <2>4 DEF TypeOK
  <2> QED
    BY <1>2, <2>2, <2>5 DEF RetryCommit, TypeOK
<1>3. ASSUME NEW q \in Requests, CreateExisting(q) \/ CreateCommit(q)
      PROVE  TypeOK'
  <2>1. ASSUME NEW r \in Runs, NEW row \in Row, AfterCreate(q, r, row)
        PROVE  req' \in [Requests -> Request]
    <3>1. [Idle EXCEPT !.op = "redispatch", !.rows[r] = row] \in Request
      BY IdleType, RequestUpdate DEF Ops
    <3> QED
      BY <2>1, <3>1, IdleType DEF AfterCreate, TypeOK
  <2>2. CASE CreateExisting(q)
    <3>1. PICK r \in LoadedRuns(q) : AfterCreate(q, r, run[r])
      BY <2>2 DEF CreateExisting
    <3>2. r \in Runs /\ run[r] \in Row
      BY RequestFacts
    <3> QED
      BY <2>1, <2>2, <3>1, <3>2 DEF CreateExisting, db, TypeOK
  <2>3. CASE CreateCommit(q)
    <3> DEFINE new(t) ==
          [status |-> IF req[q].gate THEN "queued" ELSE "blocked",
           task |-> t, kind |-> req[q].kind, ev |-> NoEvidence]
    <3>1. PICK r \in Runs, t \in LoadedTasks(q) :
            run' = [run EXCEPT ![r] = new(t)] /\ AfterCreate(q, r, new(t))
      BY <2>3 DEF CreateCommit
    <3>2. new(t) \in Row
      BY RequestFacts, RowFacts DEF Row, Request
    <3> HIDE DEF new
    <3>3. run' \in [Runs -> Row] /\ req' \in [Requests -> Request]
      BY <2>1, <3>1, <3>2 DEF TypeOK
    <3> QED
      BY <2>3, <3>3 DEF CreateCommit, TypeOK
  <2> QED
    BY <1>3, <2>2, <2>3
<1>4. ASSUME NEW q \in Requests, NEW r \in Runs,
             \/ DispatchLoad(q, r) \/ DeferLoad(q, r) \/ PauseLoad(q, r)
             \/ ResumeLoad(q, r) \/ CancelLoad(q, r)
      PROVE  TypeOK'
  <2>1. \E op \in Ops : Load(q, op, r, NoWorker)
    BY <1>4 DEF DispatchLoad, DeferLoad, PauseLoad, ResumeLoad, CancelLoad, Ops
  <2> QED
    BY <2>1, LoadType
<1>5. ASSUME NEW q \in Requests, NEW r \in Runs, NEW w \in Workers,
             ClaimLoad(q, r, w) \/ HeartbeatLoad(q, r, w) \/ CompleteLoad(q, r, w)
      PROVE  TypeOK'
  <2>1. \E op \in Ops : Load(q, op, r, w)
    BY <1>5 DEF ClaimLoad, HeartbeatLoad, CompleteLoad, Ops
  <2> QED
    BY <2>1, LoadType
<1>6. ASSUME NEW q \in Requests, DispatchCommit(q)
      PROVE  TypeOK'
  <2>1. PICK r \in LoadedRuns(q), t \in LoadedTasks(q) :
          /\ run' = RunSet(q, r, "running", run[r].ev)
          /\ task' = TaskSet(q, t, "running")
          /\ req' = [req EXCEPT ![q] =
                [req[q] EXCEPT !.op = "executing", !.tasks[t] = "running"]]
    BY <1>6 DEF DispatchCommit
  <2>2. run' \in [Runs -> Row] /\ task' \in [Tasks -> TaskStatus]
    BY <2>1, RequestFacts, RunSetType, TaskSetType
  <2>3. [req[q] EXCEPT !.op = "executing", !.tasks[t] = "running"] \in Request
    BY RequestFacts, RequestUpdate DEF Ops
  <2>4. req' \in [Requests -> Request]
    BY <2>1, <2>3 DEF TypeOK
  <2> QED
    BY <1>6, <2>2, <2>4 DEF DispatchCommit, TypeOK
<1>7. ASSUME NEW q \in Requests, Refresh(q)
      PROVE  TypeOK'
  <2>1. req' \in [Requests -> Request]
    <3>1. PICK r \in LoadedRuns(q) :
            \/ req' = [req EXCEPT ![q] = Idle]
            \/ req' = [req EXCEPT ![q] =
                   [req[q] EXCEPT !.op = "finish", !.rows[r] = run[r]]]
      BY <1>7 DEF Refresh, EndRequest
    <3>2. [req[q] EXCEPT !.op = "finish", !.rows[r] = run[r]] \in Request
      BY RequestFacts, RequestUpdate DEF Ops
    <3> QED
      BY <3>1, <3>2, IdleType DEF TypeOK
  <2> QED
    BY <1>7, <2>1 DEF Refresh, db, TypeOK
<1>8. ASSUME NEW q \in Requests, NEW succeeded \in BOOLEAN,
             FinishCommit(q, succeeded)
      PROVE  TypeOK'
  <2> DEFINE ev == [NoEvidence EXCEPT !.result =
                      IF succeeded THEN "passed" ELSE "failed"]
  <2>1. PICK r \in LoadedRuns(q), t \in LoadedTasks(q) :
          /\ run' = RunSet(q, r,
                      IF succeeded THEN "succeeded" ELSE "failed", ev)
          /\ task' = TaskSet(q, t, TaskOutcome(succeeded))
          /\ selfTest' = [selfTest EXCEPT ![t] =
                IF succeeded THEN "passed" ELSE "failed"]
    BY <1>8 DEF FinishCommit
  <2>2. ev \in Evidence
    BY RowFacts DEF Evidence
  <2> HIDE DEF ev
  <2>3. run' \in [Runs -> Row]
    BY <2>1, <2>2, RequestFacts, RunSetType
  <2>4. task' \in [Tasks -> TaskStatus]
    BY <2>1, RequestFacts, TaskSetType DEF TaskOutcome
  <2> QED
    BY <1>8, <2>1, <2>3, <2>4, RequestFacts
    DEF FinishCommit, EndRequest, TypeOK
<1>9. ASSUME NEW q \in Requests, DeferCommit(q)
      PROVE  TypeOK'
  <2> DEFINE ev == [NoEvidence EXCEPT !.result = "deferred"]
  <2>1. PICK r \in LoadedRuns(q) :
          run' = RunSet(q, r, "queued", ev) \/ UNCHANGED run
    BY <1>9 DEF DeferCommit
  <2>2. ev \in Evidence
    BY RowFacts DEF Evidence
  <2> HIDE DEF ev
  <2>3. run' \in [Runs -> Row]
    BY <2>1, <2>2, RequestFacts, RunSetType DEF TypeOK
  <2> QED
    BY <1>9, <2>3, RequestFacts DEF DeferCommit, EndRequest, TypeOK
<1>10. ASSUME NEW q \in Requests,
              PauseCommit(q) \/ ResumeCommit(q) \/ CancelCommit(q)
       PROVE  TypeOK'
  <2>1. PICK r \in LoadedRuns(q), t \in LoadedTasks(q),
             status \in RunStatus, new \in TaskStatus :
          /\ run' = RunSet(q, r, status, req[q].rows[r].ev)
          /\ task' = TaskSet(q, t, new)
    BY <1>10 DEF PauseCommit, ResumeCommit, CancelCommit
  <2>2. run' \in [Runs -> Row] /\ task' \in [Tasks -> TaskStatus]
    BY <2>1, RequestFacts, RunSetType, TaskSetType
  <2>3. selfTest' \in [Tasks -> {"none", "passed", "failed"}]
    BY <1>10 DEF PauseCommit, ResumeCommit, CancelCommit, TypeOK
  <2> QED
    BY <1>10, <2>2, <2>3, RequestFacts
    DEF PauseCommit, ResumeCommit, CancelCommit, EndRequest, TypeOK
<1>11. ASSUME NEW q \in Requests, ClaimCommit(q)
       PROVE  TypeOK'
  <2>1. PICK r \in LoadedRuns(q), t \in LoadedTasks(q) :
          \/ /\ run' = [run EXCEPT ![r] = [@ EXCEPT !.status = "running",
                     !.ev = Leased(req[q].rows[r].ev, req[q].worker)]]
             /\ task' = TaskSet(q, t, "running")
             /\ holding' = [holding EXCEPT ![r] = @ \cup {req[q].worker}]
          \/ UNCHANGED <<run, task, holding>>
    BY <1>11 DEF ClaimCommit
  <2>2. [run[r] EXCEPT !.status = "running",
                       !.ev = Leased(req[q].rows[r].ev, req[q].worker)] \in Row
    <3>1. Leased(req[q].rows[r].ev, req[q].worker) \in Evidence
      BY RequestFacts, LeasedType
    <3> QED
      BY <3>1, RequestFacts, RowUpdate
  <2>3. run' \in [Runs -> Row]
    BY <2>1, <2>2 DEF TypeOK
  <2>4. task' \in [Tasks -> TaskStatus]
    BY <2>1, RequestFacts, TaskSetType DEF TypeOK
  <2>5. holding' \in [Runs -> SUBSET Workers]
    <3>1. req[q].worker \in Workers
      BY <1>11 DEF ClaimCommit, ClaimHasWorker
    <3> QED
      BY <2>1, <3>1 DEF TypeOK
  <2> QED
    BY <1>11, <2>3, <2>4, <2>5, RequestFacts
    DEF ClaimCommit, EndRequest, TypeOK
<1>12. ASSUME NEW q \in Requests, HeartbeatCommit(q)
       PROVE  TypeOK'
  <2>1. PICK r \in LoadedRuns(q) :
          run' = [run EXCEPT ![r] =
            [run[r] EXCEPT !.ev = Leased(req[q].rows[r].ev, req[q].worker)]]
    BY <1>12 DEF HeartbeatCommit
  <2>2. [run[r] EXCEPT !.ev = Leased(req[q].rows[r].ev, req[q].worker)] \in Row
    BY RequestFacts, LeasedType DEF Row
  <2>3. run' \in [Runs -> Row]
    BY <2>1, <2>2, RequestFacts DEF TypeOK
  <2> QED
    BY <1>12, <2>3, RequestFacts DEF HeartbeatCommit, EndRequest, TypeOK
<1>13. ASSUME NEW q \in Requests, NEW requested \in BOOLEAN,
              NEW validated \in BOOLEAN,
              CompleteCommit(q, requested, validated)
       PROVE  TypeOK'
  <2>1. PICK r \in LoadedRuns(q), t \in LoadedTasks(q),
             status \in {"succeeded", "failed"}, result \in {"passed", "failed"},
             gate \in {"passed", "failed"}, new \in TaskStatus :
          /\ run' = RunSet(q, r, status,
                      [req[q].rows[r].ev EXCEPT !.result = result])
          /\ task' = TaskSet(q, t, new)
          /\ selfTest' = [selfTest EXCEPT ![t] = gate]
          /\ holding' = [holding EXCEPT ![r] = @ \ {req[q].worker}]
    BY <1>13 DEF CompleteCommit, TaskOutcome
  <2>2. [req[q].rows[r].ev EXCEPT !.result = result] \in Evidence
    BY RequestFacts DEF Evidence
  <2>3. run' \in [Runs -> Row] /\ task' \in [Tasks -> TaskStatus]
    BY <2>1, <2>2, RequestFacts, RunSetType, TaskSetType
  <2> QED
    BY <1>13, <2>1, <2>3, RequestFacts
    DEF CompleteCommit, EndRequest, TypeOK
<1>14. ASSUME NEW q \in Requests, RecoverLoad(q)
       PROVE  TypeOK'
  <2>1. Session("recover", Expired, {run[r].task : r \in Expired}, NoWorker)
          \in Request
    BY SessionType DEF Ops
  <2> QED
    BY <1>14, <2>1 DEF RecoverLoad, db, TypeOK
<1>15. ASSUME NEW q \in Requests, RecoverCommit(q)
       PROVE  TypeOK'
  <2>1. \A r \in Runs :
          [run[r] EXCEPT !.status = "failed", !.ev = req[q].rows[r].ev] \in Row
    BY RequestFacts, RowUpdate
  <2>2. run' \in [Runs -> Row]
    BY <1>15, <2>1, RequestFacts DEF RecoverCommit
  <2>3. /\ task' \in [Tasks -> TaskStatus]
        /\ selfTest' \in [Tasks -> {"none", "passed", "failed"}]
    BY <1>15 DEF RecoverCommit, Flushed, TypeOK
  <2> QED
    BY <1>15, <2>2, <2>3, RequestFacts DEF RecoverCommit, EndRequest, TypeOK
<1>16. ASSUME NEW q \in Requests, NEW t \in Tasks,
              ApproveLoad(q, t) \/ RejectLoad(q, t)
       PROVE  TypeOK'
  <2>1. /\ Session("approve", {}, {t}, NoWorker) \in Request
        /\ Session("reject", {}, {t}, NoWorker) \in Request
    BY SessionType DEF Ops
  <2> QED
    BY <1>16, <2>1 DEF ApproveLoad, RejectLoad, db, TypeOK
<1>17. ASSUME NEW q \in Requests, ApproveCommit(q) \/ RejectCommit(q)
       PROVE  TypeOK'
  <2>1. task' \in [Tasks -> TaskStatus]
    BY <1>17, RequestFacts, TaskSetType DEF ApproveCommit, RejectCommit, TypeOK
  <2>2. approved' \subseteq Tasks
    BY <1>17, RequestFacts DEF ApproveCommit, RejectCommit, TypeOK
  <2> QED
    BY <1>17, <2>1, <2>2, RequestFacts
    DEF ApproveCommit, RejectCommit, EndRequest, TypeOK
<1>18. ASSUME NEW q \in Requests, Abandon(q)
       PROVE  TypeOK'
  BY <1>18, RequestFacts DEF Abandon, EndRequest, db, TypeOK
<1>19. ASSUME NEW r \in Runs, LeaseExpires(r)
       PROVE  TypeOK'
  <2>1. run[r] \in Row
    BY DEF TypeOK
  <2>2. [run[r] EXCEPT !.ev.lease = "expired"] \in Row
    BY <2>1, LeaseOverType
  <2> QED
    BY <1>19, <2>2 DEF LeaseExpires, TypeOK
<1>20. ASSUME NEW w \in Workers, NEW r \in Runs, WorkerStops(w, r)
       PROVE  TypeOK'
  BY <1>20 DEF WorkerStops, db, TypeOK
<1>21. CASE UNCHANGED vars
  BY <1>21 DEF vars, TypeOK
<1> QED
  BY <1>1, <1>2, <1>3, <1>4, <1>5, <1>6, <1>7, <1>8, <1>9, <1>10, <1>11,
     <1>12, <1>13, <1>14, <1>15, <1>16, <1>17, <1>18, <1>19, <1>20, <1>21
  DEF Next, CreateStep, DispatchStep, ControlStep, BridgeStep, ApprovalStep,
      Environment

\* A claim is made by a worker and stays that worker's until it ends.
LEMMA ClaimStep ==
  ASSUME TypeOK, ClaimHasWorker, [Next]_vars
  PROVE  ClaimHasWorker'
<1> SUFFICES ASSUME NEW p \in Requests, req'[p].op = "claim"
             PROVE  req'[p].worker \in Workers
  BY DEF ClaimHasWorker
<1> DEFINE Kept == req' = req
           Moved(x) == \E q \in Requests : req' = [req EXCEPT ![q] = x]
<1>0. /\ Kept => req'[p].worker \in Workers
      /\ \A x : x.op # "claim" /\ Moved(x) => req'[p].worker \in Workers
      /\ Idle.op # "claim"
  BY DEF TypeOK, ClaimHasWorker, Idle
<1>1. ASSUME NEW q \in Requests, CreateStep(q)
      PROVE  req'[p].worker \in Workers
  <2>1. CASE \E t \in Tasks, kind \in Kinds :
                CreateLoad(q, t, kind) \/ RetryLoad(q, t, kind)
    <3>1. \E x : x.op # "claim" /\ Moved(x)
      BY <2>1 DEF CreateLoad, RetryLoad, Session
    <3> QED
      BY <3>1, <1>0
  <2>2. CASE RetryCommit(q)
    <3>1. PICK t \in LoadedTasks(q) :
            req' = [req EXCEPT ![q] =
              [req[q] EXCEPT !.op = "recreate", !.tasks[t] = "ready",
                             !.gate = GatePassed(t, "ready")]]
      BY <2>2 DEF RetryCommit
    <3>2. [req[q] EXCEPT !.op = "recreate", !.tasks[t] = "ready",
                         !.gate = GatePassed(t, "ready")].op = "recreate"
      BY RequestFacts DEF Request
    <3> QED
      BY <3>1, <3>2, <1>0
  <2>3. CASE CreateExisting(q) \/ CreateCommit(q)
    <3>0. PICK r \in Runs : \E row : AfterCreate(q, r, row)
      BY <2>3, RequestFacts DEF CreateExisting, CreateCommit
    <3>1. PICK row : AfterCreate(q, r, row)
      BY <3>0
    <3>2. \/ req' = [req EXCEPT ![q] = Idle]
          \/ req' = [req EXCEPT ![q] =
                       [Idle EXCEPT !.op = "redispatch", !.rows[r] = row]]
      BY <3>1 DEF AfterCreate
    <3>3. [Idle EXCEPT !.op = "redispatch", !.rows[r] = row].op = "redispatch"
      BY DEF Idle
    <3> QED
      BY <3>2, <3>3, <1>0
  <2> QED
    BY <1>1, <2>1, <2>2, <2>3 DEF CreateStep
<1>2. ASSUME NEW q \in Requests, DispatchStep(q)
      PROVE  req'[p].worker \in Workers
  <2>1. CASE \E r \in Runs : DispatchLoad(q, r) \/ DeferLoad(q, r)
    <3>1. \E x : x.op # "claim" /\ Moved(x)
      BY <2>1 DEF DispatchLoad, DeferLoad, Load, Session
    <3> QED
      BY <3>1, <1>0
  <2>2. CASE DispatchCommit(q)
    <3>1. PICK t \in LoadedTasks(q) :
            req' = [req EXCEPT ![q] =
              [req[q] EXCEPT !.op = "executing", !.tasks[t] = "running"]]
      BY <2>2 DEF DispatchCommit
    <3>2. [req[q] EXCEPT !.op = "executing", !.tasks[t] = "running"].op
            = "executing"
      BY RequestFacts DEF Request
    <3> QED
      BY <3>1, <3>2, <1>0
  <2>3. CASE Refresh(q)
    <3>1. PICK r \in LoadedRuns(q) :
            \/ req' = [req EXCEPT ![q] = Idle]
            \/ req' = [req EXCEPT ![q] =
                   [req[q] EXCEPT !.op = "finish", !.rows[r] = run[r]]]
      BY <2>3 DEF Refresh, EndRequest
    <3>2. [req[q] EXCEPT !.op = "finish", !.rows[r] = run[r]].op = "finish"
      BY RequestFacts DEF Request
    <3> QED
      BY <3>1, <3>2, <1>0
  <2>4. CASE DeferCommit(q) \/ \E succeeded \in BOOLEAN : FinishCommit(q, succeeded)
    BY <2>4, <1>0 DEF DeferCommit, FinishCommit, EndRequest
  <2> QED
    BY <1>2, <2>1, <2>2, <2>3, <2>4 DEF DispatchStep
<1>3. ASSUME NEW q \in Requests, ControlStep(q)
      PROVE  req'[p].worker \in Workers
  <2>1. CASE \E r \in Runs :
                PauseLoad(q, r) \/ ResumeLoad(q, r) \/ CancelLoad(q, r)
    <3>1. \E x : x.op # "claim" /\ Moved(x)
      BY <2>1 DEF PauseLoad, ResumeLoad, CancelLoad, Load, Session
    <3> QED
      BY <3>1, <1>0
  <2>2. CASE PauseCommit(q) \/ ResumeCommit(q) \/ CancelCommit(q)
    BY <2>2, <1>0 DEF PauseCommit, ResumeCommit, CancelCommit, EndRequest
  <2> QED
    BY <1>3, <2>1, <2>2 DEF ControlStep
<1>4. ASSUME NEW q \in Requests, BridgeStep(q)
      PROVE  req'[p].worker \in Workers
  <2>1. CASE \E r \in Runs, w \in Workers :
          ClaimLoad(q, r, w) \/ HeartbeatLoad(q, r, w) \/ CompleteLoad(q, r, w)
    <3>1. PICK r \in Runs, w \in Workers, op \in Ops : Load(q, op, r, w)
      BY <2>1 DEF ClaimLoad, HeartbeatLoad, CompleteLoad, Ops
    <3>2. Session(op, {r}, {run[r].task}, w).worker = w
      BY DEF Session
    <3> QED
      BY <3>1, <3>2 DEF Load, TypeOK, ClaimHasWorker
  <2>2. CASE RecoverLoad(q)
    <3>1. \E x : x.op # "claim" /\ Moved(x)
      BY <2>2 DEF RecoverLoad, Session
    <3> QED
      BY <3>1, <1>0
  <2>3. CASE \/ ClaimCommit(q) \/ HeartbeatCommit(q) \/ RecoverCommit(q)
             \/ \E requested, validated \in BOOLEAN :
                  CompleteCommit(q, requested, validated)
    BY <2>3, <1>0
    DEF ClaimCommit, HeartbeatCommit, RecoverCommit, CompleteCommit, EndRequest
  <2> QED
    BY <1>4, <2>1, <2>2, <2>3 DEF BridgeStep
<1>5. ASSUME NEW q \in Requests, ApprovalStep(q)
      PROVE  req'[p].worker \in Workers
  <2>1. CASE \E t \in Tasks : ApproveLoad(q, t) \/ RejectLoad(q, t)
    <3>1. \E x : x.op # "claim" /\ Moved(x)
      BY <2>1 DEF ApproveLoad, RejectLoad, Session
    <3> QED
      BY <3>1, <1>0
  <2>2. CASE ApproveCommit(q) \/ RejectCommit(q)
    BY <2>2, <1>0 DEF ApproveCommit, RejectCommit, EndRequest
  <2> QED
    BY <1>5, <2>1, <2>2 DEF ApprovalStep
<1>6. CASE Environment
  <2>1. Kept \/ Moved(Idle)
    BY <1>6 DEF Environment, Abandon, LeaseExpires, WorkerStops, EndRequest
  <2> QED
    BY <2>1, <1>0
<1>7. CASE UNCHANGED vars
  BY <1>7, <1>0 DEF vars
<1> QED
  BY <1>1, <1>2, <1>3, <1>4, <1>5, <1>6, <1>7 DEF Next

\* The initial state is typed.
LEMMA TypeInit ==
  ASSUME Init
  PROVE  TypeOK /\ ClaimHasWorker
BY RowFacts, IdleType DEF Init, TypeOK, ClaimHasWorker, Idle

\* Whatever the requests do and however they overlap, rows, sessions and
\* claims stay what the tables and the handlers declare: in particular no
\* handler writes a status outside ExecutionRunStatus or CodingTaskStatus.
THEOREM TypeCorrect == Spec => []TypeOK
<1>1. TypeOK /\ ClaimHasWorker /\ [Next]_vars => (TypeOK /\ ClaimHasWorker)'
  BY TypeStep, ClaimStep
<1> QED
  BY TypeInit, <1>1, PTL DEF Spec

-----------------------------------------------------------------------------
(* No run without approval, and no run that comes back from "blocked".     *)
(*                                                                         *)
(* NoUnapprovedHighRisk is not inductive: a request in flight could hold   *)
(* a run it must not start, or a gate decision it must not act upon.       *)
(* Permitted says what the loads establish and every step keeps.           *)

Unapproved == HighRisk \ approved

\* Request x has loaded only runs that exist, that the gate has not blocked
\* and whose task needs no approval or has it; the gate it has passed was
\* passed for the one task it has loaded.
Permitted(x) ==
  /\ \A r \in Runs :
        x.rows[r].status # "none" =>
          /\ run[r].status \notin {"none", "blocked"}
          /\ run[r].task \notin Unapproved
  /\ x.op \in {"create", "recreate"} /\ x.gate =>
        \A t \in Tasks : x.tasks[t] # "none" => t \notin Unapproved
  /\ x.op \in {"retry", "create", "recreate"} =>
        \A t, u \in Tasks :
          x.tasks[t] # "none" /\ x.tasks[u] # "none" => t = u

ApprovalInv ==
  /\ NoUnapprovedHighRisk
  /\ \A q \in Requests : Permitted(req[q])

\* What every step does to the rows: a run that exists keeps its task and
\* its existence; one that is blocked stays, and none becomes blocked later;
\* a new run is blocked unless its task needs no approval or has it.
RowsKept ==
  \A r \in Runs :
    /\ run[r].status # "none" =>
         /\ run'[r].task = run[r].task
         /\ run'[r].status # "none"
         /\ run[r].status = "blocked" => run'[r] = run[r]
         /\ run'[r].status = "blocked" => run[r].status = "blocked"
    /\ run[r].status = "none" =>
         \/ run'[r] = run[r]
         \/ run'[r].status = "blocked"
         \/ run'[r].task \notin Unapproved

\* What every step does to the requests: one is as it was, or idle, or
\* Permitted by what it has read.
RequestsKept ==
  \A q \in Requests :
    req'[q] = req[q] \/ req'[q] = Idle \/ Permitted(req[q])'

\* The rows and the approvals are all that Permitted depends on.
LEMMA InvKept ==
  ASSUME ApprovalInv, RowsKept, RequestsKept, approved \subseteq approved'
  PROVE  ApprovalInv'
<1>1. NoUnapprovedHighRisk'
  BY DEF ApprovalInv, NoUnapprovedHighRisk, RowsKept, Unapproved
<1>2. ASSUME NEW p \in Requests, req'[p] = req[p]
      PROVE  Permitted(req[p])'
  BY <1>2 DEF ApprovalInv, Permitted, RowsKept, Unapproved
<1>3. ASSUME NEW p \in Requests, req'[p] = Idle
      PROVE  Permitted(req[p])'
  BY <1>3 DEF Permitted, Idle, NoRow
<1> QED
  BY <1>1, <1>2, <1>3 DEF ApprovalInv, RequestsKept

\* A request that only reads a run that may be started or controlled.
LEMMA LoadKeeps ==
  ASSUME TypeOK, ApprovalInv, NEW q \in Requests, NEW r \in Runs,
         NEW op \in Ops \ {"create", "recreate", "retry"}, NEW w,
         Load(q, op, r, w), run[r].status \notin {"none", "blocked"}
  PROVE  RowsKept /\ RequestsKept /\ UNCHANGED approved
<1>1. Permitted(req[q])'
  BY DEF Load, Permitted, Session, db, TypeOK, ApprovalInv,
         NoUnapprovedHighRisk, Unapproved, NoRow
<1> QED
  BY <1>1 DEF Load, db, RowsKept, RequestsKept, TypeOK

\* A request that ends leaves nothing behind.
LEMMA EndLeaves ==
  ASSUME TypeOK, NEW q \in Requests, EndRequest(q)
  PROVE  RequestsKept
BY DEF EndRequest, RequestsKept, TypeOK

\* Writing a loaded run.
LEMMA RunSetKeeps ==
  ASSUME TypeOK, ApprovalInv, NEW q \in Requests, NEW r \in LoadedRuns(q),
         NEW status \in RunStatus \ {"none", "blocked"}, NEW ev,
         run' = RunSet(q, r, status, ev)
  PROVE  RowsKept
<1>1. r \in Runs /\ run[r].status \notin {"none", "blocked"}
  BY DEF LoadedRuns, ApprovalInv, Permitted
<1> DEFINE new == Flushed(run[r].status, req[q].rows[r].status, status)
<1>2. new \notin {"none", "blocked"}
  BY <1>1 DEF Flushed
<1>3. run' = [run EXCEPT ![r] = [run[r] EXCEPT !.status = new, !.ev = ev]]
  BY DEF RunSet
<1> HIDE DEF new
<1>4. /\ \A x \in Runs \ {r} : run'[x] = run[x]
      /\ run'[r].task = run[r].task
      /\ run'[r].status = new
  BY <1>1, <1>3, RequestFacts DEF TypeOK, Row
<1> QED
  BY <1>1, <1>2, <1>4 DEF RowsKept

\* Writing the loaded run in any other way that does not block it.
LEMMA RowWriteKeeps ==
  ASSUME TypeOK, ApprovalInv, NEW r \in Runs, NEW row,
         run[r].status \notin {"none", "blocked"},
         run' = [run EXCEPT ![r] = row],
         row.task = run[r].task, row.status \notin {"none", "blocked"}
  PROVE  RowsKept
BY DEF RowsKept, TypeOK

\* Every step keeps the rows and the invariant.
LEMMA ApprovalStepKeeps ==
  ASSUME TypeOK, ApprovalInv, [Next]_vars
  PROVE  ApprovalInv' /\ RowsKept
<1> USE ExecutionAssumption
<1> DEFINE Goal == ApprovalInv' /\ RowsKept
<1>0. /\ RequestsKept /\ RowsKept /\ approved \subseteq approved' => Goal
      /\ UNCHANGED run => RowsKept
  BY InvKept DEF RowsKept
<1>1. ASSUME NEW q \in Requests, NEW t \in Tasks, NEW kind \in Kinds,
             CreateLoad(q, t, kind) \/ RetryLoad(q, t, kind)
      PROVE  Goal
  <2>1. \A p \in Requests \ {q} : req'[p] = req[p]
    BY <1>1 DEF CreateLoad, RetryLoad, TypeOK
  <2>2. /\ req'[q].op \in {"create", "retry"}
        /\ req'[q].op = "create" => req'[q].gate = GatePassed(t, task[t])
        /\ req'[q].rows =
             [r \in Runs |-> IF r \in ActiveRuns(t) THEN run[r] ELSE NoRow]
        /\ req'[q].tasks =
             [u \in Tasks |-> IF u \in {t} THEN task[u] ELSE "none"]
    <3>1. CASE CreateLoad(q, t, kind)
      <4>1. req'[q] = [Session("create", ActiveRuns(t), {t}, NoWorker)
                         EXCEPT !.kind = kind, !.gate = GatePassed(t, task[t])]
        BY <3>1 DEF CreateLoad, TypeOK
      <4> QED
        BY <4>1 DEF Session
    <3>2. CASE RetryLoad(q, t, kind)
      <4>1. req'[q] = [Session("retry", ActiveRuns(t), {t}, NoWorker)
                         EXCEPT !.kind = kind]
        BY <3>2 DEF RetryLoad, TypeOK
      <4> QED
        BY <4>1 DEF Session
    <3> QED
      BY <1>1, <3>1, <3>2
  <2>3. UNCHANGED <<run, approved>>
    BY <1>1 DEF CreateLoad, RetryLoad, db
  <2>4. Permitted(req[q])'
    <3>1. ASSUME NEW r \in Runs, req'[q].rows[r].status # "none"
          PROVE  run[r].status \notin {"none", "blocked"}
                 /\ run[r].task \notin Unapproved
      BY <2>2, <3>1
      DEF ActiveRuns, NoRow, ApprovalInv, NoUnapprovedHighRisk, Unapproved
    <3>2. req'[q].op = "create" /\ req'[q].gate => t \notin Unapproved
      BY <2>2 DEF GatePassed, ManuallyApproved, Unapproved
    <3> QED
      BY <2>2, <2>3, <3>1, <3>2 DEF Permitted, Unapproved
  <2> QED
    BY <1>0, <2>1, <2>3, <2>4 DEF RequestsKept
<1>2. ASSUME NEW q \in Requests, RetryCommit(q)
      PROVE  Goal
  <2>1. PICK t \in LoadedTasks(q) :
            req' = [req EXCEPT ![q] =
              [req[q] EXCEPT !.op = "recreate", !.tasks[t] = "ready",
                             !.gate = GatePassed(t, "ready")]]
    BY <1>2 DEF RetryCommit
  <2>2. /\ req'[q].op = "recreate"
        /\ req'[q].gate = GatePassed(t, "ready")
        /\ req'[q].rows = req[q].rows
        /\ req'[q].tasks = [req[q].tasks EXCEPT ![t] = "ready"]
        /\ \A p \in Requests \ {q} : req'[p] = req[p]
    BY <2>1, RequestFacts DEF TypeOK, Request
  <2>3. \A u \in Tasks : req'[q].tasks[u] # "none" => u = t
    BY <1>2, <2>2, RequestFacts
    DEF RetryCommit, ApprovalInv, Permitted, LoadedTasks, Request
  <2>4. req'[q].gate => t \notin Unapproved
    BY <2>2 DEF GatePassed, ManuallyApproved, Unapproved
  <2>5. UNCHANGED <<run, approved>>
    BY <1>2 DEF RetryCommit
  <2>6. Permitted(req[q])'
    BY <2>2, <2>3, <2>4, <2>5 DEF Permitted, ApprovalInv, Unapproved
  <2> QED
    BY <1>0, <2>2, <2>5, <2>6 DEF RequestsKept
<1>3. ASSUME NEW q \in Requests, NEW r \in Runs, NEW row \in Row,
             AfterCreate(q, r, row), UNCHANGED approved,
             row.status = "queued" =>
               /\ run'[r].status \notin {"none", "blocked"}
               /\ run'[r].task \notin Unapproved
      PROVE  RequestsKept
  <2> DEFINE x == [Idle EXCEPT !.op = "redispatch", !.rows[r] = row]
  <2>1. /\ x.op = "redispatch"
        /\ x.rows = [y \in Runs |-> IF y = r THEN row ELSE NoRow]
    BY DEF Idle
  <2> HIDE DEF x
  <2>2. \/ req' = [req EXCEPT ![q] = Idle]
        \/ req' = [req EXCEPT ![q] = x] /\ row.status = "queued"
    BY <1>3 DEF AfterCreate, x
  <2>3. ASSUME req'[q] = x, row.status = "queued"
        PROVE  Permitted(req[q])'
    BY <1>3, <2>1, <2>3 DEF Permitted, NoRow, Unapproved
  <2> QED
    BY <2>2, <2>3 DEF RequestsKept, TypeOK
<1>4. ASSUME NEW q \in Requests, CreateExisting(q) \/ CreateCommit(q)
      PROVE  Goal
  <2>1. CASE CreateExisting(q)
    <3>1. PICK r \in LoadedRuns(q) : AfterCreate(q, r, run[r])
      BY <2>1 DEF CreateExisting
    <3>2. /\ r \in Runs /\ run[r] \in Row
          /\ run[r].status \notin {"none", "blocked"}
          /\ run[r].task \notin Unapproved
      BY RequestFacts DEF LoadedRuns, ApprovalInv, Permitted
    <3>3. UNCHANGED <<run, approved>>
      BY <2>1 DEF CreateExisting, db
    <3> QED
      BY <1>0, <1>3, <3>1, <3>2, <3>3
  <2>2. CASE CreateCommit(q)
    <3> DEFINE new(t) ==
          [status |-> IF req[q].gate THEN "queued" ELSE "blocked",
           task |-> t, kind |-> req[q].kind, ev |-> NoEvidence]
    <3>1. PICK r \in Runs, t \in LoadedTasks(q) :
            /\ run[r].status = "none"
            /\ run' = [run EXCEPT ![r] = new(t)]
            /\ AfterCreate(q, r, new(t))
      BY <2>2 DEF CreateCommit
    <3>2. new(t) \in Row
      BY RequestFacts, RowFacts DEF Row, Request
    <3>3. /\ new(t).task = t
          /\ new(t).status \in {"queued", "blocked"}
          /\ new(t).status = "queued" => t \notin Unapproved
      BY <2>2 DEF CreateCommit, ApprovalInv, Permitted, LoadedTasks
    <3> HIDE DEF new
    <3>4. run'[r] = new(t) /\ \A y \in Runs \ {r} : run'[y] = run[y]
      BY <3>1 DEF TypeOK
    <3>5. RowsKept
      BY <3>1, <3>3, <3>4 DEF RowsKept
    <3>6. UNCHANGED approved
      BY <2>2 DEF CreateCommit
    <3>7. RequestsKept
      BY <1>3, <3>1, <3>2, <3>3, <3>4, <3>6
    <3> QED
      BY <1>0, <3>5, <3>6, <3>7
  <2> QED
    BY <1>4, <2>1, <2>2
<1>5. ASSUME NEW q \in Requests, NEW r \in Runs,
             \/ DispatchLoad(q, r) \/ DeferLoad(q, r) \/ PauseLoad(q, r)
             \/ ResumeLoad(q, r) \/ CancelLoad(q, r)
      PROVE  Goal
  <2>1. PICK op \in Ops \ {"create", "recreate", "retry"} :
          Load(q, op, r, NoWorker)
    BY <1>5 DEF DispatchLoad, DeferLoad, PauseLoad, ResumeLoad, CancelLoad, Ops
  <2>2. run[r].status \notin {"none", "blocked"}
    BY <1>5 DEF DispatchLoad, DeferLoad, PauseLoad, ResumeLoad, CancelLoad
  <2> QED
    BY <1>0, <2>1, <2>2, LoadKeeps
<1>6. ASSUME NEW q \in Requests, NEW r \in Runs, NEW w \in Workers,
             ClaimLoad(q, r, w) \/ HeartbeatLoad(q, r, w) \/ CompleteLoad(q, r, w)
      PROVE  Goal
  <2>1. PICK op \in Ops \ {"create", "recreate", "retry"} : Load(q, op, r, w)
    BY <1>6 DEF ClaimLoad, HeartbeatLoad, CompleteLoad, Ops
  <2>2. run[r].status \notin {"none", "blocked"}
    BY <1>6 DEF ClaimLoad, HeartbeatLoad, CompleteLoad, Owned
  <2> QED
    BY <1>0, <2>1, <2>2, LoadKeeps
<1>7. ASSUME NEW q \in Requests, DispatchCommit(q)
      PROVE  Goal
  <2>1. PICK r \in LoadedRuns(q), t \in LoadedTasks(q) :
          /\ run' = RunSet(q, r, "running", run[r].ev)
          /\ req' = [req EXCEPT ![q] =
                [req[q] EXCEPT !.op = "executing", !.tasks[t] = "running"]]
    BY <1>7 DEF DispatchCommit
  <2>2. RowsKept
    BY <2>1, RunSetKeeps
  <2>3. /\ req'[q].op = "executing"
        /\ req'[q].rows = req[q].rows
        /\ \A p \in Requests \ {q} : req'[p] = req[p]
    BY <2>1, RequestFacts DEF TypeOK, Request
  <2>4. UNCHANGED approved
    BY <1>7 DEF DispatchCommit
  <2>5. Permitted(req[q])'
    BY <2>2, <2>3, <2>4 DEF Permitted, ApprovalInv, RowsKept, Unapproved
  <2> QED
    BY <1>0, <2>2, <2>3, <2>4, <2>5 DEF RequestsKept
<1>8. ASSUME NEW q \in Requests, Refresh(q)
      PROVE  Goal
  <2>1. PICK r \in LoadedRuns(q) :
          \/ req' = [req EXCEPT ![q] = Idle]
          \/ req' = [req EXCEPT ![q] =
                 [req[q] EXCEPT !.op = "finish", !.rows[r] = run[r]]]
    BY <1>8 DEF Refresh, EndRequest
  <2>2. UNCHANGED <<run, approved>>
    BY <1>8 DEF Refresh, db
  <2>3. CASE req' = [req EXCEPT ![q] = Idle]
    BY <1>0, <2>2, <2>3, EndLeaves DEF EndRequest
  <2>4. CASE req' = [req EXCEPT ![q] =
                 [req[q] EXCEPT !.op = "finish", !.rows[r] = run[r]]]
    <3>1. /\ req'[q].op = "finish"
          /\ req'[q].rows = [req[q].rows EXCEPT ![r] = run[r]]
          /\ \A p \in Requests \ {q} : req'[p] = req[p]
      BY <2>4, RequestFacts DEF TypeOK, Request
    <3>2. \A y \in Runs :
            req'[q].rows[y].status # "none" => req[q].rows[y].status # "none"
      BY <3>1, RequestFacts DEF LoadedRuns, Request
    <3>3. Permitted(req[q])'
      BY <2>2, <3>1, <3>2 DEF Permitted, ApprovalInv, Unapproved
    <3> QED
      BY <1>0, <2>2, <3>1, <3>3 DEF RequestsKept
  <2> QED
    BY <2>1, <2>3, <2>4
<1>9. ASSUME NEW q \in Requests, NEW succeeded \in BOOLEAN,
             FinishCommit(q, succeeded)
      PROVE  Goal
  <2>1. PICK r \in LoadedRuns(q), status \in {"succeeded", "failed"} :
          \E ev : run' = RunSet(q, r, status, ev)
    BY <1>9 DEF FinishCommit
  <2> QED
    BY <1>0, <1>9, <2>1, RunSetKeeps, EndLeaves DEF FinishCommit
<1>10. ASSUME NEW q \in Requests, DeferCommit(q)
       PROVE  Goal
  <2>1. PICK r \in LoadedRuns(q) :
          (\E ev : run' = RunSet(q, r, "queued", ev)) \/ UNCHANGED run
    BY <1>10 DEF DeferCommit
  <2> QED
    BY <1>0, <1>10, <2>1, RunSetKeeps, EndLeaves DEF DeferCommit
<1>11. ASSUME NEW q \in Requests,
              PauseCommit(q) \/ ResumeCommit(q) \/ CancelCommit(q)
       PROVE  Goal
  <2>1. PICK r \in LoadedRuns(q), status \in {"paused", "queued", "cancelled"} :
          \E ev : run' = RunSet(q, r, status, ev)
    BY <1>11 DEF PauseCommit, ResumeCommit, CancelCommit
  <2> QED
    BY <1>0, <1>11, <2>1, RunSetKeeps, EndLeaves
    DEF PauseCommit, ResumeCommit, CancelCommit
<1>12. ASSUME NEW q \in Requests, ClaimCommit(q) \/ HeartbeatCommit(q)
       PROVE  Goal
  <2> DEFINE claimed(r) == [run[r] EXCEPT !.status = "running",
                              !.ev = Leased(req[q].rows[r].ev, req[q].worker)]
             renewed(r) == [run[r] EXCEPT
                              !.ev = Leased(req[q].rows[r].ev, req[q].worker)]
  <2>1. PICK r \in LoadedRuns(q) :
          \/ UNCHANGED run
          \/ run' = [run EXCEPT ![r] = claimed(r)]
          \/ run' = [run EXCEPT ![r] = renewed(r)]
    BY <1>12 DEF ClaimCommit, HeartbeatCommit
  <2>2. r \in Runs /\ run[r].status \notin {"none", "blocked"}
    BY DEF LoadedRuns, ApprovalInv, Permitted
  <2>3. /\ claimed(r).task = run[r].task
        /\ claimed(r).status = "running"
        /\ renewed(r).task = run[r].task
        /\ renewed(r).status = run[r].status
    BY <2>2, RequestFacts DEF Row
  <2> HIDE DEF claimed, renewed
  <2>4. RowsKept
    BY <1>0, <2>1, <2>2, <2>3, RowWriteKeeps
  <2> QED
    BY <1>0, <1>12, <2>4, EndLeaves DEF ClaimCommit, HeartbeatCommit
<1>13. ASSUME NEW q \in Requests, NEW requested \in BOOLEAN,
              NEW validated \in BOOLEAN,
              CompleteCommit(q, requested, validated)
       PROVE  Goal
  <2>1. PICK r \in LoadedRuns(q), status \in {"succeeded", "failed"} :
          \E ev : run' = RunSet(q, r, status, ev)
    BY <1>13 DEF CompleteCommit
  <2> QED
    BY <1>0, <1>13, <2>1, RunSetKeeps, EndLeaves DEF CompleteCommit
<1>14. ASSUME NEW q \in Requests, RecoverLoad(q)
       PROVE  Goal
  <2> DEFINE x == Session("recover", Expired, {run[r].task : r \in Expired},
                          NoWorker)
  <2>1. /\ x.op = "recover"
        /\ x.rows = [r \in Runs |-> IF r \in Expired THEN run[r] ELSE NoRow]
    BY DEF Session
  <2> HIDE DEF x
  <2>2. /\ req'[q] = x /\ \A p \in Requests \ {q} : req'[p] = req[p]
        /\ UNCHANGED <<run, approved>>
    BY <1>14 DEF RecoverLoad, db, TypeOK, x
  <2>3. Permitted(req[q])'
    BY <2>1, <2>2
    DEF Permitted, Expired, NoRow, ApprovalInv, NoUnapprovedHighRisk, Unapproved
  <2> QED
    BY <1>0, <2>2, <2>3 DEF RequestsKept
<1>15. ASSUME NEW q \in Requests, RecoverCommit(q)
       PROVE  Goal
  <2> DEFINE ended(r) ==
        [run[r] EXCEPT !.status = "failed", !.ev = req[q].rows[r].ev]
  <2>1. \A r \in Runs :
          run'[r] = IF r \in LoadedRuns(q) THEN ended(r) ELSE run[r]
    BY <1>15 DEF RecoverCommit
  <2>2. \A r \in LoadedRuns(q) : run[r].status \notin {"none", "blocked"}
    BY DEF LoadedRuns, ApprovalInv, Permitted
  <2>3. \A r \in Runs :
          ended(r).task = run[r].task /\ ended(r).status = "failed"
    BY RequestFacts DEF Row
  <2> HIDE DEF ended
  <2>4. RowsKept
    BY <2>1, <2>2, <2>3 DEF RowsKept
  <2> QED
    BY <1>0, <1>15, <2>4, EndLeaves DEF RecoverCommit
<1>16. ASSUME NEW q \in Requests, NEW t \in Tasks,
              ApproveLoad(q, t) \/ RejectLoad(q, t)
       PROVE  Goal
  <2>1. PICK op \in {"approve", "reject"} :
          req' = [req EXCEPT ![q] = Session(op, {}, {t}, NoWorker)]
    BY <1>16 DEF ApproveLoad, RejectLoad
  <2>2. UNCHANGED <<run, approved>>
    BY <1>16 DEF ApproveLoad, RejectLoad, db
  <2>3. /\ Session(op, {}, {t}, NoWorker).op = op
        /\ Session(op, {}, {t}, NoWorker).rows = [r \in Runs |-> NoRow]
    BY DEF Session
  <2>4. Permitted(req[q])'
    BY <2>1, <2>3 DEF Permitted, NoRow, TypeOK
  <2> QED
    BY <1>0, <2>1, <2>2, <2>4 DEF RequestsKept, TypeOK
<1>17. ASSUME NEW q \in Requests, ApproveCommit(q) \/ RejectCommit(q)
       PROVE  Goal
  BY <1>0, <1>17, EndLeaves DEF ApproveCommit, RejectCommit
<1>18. ASSUME NEW q \in Requests, Abandon(q)
       PROVE  Goal
  BY <1>0, <1>18, EndLeaves DEF Abandon, db
<1>19. ASSUME NEW r \in Runs, LeaseExpires(r)
       PROVE  Goal
  <2>1. /\ run[r].status = "running"
        /\ run' = [run EXCEPT ![r] = [run[r] EXCEPT !.ev.lease = "expired"]]
        /\ UNCHANGED <<approved, req>>
    BY <1>19 DEF LeaseExpires, TypeOK
  <2>2. /\ [run[r] EXCEPT !.ev.lease = "expired"].task = run[r].task
        /\ [run[r] EXCEPT !.ev.lease = "expired"].status = "running"
    BY <2>1, RequestFacts DEF Row
  <2>3. RowsKept
    BY <2>1, <2>2, RowWriteKeeps
  <2> QED
    BY <1>0, <2>1, <2>3 DEF RequestsKept
<1>20. ASSUME NEW w \in Workers, NEW r \in Runs, WorkerStops(w, r)
       PROVE  Goal
  BY <1>0, <1>20 DEF WorkerStops, db, RequestsKept
<1>21. CASE UNCHANGED vars
  BY <1>0, <1>21 DEF vars, RequestsKept
<1> QED
  BY <1>1, <1>2, <1>4, <1>5, <1>6, <1>7, <1>8, <1>9, <1>10, <1>11, <1>12,
     <1>13, <1>14, <1>15, <1>16, <1>17, <1>18, <1>19, <1>20, <1>21
  DEF Next, CreateStep, DispatchStep, ControlStep, BridgeStep, ApprovalStep,
      Environment

\* Nothing has been created or loaded at the start.
LEMMA ApprovalInit ==
  ASSUME Init
  PROVE  ApprovalInv
BY ExecutionAssumption
DEF Init, ApprovalInv, NoUnapprovedHighRisk, Permitted, Idle, NoRow,
    Unapproved, ExecutionAssumption

\* All that the two theorems below need of a state.
LEMMA InvariantsHold ==
  Spec => [](TypeOK /\ ClaimHasWorker /\ ApprovalInv)
<1>1. Init => TypeOK /\ ClaimHasWorker /\ ApprovalInv
  BY TypeInit, ApprovalInit
<1>2. TypeOK /\ ClaimHasWorker /\ ApprovalInv /\ [Next]_vars
        => (TypeOK /\ ClaimHasWorker /\ ApprovalInv)'
  BY TypeStep, ClaimStep, ApprovalStepKeeps
<1> QED
  BY <1>1, <1>2, PTL DEF Spec

\* A run of a high-risk demand that no human has approved is never queued,
\* claimed, dispatched or finished, however many requests create, retry,
\* approve, control and recover at once.
THEOREM HighRiskNeedsApproval == Spec => []NoUnapprovedHighRisk
<1>1. ApprovalInv => NoUnapprovedHighRisk
  BY DEF ApprovalInv
<1> QED
  BY InvariantsHold, <1>1, PTL

\* The record of a refused start never comes to life and is never changed.
THEOREM BlockedStays == Spec => BlockedIsFinal
<1>1. TypeOK /\ ApprovalInv /\ [Next]_vars
        => [\A r \in Runs :
               run[r].status = "blocked" => run'[r] = run[r]]_vars
  BY ApprovalStepKeeps DEF RowsKept
<1> QED
  BY InvariantsHold, <1>1, PTL DEF Spec, BlockedIsFinal

-----------------------------------------------------------------------------
(* At most one worker per run.                                             *)
(*                                                                         *)
(* ClaimedOnce is not inductive: a claim must find a queued run free, and  *)
(* nothing in flight may queue a run again.  A paused run may still have a *)
(* worker (the pause and the claim overlapped), so resuming it would.      *)

\* A run that waits has no worker.
QueuedIsFree ==
  \A r \in Runs : run[r].status \in {"none", "queued"} => holding[r] = {}

OneHolder == \A r \in Runs : \E w : holding[r] \subseteq {w}

\* Request x does not resume, and leaves a run it defers as it has seen it.
KeepsQueue(x) ==
  /\ x.op # "resume"
  /\ x.op = "defer" =>
       \A r \in Runs : x.rows[r].status # "none" => x.rows[r].status = "queued"

HoldingInv ==
  /\ QueuedIsFree
  /\ OneHolder
  /\ \A q \in Requests : KeepsQueue(req[q])

\* What every step does to the rows and the claims: a run is queued only when
\* it is created, and a worker comes to a run only from the queue.
QueueKept ==
  /\ \A r \in Runs :
       run'[r].status \in {"none", "queued"} =>
         run[r].status \in {"none", "queued"}
  /\ \A r \in Runs :
       \/ holding'[r] \subseteq holding[r]
       \/ /\ run[r].status = "queued" /\ run'[r].status = "running"
          /\ \E w : holding'[r] = holding[r] \cup {w}

\* With that it is enough to look at the request a step has changed.
LEMMA HoldingKept ==
  ASSUME HoldingInv, QueueKept,
         \A r \in Runs : holding'[r] \subseteq holding[r] \/ run[r].status = "queued",
         \A q \in Requests : req'[q] = req[q] \/ KeepsQueue(req'[q])
  PROVE  HoldingInv'
<1>1. QueuedIsFree'
  BY DEF HoldingInv, QueuedIsFree, QueueKept
<1>2. ASSUME NEW r \in Runs
      PROVE  \E w : holding'[r] \subseteq {w}
  <2>1. CASE holding'[r] \subseteq holding[r]
    BY <2>1 DEF HoldingInv, OneHolder
  <2>2. CASE ~(holding'[r] \subseteq holding[r])
    <3>1. holding[r] = {}
      BY <2>2 DEF HoldingInv, QueuedIsFree
    <3>2. PICK w : holding'[r] = holding[r] \cup {w}
      BY <2>2 DEF QueueKept
    <3>3. holding'[r] \subseteq {w}
      BY <3>1, <3>2
    <3> QED BY <3>3
  <2> QED BY <2>1, <2>2
<1>3. OneHolder'
  BY <1>2 DEF OneHolder
<1>4. \A q \in Requests : KeepsQueue(req[q])'
  BY DEF HoldingInv, KeepsQueue
<1> QED BY <1>1, <1>3, <1>4 DEF HoldingInv

\* A request that waits for nothing any more.
LEMMA IdleKeepsQueue ==
  ASSUME TypeOK, NEW q \in Requests, EndRequest(q)
  PROVE  \A p \in Requests : req'[p] = req[p] \/ KeepsQueue(req'[p])
BY DEF EndRequest, TypeOK, KeepsQueue, Idle

\* Writing a status other than "queued" to a loaded run, or "queued" over a
\* copy that says so, queues nothing.
LEMMA RunSetQueues ==
  ASSUME TypeOK, ApprovalInv, NEW q \in Requests, NEW r \in LoadedRuns(q),
         NEW status \in RunStatus \ {"none"}, NEW ev,
         run' = RunSet(q, r, status, ev),
         status = "queued" => req[q].rows[r].status = "queued",
         UNCHANGED holding
  PROVE  QueueKept
<1>1. r \in Runs /\ run[r].status # "none"
  BY DEF LoadedRuns, ApprovalInv, Permitted
<1> DEFINE new == Flushed(run[r].status, req[q].rows[r].status, status)
<1>2. new \in {"none", "queued"} => run[r].status \in {"none", "queued"}
  BY DEF Flushed
<1>3. run' = [run EXCEPT ![r] = [run[r] EXCEPT !.status = new, !.ev = ev]]
  BY DEF RunSet
<1> HIDE DEF new
<1>4. /\ \A x \in Runs \ {r} : run'[x] = run[x]
      /\ run'[r].status = new
  BY <1>1, <1>3, RequestFacts DEF TypeOK, Row
<1> QED BY <1>2, <1>4 DEF QueueKept

\* A request that reads.
LEMMA ReadQueues ==
  ASSUME TypeOK, NEW q \in Requests, NEW x, KeepsQueue(x),
         req' = [req EXCEPT ![q] = x], UNCHANGED <<run, holding>>
  PROVE  /\ QueueKept
         /\ \A p \in Requests : req'[p] = req[p] \/ KeepsQueue(req'[p])
BY DEF TypeOK, QueueKept

\* Every step keeps the queue and the claims, unless somebody resumes.
LEMMA HoldingStep ==
  ASSUME "resume" \notin Calls, TypeOK, ClaimHasWorker, ApprovalInv, HoldingInv,
         [Next]_vars
  PROVE  HoldingInv'
<1> DEFINE OthersKept ==
      \A p \in Requests : req'[p] = req[p] \/ KeepsQueue(req'[p])
           Only ==
      \A r \in Runs : holding'[r] \subseteq holding[r] \/ run[r].status = "queued"
<1>0. QueueKept /\ OthersKept => HoldingInv'
  <2>1. QueueKept => Only
    BY DEF QueueKept
  <2> QED BY <2>1, HoldingKept
<1>1. ASSUME NEW q \in Requests, NEW op \in Ops \ {"resume", "defer"},
             NEW rs, NEW ts, NEW w, NEW kind, NEW gate, NEW x,
             \/ x = Session(op, rs, ts, w)
             \/ x = [Session(op, rs, ts, w) EXCEPT !.kind = kind]
             \/ x = [Session(op, rs, ts, w) EXCEPT !.kind = kind, !.gate = gate],
             req' = [req EXCEPT ![q] = x], UNCHANGED <<run, holding>>
      PROVE  HoldingInv'
  <2> DEFINE y == Session(op, rs, ts, w)
  <2>0. y = [op |-> op, worker |-> w, kind |-> "none", gate |-> FALSE,
             rows |-> y.rows, tasks |-> y.tasks]
    BY DEF Session
  <2> HIDE DEF y
  <2>1. x.op = op
    <3>1. CASE x = y
      BY <2>0, <3>1
    <3>2. CASE x = [y EXCEPT !.kind = kind]
      BY <2>0, <3>2
    <3>3. CASE x = [y EXCEPT !.kind = kind, !.gate = gate]
      BY <2>0, <3>3
    <3> QED BY <1>1, <3>1, <3>2, <3>3 DEF y
  <2>2. KeepsQueue(x)
    BY <2>1 DEF KeepsQueue
  <2> QED BY <1>0, <1>1, <2>2, ReadQueues
<1>2. ASSUME NEW q \in Requests,
             \/ \E t \in Tasks, kind \in Kinds :
                   CreateLoad(q, t, kind) \/ RetryLoad(q, t, kind)
             \/ \E r \in Runs : DispatchLoad(q, r) \/ PauseLoad(q, r)
                                \/ CancelLoad(q, r)
             \/ \E r \in Runs, w \in Workers :
                   \/ ClaimLoad(q, r, w) \/ HeartbeatLoad(q, r, w)
                   \/ CompleteLoad(q, r, w)
             \/ RecoverLoad(q)
             \/ \E t \in Tasks : ApproveLoad(q, t) \/ RejectLoad(q, t)
      PROVE  HoldingInv'
  <2>1. UNCHANGED <<run, holding>>
    BY <1>2 DEF CreateLoad, RetryLoad, DispatchLoad, PauseLoad, CancelLoad,
                ClaimLoad, HeartbeatLoad, CompleteLoad, RecoverLoad,
                ApproveLoad, RejectLoad, Load, db
  <2>2. ASSUME NEW t \in Tasks, NEW kind \in Kinds, CreateLoad(q, t, kind)
        PROVE  HoldingInv'
    BY <1>1, <2>1, <2>2 DEF CreateLoad, Ops
  <2>3. ASSUME NEW t \in Tasks, NEW kind \in Kinds, RetryLoad(q, t, kind)
        PROVE  HoldingInv'
    BY <1>1, <2>1, <2>3 DEF RetryLoad, Ops
  <2>4. ASSUME NEW r \in Runs, NEW op \in Ops \ {"resume", "defer"}, NEW w,
               Load(q, op, r, w)
        PROVE  HoldingInv'
    BY <1>1, <2>1, <2>4 DEF Load
  <2>5. ASSUME NEW r \in Runs,
               DispatchLoad(q, r) \/ PauseLoad(q, r) \/ CancelLoad(q, r)
        PROVE  HoldingInv'
    BY <2>4, <2>5 DEF DispatchLoad, PauseLoad, CancelLoad, Ops
  <2>6. ASSUME NEW r \in Runs, NEW w \in Workers,
               \/ ClaimLoad(q, r, w) \/ HeartbeatLoad(q, r, w)
               \/ CompleteLoad(q, r, w)
        PROVE  HoldingInv'
    BY <2>4, <2>6 DEF ClaimLoad, HeartbeatLoad, CompleteLoad, Ops
  <2>7. CASE RecoverLoad(q)
    BY <1>1, <2>1, <2>7 DEF RecoverLoad, Ops
  <2>8. ASSUME NEW t \in Tasks, ApproveLoad(q, t) \/ RejectLoad(q, t)
        PROVE  HoldingInv'
    BY <1>1, <2>1, <2>8 DEF ApproveLoad, RejectLoad, Ops
  <2> QED BY <1>2, <2>2, <2>3, <2>5, <2>6, <2>7, <2>8
<1>3. ASSUME NEW q \in Requests, NEW r \in Runs, DeferLoad(q, r)
      PROVE  HoldingInv'
  <2> DEFINE x == Session("defer", {r}, {run[r].task}, NoWorker)
  <2>1. /\ x.op = "defer"
        /\ x.rows = [y \in Runs |-> IF y \in {r} THEN run[y] ELSE NoRow]
    BY DEF Session
  <2>2. req' = [req EXCEPT ![q] = x] /\ UNCHANGED <<run, holding>>
    BY <1>3 DEF DeferLoad, Load, db
  <2>3. run[r].status = "queued"
    BY <1>3 DEF DeferLoad
  <2> HIDE DEF x
  <2>4. KeepsQueue(x)
    BY <2>1, <2>3 DEF KeepsQueue, NoRow
  <2> QED BY <1>0, <2>2, <2>4, ReadQueues
<1>4. ASSUME NEW q \in Requests, NEW r \in Runs
      PROVE  ~ResumeLoad(q, r)
  BY DEF ResumeLoad, Arrives
<1>5. ASSUME NEW q \in Requests, RetryCommit(q)
      PROVE  HoldingInv'
  <2>1. PICK t : req' = [req EXCEPT ![q] =
            [req[q] EXCEPT !.op = "recreate", !.tasks[t] = "ready",
                           !.gate = GatePassed(t, "ready")]]
    BY <1>5 DEF RetryCommit
  <2>2. req'[q].op = "recreate" /\ \A p \in Requests \ {q} : req'[p] = req[p]
    BY <2>1, RequestFacts DEF TypeOK, Request
  <2>3. OthersKept
    BY <2>2 DEF KeepsQueue
  <2>4. QueueKept
    BY <1>5 DEF RetryCommit, QueueKept
  <2> QED BY <1>0, <2>3, <2>4
<1>6. ASSUME NEW q \in Requests, NEW r, NEW row, AfterCreate(q, r, row)
      PROVE  OthersKept
  <2> DEFINE x == [Idle EXCEPT !.op = "redispatch", !.rows[r] = row]
  <2>1. x.op = "redispatch"
    BY DEF Idle
  <2>2. req' = [req EXCEPT ![q] = Idle] \/ req' = [req EXCEPT ![q] = x]
    BY <1>6 DEF AfterCreate
  <2> HIDE DEF x
  <2> QED BY <2>1, <2>2 DEF TypeOK, KeepsQueue, Idle
<1>7. ASSUME NEW q \in Requests, CreateExisting(q)
      PROVE  HoldingInv'
  <2>1. OthersKept
    BY <1>6, <1>7 DEF CreateExisting
  <2>2. QueueKept
    BY <1>7 DEF CreateExisting, db, QueueKept
  <2> QED BY <1>0, <2>1, <2>2
<1>8. ASSUME NEW q \in Requests, CreateCommit(q)
      PROVE  HoldingInv'
  <2>1. PICK r, row : /\ r \in Runs /\ run[r].status = "none"
                      /\ run' = [run EXCEPT ![r] = row]
                      /\ AfterCreate(q, r, row)
    BY <1>8 DEF CreateCommit
  <2>2. OthersKept
    BY <1>6, <2>1
  <2>3. QueueKept
    BY <1>8, <2>1 DEF CreateCommit, QueueKept, TypeOK
  <2> QED BY <1>0, <2>2, <2>3
<1>9. ASSUME NEW q \in Requests, DispatchCommit(q)
      PROVE  HoldingInv'
  <2>1. PICK r \in LoadedRuns(q), t \in LoadedTasks(q) :
          /\ run' = RunSet(q, r, "running", run[r].ev)
          /\ req' = [req EXCEPT ![q] =
                [req[q] EXCEPT !.op = "executing", !.tasks[t] = "running"]]
    BY <1>9 DEF DispatchCommit
  <2>2. QueueKept
    BY <1>9, <2>1, RunSetQueues DEF DispatchCommit
  <2>3. req'[q].op = "executing" /\ \A p \in Requests \ {q} : req'[p] = req[p]
    BY <2>1, RequestFacts DEF TypeOK, Request
  <2>4. OthersKept
    BY <2>3 DEF KeepsQueue
  <2> QED BY <1>0, <2>2, <2>4
<1>10. ASSUME NEW q \in Requests, Refresh(q)
       PROVE  HoldingInv'
  <2>1. PICK r : \/ req' = [req EXCEPT ![q] = Idle]
                 \/ req' = [req EXCEPT ![q] =
                       [req[q] EXCEPT !.op = "finish", !.rows[r] = run[r]]]
    BY <1>10 DEF Refresh, EndRequest
  <2>2. /\ req'[q] = Idle \/ req'[q].op = "finish"
        /\ \A p \in Requests \ {q} : req'[p] = req[p]
    <3>1. CASE req' = [req EXCEPT ![q] = Idle]
      BY <3>1 DEF TypeOK
    <3>2. CASE req' = [req EXCEPT ![q] =
                  [req[q] EXCEPT !.op = "finish", !.rows[r] = run[r]]]
      BY <3>2, RequestFacts DEF TypeOK, Request
    <3> QED BY <2>1, <3>1, <3>2
  <2>3. OthersKept
    BY <2>2 DEF KeepsQueue, Idle
  <2>4. QueueKept
    BY <1>10 DEF Refresh, db, QueueKept
  <2> QED BY <1>0, <2>3, <2>4
<1>11. ASSUME NEW q \in Requests, EndRequest(q), QueueKept
       PROVE  HoldingInv'
  BY <1>0, <1>11, IdleKeepsQueue
<1>12. ASSUME NEW q \in Requests, NEW r \in LoadedRuns(q),
              NEW status \in RunStatus \ {"none", "queued"}, NEW ev,
              run' = RunSet(q, r, status, ev), UNCHANGED holding
       PROVE  QueueKept
  BY <1>12, RunSetQueues
<1>13. ASSUME NEW q \in Requests, NEW succeeded \in BOOLEAN,
              FinishCommit(q, succeeded)
       PROVE  HoldingInv'
  <2>1. QueueKept
    BY <1>12, <1>13 DEF FinishCommit
  <2> QED BY <1>11, <1>13, <2>1 DEF FinishCommit
<1>14. ASSUME NEW q \in Requests, DeferCommit(q)
       PROVE  HoldingInv'
  <2>1. QueueKept
    <3>1. ASSUME NEW r \in LoadedRuns(q), NEW ev, run' = RunSet(q, r, "queued", ev)
          PROVE  QueueKept
      <4>1. req[q].rows[r].status = "queued"
        BY <1>14 DEF DeferCommit, HoldingInv, KeepsQueue, LoadedRuns
      <4>2. UNCHANGED holding
        BY <1>14 DEF DeferCommit
      <4> QED BY <3>1, <4>1, <4>2, RunSetQueues
    <3>2. CASE UNCHANGED run
      BY <1>14, <3>2 DEF DeferCommit, QueueKept
    <3> QED BY <1>14, <3>1, <3>2 DEF DeferCommit
  <2> QED BY <1>11, <1>14, <2>1 DEF DeferCommit
<1>15. ASSUME NEW q \in Requests, PauseCommit(q) \/ CancelCommit(q)
       PROVE  HoldingInv'
  <2>1. QueueKept
    BY <1>12, <1>15 DEF PauseCommit, CancelCommit
  <2> QED BY <1>11, <1>15, <2>1 DEF PauseCommit, CancelCommit
<1>16. ASSUME NEW q \in Requests
       PROVE  ~ResumeCommit(q)
  BY DEF ResumeCommit, HoldingInv, KeepsQueue
<1>17. ASSUME NEW q \in Requests, ClaimCommit(q)
       PROVE  HoldingInv'
  <2>1. PICK r \in LoadedRuns(q) :
          \/ /\ run[r].status = "queued"
             /\ run' = [run EXCEPT ![r] = [run[r] EXCEPT !.status = "running",
                     !.ev = Leased(req[q].rows[r].ev, req[q].worker)]]
             /\ holding' = [holding EXCEPT ![r] = @ \cup {req[q].worker}]
          \/ UNCHANGED <<run, holding>>
    BY <1>17 DEF ClaimCommit, ClaimWins
  <2>2. QueueKept
    <3>1. CASE UNCHANGED <<run, holding>>
      BY <3>1 DEF QueueKept
    <3>2. CASE ~UNCHANGED <<run, holding>>
      <4>1. /\ r \in Runs /\ run'[r].status = "running"
            /\ \A x \in Runs \ {r} : run'[x] = run[x]
        BY <2>1, <3>2, RequestFacts DEF TypeOK, Row
      <4>2. /\ holding'[r] = holding[r] \cup {req[q].worker}
            /\ \A x \in Runs \ {r} : holding'[x] = holding[x]
        BY <2>1, <3>2, <4>1 DEF TypeOK
      <4> QED BY <2>1, <3>2, <4>1, <4>2 DEF QueueKept
    <3> QED BY <3>1, <3>2
  <2> QED BY <1>11, <1>17, <2>2 DEF ClaimCommit
<1>18. ASSUME NEW q \in Requests, HeartbeatCommit(q)
       PROVE  HoldingInv'
  <2>1. PICK r, ev :
          run' = [run EXCEPT ![r] = [run[r] EXCEPT !.ev = ev]]
    BY <1>18 DEF HeartbeatCommit
  <2>2. \A x \in Runs : run'[x].status = run[x].status
    BY <2>1, RequestFacts DEF TypeOK, Row
  <2>3. QueueKept
    BY <1>18, <2>2 DEF HeartbeatCommit, QueueKept
  <2> QED BY <1>11, <1>18, <2>3 DEF HeartbeatCommit
<1>19. ASSUME NEW q \in Requests, NEW requested \in BOOLEAN,
              NEW validated \in BOOLEAN, CompleteCommit(q, requested, validated)
       PROVE  HoldingInv'
  <2>1. PICK r, status, ev :
          /\ r \in LoadedRuns(q) /\ status \in {"succeeded", "failed"}
          /\ run' = RunSet(q, r, status, ev)
          /\ holding' = [holding EXCEPT ![r] = @ \ {req[q].worker}]
    BY <1>19 DEF CompleteCommit
  <2> DEFINE new == Flushed(run[r].status, req[q].rows[r].status, status)
  <2>2. new \notin {"succeeded", "failed"} => new = run[r].status
    BY <2>1 DEF Flushed
  <2>3. run' = [run EXCEPT ![r] = [run[r] EXCEPT !.status = new, !.ev = ev]]
    BY <2>1 DEF RunSet
  <2> HIDE DEF new
  <2>4. /\ \A x \in Runs \ {r} : run'[x] = run[x]
        /\ run'[r].status = new
    BY <2>1, <2>3, RequestFacts DEF TypeOK, Row
  <2>5. \A x \in Runs : holding'[x] \subseteq holding[x]
    BY <2>1 DEF TypeOK
  <2>6. QueueKept
    BY <2>2, <2>4, <2>5 DEF QueueKept
  <2> QED BY <1>11, <1>19, <2>6 DEF CompleteCommit
<1>20. ASSUME NEW q \in Requests, RecoverCommit(q)
       PROVE  HoldingInv'
  <2>1. ASSUME NEW r \in Runs
        PROVE  run'[r].status = "failed" \/ run'[r] = run[r]
    <3>1. CASE r \in LoadedRuns(q)
      <4>1. run'[r] = [run[r] EXCEPT !.status = "failed", !.ev = req[q].rows[r].ev]
        BY <1>20, <3>1 DEF RecoverCommit
      <4> QED BY <4>1, RequestFacts DEF Row
    <3>2. CASE r \notin LoadedRuns(q)
      BY <1>20, <3>2 DEF RecoverCommit
    <3> QED BY <3>1, <3>2
  <2>2. QueueKept
    BY <1>20, <2>1 DEF RecoverCommit, QueueKept
  <2> QED BY <1>11, <1>20, <2>2 DEF RecoverCommit
<1>21. ASSUME NEW q \in Requests, ApproveCommit(q) \/ RejectCommit(q)
       PROVE  HoldingInv'
  <2>1. QueueKept
    BY <1>21 DEF ApproveCommit, RejectCommit, QueueKept
  <2> QED BY <1>11, <1>21, <2>1 DEF ApproveCommit, RejectCommit
<1>22. ASSUME NEW q \in Requests, Abandon(q)
       PROVE  HoldingInv'
  <2>1. QueueKept
    BY <1>22 DEF Abandon, db, QueueKept
  <2> QED BY <1>11, <1>22, <2>1 DEF Abandon
<1>23. ASSUME NEW r \in Runs, LeaseExpires(r)
       PROVE  HoldingInv'
  <2>1. run' = [run EXCEPT ![r] = [run[r] EXCEPT !.ev.lease = "expired"]]
    BY <1>23 DEF LeaseExpires
  <2>2. \A x \in Runs : run'[x].status = run[x].status
    BY <2>1, RequestFacts DEF TypeOK, Row
  <2>3. QueueKept /\ OthersKept
    BY <1>23, <2>2 DEF LeaseExpires, QueueKept
  <2> QED BY <1>0, <2>3
<1>24. ASSUME NEW w \in Workers, NEW r \in Runs, WorkerStops(w, r)
       PROVE  HoldingInv'
  <2>1. \A x \in Runs : holding'[x] \subseteq holding[x]
    BY <1>24 DEF WorkerStops, TypeOK
  <2>2. QueueKept /\ OthersKept
    BY <1>24, <2>1 DEF WorkerStops, db, QueueKept
  <2> QED BY <1>0, <2>2
<1>25. CASE UNCHANGED vars
  <2>1. QueueKept /\ OthersKept
    BY <1>25 DEF vars, QueueKept
  <2> QED BY <1>0, <2>1
<1>26. ASSUME NEW q \in Requests, CreateStep(q) PROVE HoldingInv'
  BY <1>2, <1>5, <1>7, <1>8, <1>26 DEF CreateStep
<1>27. ASSUME NEW q \in Requests, DispatchStep(q) PROVE HoldingInv'
  BY <1>2, <1>3, <1>9, <1>10, <1>13, <1>14, <1>27 DEF DispatchStep
<1>28. ASSUME NEW q \in Requests, ControlStep(q) PROVE HoldingInv'
  BY <1>2, <1>4, <1>15, <1>16, <1>28 DEF ControlStep
<1>29. ASSUME NEW q \in Requests, BridgeStep(q) PROVE HoldingInv'
  BY <1>2, <1>17, <1>18, <1>19, <1>20, <1>29 DEF BridgeStep
<1>30. ASSUME NEW q \in Requests, ApprovalStep(q) PROVE HoldingInv'
  BY <1>2, <1>21, <1>30 DEF ApprovalStep
<1> QED
  BY <1>22, <1>23, <1>24, <1>25, <1>26, <1>27, <1>28, <1>29, <1>30
  DEF Next, Environment

LEMMA HoldingInit == Init => HoldingInv
BY DEF Init, HoldingInv, QueuedIsFree, OneHolder, KeepsQueue, Idle

\* However claims, heartbeats, deferred dispatches, cancels, recoveries and
\* even pauses overlap: as long as nobody resumes a run, no two workers hold
\* the same one (claim_execution_run).
THEOREM ClaimWonOnce ==
  ASSUME "resume" \notin Calls
  PROVE  Spec => []ClaimedOnce
<1>1. Init => HoldingInv
  BY HoldingInit
<1>2. TypeOK /\ ClaimHasWorker /\ ApprovalInv /\ HoldingInv /\ [Next]_vars
        => HoldingInv'
  BY HoldingStep
<1>3. HoldingInv => ClaimedOnce
  <2> SUFFICES ASSUME HoldingInv, NEW r \in Runs
               PROVE  Cardinality(holding[r]) <= 1
    BY DEF ClaimedOnce
  <2>1. PICK w : holding[r] \subseteq {w}
    BY DEF HoldingInv, OneHolder
  <2>2. Cardinality({}) = 0 /\ Cardinality({w}) = 1
    BY FS_EmptySet, FS_Singleton
  <2>3. holding[r] = {} \/ holding[r] = {w}
    BY <2>1
  <2> QED BY <2>2, <2>3
<1> QED BY <1>1, <1>2, <1>3, InvariantsHold, PTL DEF Spec

-----------------------------------------------------------------------------
(* Requests one at a time.                                                 *)
(*                                                                         *)
(* That a task says "running" exactly while one of its runs does is not    *)
(* inductive: it needs that a session writes over what it has read (Fresh),*)
(* that it reads a run in a status its operation starts from (MayWrite),   *)
(* with the task of that run (ItsTask), that a task has one active run     *)
(* (ActiveOnce), and that an executor is alone with its run                *)
(* (ExecutesAlone) and can lose it to a cancel only.                       *)

Loaded(x, r) == x.rows[r].status # "none"
HasTask(x, t) == x.tasks[t] # "none"

\* Requests that neither delay the others nor are delayed by them.
Quiet(x) == x.op \in {"idle", "executing"}
AtWork(x) == x.op \in {"executing", "finish"}

FromQueued == {"dispatch", "defer", "claim", "pause"}
FromRunning == {"finish", "heartbeat", "complete", "recover"}
Writers == FromQueued \cup FromRunning \cup {"resume", "cancel"}
Single == (Writers \ {"recover"}) \cup {"executing"}
Creating == {"create", "retry", "recreate"}

RunningIn(rows) == {r \in Runs : rows[r].status = "running"}

\* The session of request x agrees with the rows and the tasks.
Fresh(x, rows, tasks) ==
  /\ \A r \in Runs : Loaded(x, r) => x.rows[r].status = rows[r].status
  /\ \A t \in Tasks : HasTask(x, t) => x.tasks[t] = tasks[t]

\* A request of this op may hold this row.
MayWrite(op, row) ==
  /\ op \in FromQueued => row.status = "queued"
  /\ op \in FromRunning => row.status = "running"
  /\ op = "resume" => row.status = "paused"
  /\ op = "cancel" => row.status \in ActiveStatus
  /\ op = "executing" => row.status \in {"running", "cancelled"}
  /\ op \in {"dispatch", "executing", "finish"} => row.kind = "local"
  /\ op \in {"claim", "heartbeat", "complete", "recover"} =>
        row.kind = "symphony"

\* The tasks of request x are those of its runs; one that creates has
\* loaded every active run of its task.
ItsTask(x, rows) ==
  /\ x.op \in Single =>
        \A r \in Runs : Loaded(x, r) =>
           /\ \A y \in Runs : Loaded(x, y) => y = r
           /\ \A t \in Tasks : HasTask(x, t) => t = rows[r].task
  /\ x.op = "recover" =>
        /\ \A r \in Runs : Loaded(x, r) => HasTask(x, rows[r].task)
        /\ \A t \in Tasks : HasTask(x, t) =>
              \E r \in Runs : Loaded(x, r) /\ rows[r].task = t
  /\ x.op \in Creating =>
        \A t \in Tasks, r \in Runs :
           /\ HasTask(x, t)
           /\ rows[r].task = t
           /\ rows[r].status \in ActiveStatus
           => Loaded(x, r)
  /\ x.op = "retry" => \A t \in Tasks : x.tasks[t] \notin {"running", "draft"}
  /\ x.op = "executing" => \A t \in Tasks : x.tasks[t] \in {"none", "running"}

Sound(x, rows, tasks) ==
  /\ ~ Quiet(x) => Fresh(x, rows, tasks)
  /\ \A r \in Runs : Loaded(x, r) => MayWrite(x.op, rows[r])
  /\ ItsTask(x, rows)
  /\ x.op \in {"dispatch", "claim"} =>
        Cardinality(RunningIn(rows)) < MaxConcurrency
  /\ x.op \in {"claim", "heartbeat"} => x.worker \in Workers

OneAtATime == \A p, q \in Requests : p = q \/ Quiet(req[p]) \/ Quiet(req[q])

ExecutesAlone ==
  \A p, q \in Requests, r \in Runs :
    /\ AtWork(req[p]) /\ Loaded(req[p], r)
    /\ AtWork(req[q]) /\ Loaded(req[q], r)
    => p = q

ActiveOnce ==
  \A r, y \in Runs :
    /\ run[r].status \in ActiveStatus
    /\ run[y].status \in ActiveStatus
    /\ run[r].task = run[y].task
    => r = y

RowsInv ==
  /\ \A r \in Runs : run[r].status # "none" => run[r].task \in Tasks
  /\ ActiveOnce
  /\ TaskFollowsRuns
  /\ CompletedIsEarned
  /\ RunningHasLease

RequestsInv ==
  /\ OneAtATime
  /\ \A q \in Requests : Sound(req[q], run, task)
  /\ ExecutesAlone

SerialInv == RowsInv /\ RequestsInv

-----------------------------------------------------------------------------
(* The requests. *)

\* An idle slot holds nothing.
LEMMA IdleSound ==
  ASSUME NEW rows, NEW tasks
  PROVE  Sound(Idle, rows, tasks)
BY DEF Sound, Idle, NoRow, Quiet, Loaded, HasTask, ItsTask, Single, Creating,
       Writers, FromQueued, FromRunning

\* A session that has read one run and its task, in a status its op starts
\* from.
LEMMA SessionSound ==
  ASSUME TypeOK, RowsInv, NEW r \in Runs, NEW op \in Writers \ {"recover"},
         NEW w, MayWrite(op, run[r]),
         op \in {"dispatch", "claim"} =>
            Cardinality(RunningIn(run)) < MaxConcurrency,
         op \in {"claim", "heartbeat"} => w \in Workers
  PROVE  Sound(Session(op, {r}, {run[r].task}, w), run, task)
<1> DEFINE x == Session(op, {r}, {run[r].task}, w)
<1>1. /\ x.op = op /\ x.worker = w
      /\ \A y \in Runs : x.rows[y] = IF y = r THEN run[y] ELSE NoRow
      /\ \A t \in Tasks : x.tasks[t] = IF t = run[r].task THEN task[t] ELSE "none"
  BY DEF Session
<1> HIDE DEF x
<1>2. /\ \A y \in Runs : Loaded(x, y) => y = r
      /\ \A t \in Tasks : HasTask(x, t) => t = run[r].task
  BY <1>1 DEF Loaded, HasTask, NoRow
<1>3. Fresh(x, run, task)
  BY <1>1, <1>2 DEF Fresh
<1>4. ItsTask(x, run)
  BY <1>1, <1>2 DEF ItsTask, Writers, FromQueued, FromRunning, Creating
<1>5. \A y \in Runs : Loaded(x, y) => MayWrite(x.op, run[y])
  BY <1>1, <1>2
<1> QED
  BY <1>1, <1>3, <1>4, <1>5 DEF Sound, x

\* The requests after one of them has become x, when the others are still
\* sound and x is quiet or they are.
LEMMA RequestsStep ==
  ASSUME TypeOK, RequestsInv, NEW q \in Requests, NEW x,
         req' = [req EXCEPT ![q] = x],
         Sound(x, run', task'),
         \A p \in Requests \ {q} : Sound(req[p], run', task'),
         Quiet(x) \/ \A p \in Requests \ {q} : Quiet(req[p]),
         AtWork(x) => \A p \in Requests \ {q}, r \in Runs :
            ~ (AtWork(req[p]) /\ Loaded(req[p], r) /\ Loaded(x, r))
  PROVE  RequestsInv'
<1>1. req'[q] = x /\ \A p \in Requests \ {q} : req'[p] = req[p]
  BY DEF TypeOK
<1>2. OneAtATime'
  BY <1>1 DEF RequestsInv, OneAtATime
<1>3. \A p \in Requests : Sound(req'[p], run', task')
  BY <1>1
<1>4. ExecutesAlone'
  BY <1>1 DEF RequestsInv, ExecutesAlone
<1> QED
  BY <1>2, <1>3, <1>4 DEF RequestsInv

\* When the rows keep their statuses, tasks and kinds, requests stay sound.
LEMMA SoundKept ==
  ASSUME NEW x, NEW rows, NEW tasks, NEW rows2, Sound(x, rows, tasks),
         \A r \in Runs : /\ rows2[r].status = rows[r].status
                         /\ rows2[r].task = rows[r].task
                         /\ rows2[r].kind = rows[r].kind
  PROVE  Sound(x, rows2, tasks)
<1>1. RunningIn(rows2) = RunningIn(rows)
  BY DEF RunningIn
<1>2. Fresh(x, rows, tasks) => Fresh(x, rows2, tasks)
  BY DEF Fresh
<1>3. \A r \in Runs : Loaded(x, r) => MayWrite(x.op, rows2[r])
  BY DEF Sound, MayWrite
<1>4. ItsTask(x, rows2)
  BY DEF Sound, ItsTask
<1> QED
  BY <1>1, <1>2, <1>3, <1>4 DEF Sound

\* A step that reads: the rows are as they were.
LEMMA ReadStep ==
  ASSUME TypeOK, SerialInv, NEW q \in Requests, NEW x,
         req' = [req EXCEPT ![q] = x],
         UNCHANGED <<run, task, selfTest>>,
         Sound(x, run, task),
         Quiet(x) \/ \A p \in Requests \ {q} : Quiet(req[p]),
         AtWork(x) => /\ AtWork(req[q])
                      /\ \A r \in Runs : Loaded(x, r) => Loaded(req[q], r)
  PROVE  SerialInv'
<1>1. RowsInv'
  BY DEF SerialInv, RowsInv, ActiveOnce, TaskFollowsRuns, CompletedIsEarned,
         RunningHasLease, RunsOf
<1>2. RequestsInv
  BY DEF SerialInv
<1>3. Sound(x, run', task') /\ \A p \in Requests \ {q} : Sound(req[p], run', task')
  BY <1>2 DEF RequestsInv
<1>4. AtWork(x) => \A p \in Requests \ {q}, r \in Runs :
         ~ (AtWork(req[p]) /\ Loaded(req[p], r) /\ Loaded(x, r))
  BY <1>2 DEF RequestsInv, ExecutesAlone
<1> QED
  BY <1>1, <1>2, <1>3, <1>4, RequestsStep DEF SerialInv

\* The rows request q may write: new ones, and those it has loaded.
Writes(q) ==
  \A y \in Runs :
    \/ run'[y] = run[y]
    \/ run[y].status = "none"
    \/ /\ req[q].op \in Writers
       /\ Loaded(req[q], y)
       /\ run'[y].task = run[y].task
       /\ run'[y].kind = run[y].kind
       /\ req[q].op = "cancel" => run'[y].status = "cancelled"

\* While a request writes, the others are idle or executing; what it writes
\* is not what they execute, unless it cancels it.
LEMMA OthersSound ==
  ASSUME TypeOK, RequestsInv, NEW q \in Requests, ~ Quiet(req[q]), Writes(q),
         NEW p \in Requests \ {q}
  PROVE  /\ Quiet(req[p])
         /\ Sound(req[p], run', task')
<1>1. Quiet(req[p])
  BY DEF RequestsInv, OneAtATime
<1>2. Sound(req[p], run, task) /\ Sound(req[q], run, task)
  BY DEF RequestsInv
<1>3. CASE req[p].op = "idle"
  BY <1>3 DEF Sound, Quiet, ItsTask, MayWrite, Single, Creating, Writers,
              FromQueued, FromRunning
<1>4. CASE req[p].op = "executing"
  <2>1. ASSUME NEW r \in Runs, Loaded(req[p], r)
        PROVE  /\ MayWrite("executing", run'[r])
               /\ run'[r].task = run[r].task
    <3>1. MayWrite("executing", run[r])
      BY <1>2, <1>4, <2>1 DEF Sound
    <3>2. run[r].status \in {"running", "cancelled"} /\ run[r].kind = "local"
      BY <3>1 DEF MayWrite
    <3>3. CASE run'[r] = run[r]
      BY <3>1, <3>3
    <3>4. CASE /\ req[q].op \in Writers
               /\ Loaded(req[q], r)
               /\ run'[r].task = run[r].task
               /\ run'[r].kind = run[r].kind
               /\ req[q].op = "cancel" => run'[r].status = "cancelled"
      <4>1. MayWrite(req[q].op, run[r])
        BY <1>2, <3>4 DEF Sound
      <4>2. req[q].op # "finish"
        BY <1>4, <2>1, <3>4 DEF RequestsInv, ExecutesAlone, AtWork
      <4>3. req[q].op = "cancel"
        BY <3>2, <3>4, <4>1, <4>2
        DEF MayWrite, Writers, FromQueued, FromRunning
      <4> QED
        BY <3>2, <3>4, <4>3 DEF MayWrite, FromQueued, FromRunning
    <3> QED
      BY <3>2, <3>3, <3>4 DEF Writes
  <2>2. ItsTask(req[p], run')
    BY <1>2, <1>4, <2>1 DEF Sound, ItsTask, Creating
  <2> QED
    BY <1>1, <1>4, <2>1, <2>2 DEF Sound
<1> QED
  BY <1>1, <1>3, <1>4 DEF Quiet

\* A step that writes and ends its request, or goes on creating.
LEMMA WriteStep ==
  ASSUME TypeOK, RequestsInv, NEW q \in Requests, NEW x,
         ~ Quiet(req[q]), Writes(q),
         req' = [req EXCEPT ![q] = x],
         Sound(x, run', task'),
         AtWork(x) => \A r \in Runs :
            Loaded(x, r) => run[r].status \notin {"running", "cancelled"}
  PROVE  RequestsInv'
<1>1. \A p \in Requests \ {q} : Quiet(req[p]) /\ Sound(req[p], run', task')
  BY OthersSound
<1>2. ASSUME AtWork(x), NEW p \in Requests \ {q}, NEW r \in Runs,
             AtWork(req[p]), Loaded(req[p], r), Loaded(x, r)
      PROVE  FALSE
  <2>1. Sound(req[p], run, task) /\ Quiet(req[p])
    BY <1>1 DEF RequestsInv
  <2>2. MayWrite("executing", run[r])
    BY <1>2, <2>1 DEF Sound, Quiet, AtWork
  <2> QED
    BY <1>2, <2>2 DEF MayWrite
<1> QED
  BY <1>1, <1>2, RequestsStep

-----------------------------------------------------------------------------
(* The rows. *)

\* What the invariant says of a request that holds the run r and the task t.
LEMMA Holds ==
  ASSUME TypeOK, SerialInv, NEW q \in Requests, req[q].op \in Single \ {"executing"},
         NEW r \in LoadedRuns(q), NEW t \in LoadedTasks(q)
  PROVE  /\ r \in Runs /\ Loaded(req[q], r)
         /\ t \in Tasks /\ t = run[r].task
         /\ MayWrite(req[q].op, run[r])
         /\ req[q].rows[r].status = run[r].status
         /\ req[q].tasks[t] = task[t]
         /\ ~ Quiet(req[q])
<1>1. Sound(req[q], run, task)
  BY DEF SerialInv, RequestsInv
<1>2. /\ r \in Runs /\ Loaded(req[q], r)
      /\ t \in Tasks /\ HasTask(req[q], t)
  BY DEF LoadedRuns, LoadedTasks, Loaded, HasTask
<1>3. ~ Quiet(req[q])
  BY DEF Quiet, Single, Writers, FromQueued, FromRunning
<1> QED
  BY <1>1, <1>2, <1>3 DEF Sound, Fresh, ItsTask

\* What a fresh session writes is what its request says.
LEMMA TaskSetFresh ==
  ASSUME NEW q \in Requests, NEW t \in Tasks, NEW new,
         req[q].tasks[t] = task[t]
  PROVE  TaskSet(q, t, new) = [task EXCEPT ![t] = new]
BY DEF TaskSet, Flushed

\* A row with another status and other evidence keeps the rest.
LEMMA RowSet ==
  ASSUME NEW row \in Row, NEW s, NEW ev
  PROVE  LET new == [row EXCEPT !.status = s, !.ev = ev]
         IN  /\ new.status = s
             /\ new.ev = ev
             /\ new.task = row.task
             /\ new.kind = row.kind
BY DEF Row

\* One commit writes the row of run r, the status of its task and what the
\* latest self-test gate of the task says.
Written(r, row, new, gate) ==
  /\ run' = [run EXCEPT ![r] = row]
  /\ task' = [task EXCEPT ![run[r].task] = new]
  /\ selfTest' = [selfTest EXCEPT ![run[r].task] = gate]

\* An active run and its task are written together: the rows stay consistent
\* when the task says "running" as the run does, and "completed" only of a
\* run that succeeded with evidence that passed.
LEMMA RowsStep ==
  ASSUME TypeOK, RowsInv, NEW r \in Runs, NEW row, NEW new, NEW gate,
         run[r].status \in ActiveStatus,
         Written(r, row, new, gate),
         row.task = run[r].task,
         row.status # "none",
         new = "running" <=> row.status = "running",
         new = "completed" => /\ gate = "passed"
                              /\ row.status = "succeeded"
                              /\ row.ev.result = "passed",
         row.status = "running" /\ row.kind = "symphony" =>
            row.ev.owner # NoWorker /\ row.ev.lease # "none"
  PROVE  RowsInv'
<1> DEFINE u == run[r].task
<1>1. u \in Tasks
  BY DEF RowsInv
<1>2. run'[r] = row /\ \A y \in Runs \ {r} : run'[y] = run[y]
  BY DEF TypeOK, Written
<1>3. /\ task'[u] = new /\ selfTest'[u] = gate
      /\ \A t \in Tasks \ {u} : task'[t] = task[t] /\ selfTest'[t] = selfTest[t]
  BY <1>1 DEF TypeOK, Written
<1>4. \A y \in Runs \ {r} : run[y].task = u => run[y].status \notin ActiveStatus
  BY DEF RowsInv, ActiveOnce
<1>5. ActiveOnce'
  BY <1>2, <1>4 DEF RowsInv, ActiveOnce
<1>6. TaskFollowsRuns'
  <2> SUFFICES ASSUME NEW t \in Tasks
               PROVE  task'[t] = "running" <=>
                        \E y \in Runs : run'[y].task = t /\ run'[y].status = "running"
    BY DEF TaskFollowsRuns, RunsOf
  <2>1. CASE t = u
    BY <2>1, <1>2, <1>3, <1>4
  <2>2. CASE t # u
    BY <2>2, <1>2, <1>3 DEF RowsInv, TaskFollowsRuns, RunsOf
  <2> QED
    BY <2>1, <2>2
<1>7. CompletedIsEarned'
  <2> SUFFICES ASSUME NEW t \in Tasks, task'[t] = "completed"
               PROVE  /\ selfTest'[t] = "passed"
                      /\ \E y \in Runs : /\ run'[y].task = t
                                         /\ run'[y].status = "succeeded"
                                         /\ run'[y].ev.result = "passed"
    BY DEF CompletedIsEarned, RunsOf
  <2>1. CASE t = u
    BY <2>1, <1>2, <1>3
  <2>2. CASE t # u
    BY <2>2, <1>2, <1>3 DEF RowsInv, CompletedIsEarned, RunsOf
  <2> QED
    BY <2>1, <2>2
<1>8. RunningHasLease'
  BY <1>2 DEF RowsInv, RunningHasLease
<1>9. \A y \in Runs : run'[y].status # "none" => run'[y].task \in Tasks
  BY <1>1, <1>2 DEF RowsInv
<1> QED
  BY <1>5, <1>6, <1>7, <1>8, <1>9 DEF RowsInv

\* Evidence is written without a status: of a run that has not ended, and of
\* a running one with an owner and a lease.
LEMMA EvidenceStep ==
  ASSUME TypeOK, RowsInv, UNCHANGED <<task, selfTest>>,
         \A y \in Runs :
           /\ run'[y].status = run[y].status
           /\ run'[y].task = run[y].task
           /\ run'[y].kind = run[y].kind
           /\ run[y].status = "succeeded" => run'[y].ev = run[y].ev
           /\ run[y].status = "running" /\ run[y].kind = "symphony" =>
                run'[y].ev.owner # NoWorker /\ run'[y].ev.lease # "none"
  PROVE  RowsInv'
<1>1. ActiveOnce'
  BY DEF RowsInv, ActiveOnce
<1>2. TaskFollowsRuns'
  BY DEF RowsInv, TaskFollowsRuns, RunsOf
<1>3. CompletedIsEarned'
  <2> SUFFICES ASSUME NEW t \in Tasks, task'[t] = "completed"
               PROVE  /\ selfTest'[t] = "passed"
                      /\ \E y \in Runs : /\ run'[y].task = t
                                         /\ run'[y].status = "succeeded"
                                         /\ run'[y].ev.result = "passed"
    BY DEF CompletedIsEarned, RunsOf
  <2>1. PICK y \in Runs : /\ run[y].task = t
                          /\ run[y].status = "succeeded"
                          /\ run[y].ev.result = "passed"
    BY DEF RowsInv, CompletedIsEarned, RunsOf
  <2> QED
    BY <2>1 DEF RowsInv, CompletedIsEarned
<1>4. RunningHasLease'
  BY DEF RunningHasLease
<1> QED
  BY <1>1, <1>2, <1>3, <1>4 DEF RowsInv

-----------------------------------------------------------------------------
(* The refinement of RunLifecycle, a row at a time. *)

Mapped == [Lifecycle!Next]_(Lifecycle!vars)

\* Rows whose statuses and tasks stay are a stutter.
LEMMA MappedStutter ==
  ASSUME \A y \in Runs : /\ run'[y].status = run[y].status
                         /\ run'[y].task = run[y].task
  PROVE  Mapped
BY DEF Mapped, Lifecycle!vars

\* The changes of one row that RunLifecycle allows.
Allowed(old, new) ==
  \/ old = "queued" /\ new \in {"running", "paused"}
  \/ old = "paused" /\ new = "queued"
  \/ old \in ActiveStatus /\ new = "cancelled"
  \/ old = "running" /\ new \in {"failed", "succeeded"}

\* One row changes: a run starts, is paused, resumed or cancelled, or ends.
LEMMA MappedRow ==
  ASSUME TypeOK, NEW r \in Runs, NEW row,
         run' = [run EXCEPT ![r] = row],
         row.task = run[r].task,
         Allowed(run[r].status, row.status),
         row.status = "running" => Cardinality(RunningIn(run)) < MaxConcurrency
  PROVE  Mapped
<1> DEFINE old == [y \in Runs |-> run[y].status]
           oldTask == [y \in Runs |-> run[y].task]
           new == [y \in Runs |-> run'[y].status]
           newTask == [y \in Runs |-> run'[y].task]
<1>1. run'[r] = row /\ \A y \in Runs \ {r} : run'[y] = run[y]
  BY DEF TypeOK
<1>2. new = [old EXCEPT ![r] = row.status] /\ newTask = oldTask
  <2>1. \A y \in Runs : new[y] = [old EXCEPT ![r] = row.status][y]
    BY <1>1
  <2>2. \A y \in Runs : newTask[y] = oldTask[y]
    BY <1>1
  <2> QED
    BY <2>1, <2>2
<1>3. old[r] = run[r].status
  OBVIOUS
<1>4. /\ Lifecycle!Running = RunningIn(run)
      /\ Lifecycle!Cardinality(RunningIn(run)) = Cardinality(RunningIn(run))
  BY DEF Lifecycle!Running, RunningIn, Lifecycle!Cardinality, Cardinality
<1>5. CASE run[r].status = "queued" /\ row.status = "running"
  <2>1. Lifecycle!Start(r)
    BY <1>2, <1>4, <1>5 DEF Lifecycle!Start
  <2> QED
    BY <2>1 DEF Mapped, Lifecycle!Next
<1>6. CASE run[r].status = "queued" /\ row.status = "paused"
  <2>1. Lifecycle!Pause(r)
    BY <1>2, <1>6 DEF Lifecycle!Pause
  <2> QED
    BY <2>1 DEF Mapped, Lifecycle!Next
<1>7. CASE run[r].status = "paused" /\ row.status = "queued"
  <2>1. Lifecycle!Resume(r)
    BY <1>2, <1>7 DEF Lifecycle!Resume
  <2> QED
    BY <2>1 DEF Mapped, Lifecycle!Next
<1>8. CASE run[r].status \in ActiveStatus /\ row.status = "cancelled"
  <2>1. Lifecycle!Cancel(r)
    BY <1>2, <1>8 DEF Lifecycle!Cancel, Lifecycle!ActiveStatus
  <2> QED
    BY <2>1 DEF Mapped, Lifecycle!Next
<1>9. CASE run[r].status = "running" /\ row.status \in {"failed", "succeeded"}
  <2>1. Lifecycle!Finish({r}, row.status)
    BY <1>2, <1>9 DEF Lifecycle!Finish, Lifecycle!Running
  <2> QED
    BY <2>1, <1>9 DEF Mapped, Lifecycle!Next
<1> QED
  BY <1>5, <1>6, <1>7, <1>8, <1>9 DEF Allowed

-----------------------------------------------------------------------------
(* One commit. *)

\* A request that writes one run with its task, from the status its op
\* starts from, and then becomes x.
LEMMA CommitStep ==
  ASSUME TypeOK, SerialInv, NEW q \in Requests, NEW x,
         req[q].op \in Single \ {"executing", "defer", "heartbeat"},
         NEW r \in LoadedRuns(q), NEW t \in LoadedTasks(q),
         NEW row, NEW new, NEW gate,
         Written(r, row, new, gate),
         row.task = run[r].task, row.kind = run[r].kind,
         req' = [req EXCEPT ![q] = x],
         Sound(x, run', task'),
         AtWork(x) => \A y \in Runs : Loaded(x, y) => y = r,
         Allowed(run[r].status, row.status),
         req[q].op = "cancel" => row.status = "cancelled",
         row.status = "running" => run[r].status = "queued",
         new = "running" <=> row.status = "running",
         new = "completed" =>
            /\ gate = "passed"
            /\ row.status = "succeeded"
            /\ row.ev.result = "passed",
         row.status = "running" /\ run[r].kind = "symphony" =>
            row.ev.owner # NoWorker /\ row.ev.lease # "none",
         AtWork(x) => run[r].status = "queued",
         row.status = "running" => Cardinality(RunningIn(run)) < MaxConcurrency
  PROVE  SerialInv' /\ Mapped
<1>1. /\ r \in Runs /\ Loaded(req[q], r)
      /\ t \in Tasks /\ t = run[r].task
      /\ ~ Quiet(req[q])
  BY Holds
<1>2. run[r].status \in ActiveStatus /\ row.status # "none"
  BY DEF Allowed
<1>3. RowsInv'
  <2>1. RowsInv
    BY DEF SerialInv
  <2> QED
    BY <1>1, <1>2, <2>1, RowsStep
<1>4. Writes(q)
  <2>1. run'[r] = row /\ \A y \in Runs \ {r} : run'[y] = run[y]
    BY <1>1 DEF TypeOK, Written
  <2>2. req[q].op \in Writers
    BY DEF Single
  <2> QED
    BY <1>1, <2>1, <2>2 DEF Writes
<1>5. RequestsInv'
  BY <1>1, <1>4, WriteStep DEF SerialInv
<1>6. Mapped
  BY <1>1, MappedRow DEF Written
<1> QED
  BY <1>3, <1>5, <1>6 DEF SerialInv

\* A request that writes evidence only, of the run it has loaded.
LEMMA EvidenceCommit ==
  ASSUME TypeOK, SerialInv, NEW q \in Requests,
         req[q].op \in {"defer", "heartbeat"},
         NEW r \in LoadedRuns(q), NEW ev,
         run' = [run EXCEPT ![r] = [run[r] EXCEPT !.ev = ev]] \/ UNCHANGED run,
         EndRequest(q), UNCHANGED <<task, selfTest>>,
         req[q].op = "heartbeat" => ev.owner # NoWorker /\ ev.lease # "none"
  PROVE  SerialInv' /\ Mapped
<1>1. /\ r \in Runs /\ Loaded(req[q], r)
      /\ MayWrite(req[q].op, run[r])
      /\ ~ Quiet(req[q])
  <2>1. Sound(req[q], run, task)
    BY DEF SerialInv, RequestsInv
  <2> QED
    BY <2>1 DEF Sound, LoadedRuns, Loaded, Quiet
<1>2. CASE UNCHANGED run
  <2>1. Sound(Idle, run, task) /\ Quiet(Idle) /\ ~ AtWork(Idle)
    BY IdleSound DEF Quiet, AtWork, Idle
  <2>2. SerialInv'
    BY <1>2, <2>1, ReadStep DEF EndRequest
  <2> QED
    BY <1>2, <2>2, MappedStutter
<1>3. CASE run' = [run EXCEPT ![r] = [run[r] EXCEPT !.ev = ev]]
  <2> DEFINE row == [run[r] EXCEPT !.ev = ev]
  <2>1. /\ row.status = run[r].status /\ row.task = run[r].task
        /\ row.kind = run[r].kind /\ row.ev = ev
    BY <1>1 DEF TypeOK, Row
  <2> HIDE DEF row
  <2>2. run'[r] = row /\ \A y \in Runs \ {r} : run'[y] = run[y]
    BY <1>1, <1>3 DEF TypeOK, row
  <2>3. IF req[q].op = "defer" THEN run[r].status = "queued"
                               ELSE run[r].status = "running"
    BY <1>1 DEF MayWrite, FromQueued, FromRunning
  <2>4. RowsInv'
    <3>1. \A y \in Runs :
           /\ run'[y].status = run[y].status
           /\ run'[y].task = run[y].task
           /\ run'[y].kind = run[y].kind
           /\ run[y].status = "succeeded" => run'[y].ev = run[y].ev
           /\ run[y].status = "running" /\ run[y].kind = "symphony" =>
                run'[y].ev.owner # NoWorker /\ run'[y].ev.lease # "none"
      BY <2>1, <2>2, <2>3 DEF SerialInv, RowsInv, RunningHasLease
    <3> QED
      BY <3>1, EvidenceStep DEF SerialInv
  <2>5. Writes(q)
    BY <1>1, <2>1, <2>2 DEF Writes, Writers, FromQueued, FromRunning
  <2>6. RequestsInv'
    <3>1. Sound(Idle, run', task') /\ ~ AtWork(Idle)
      BY IdleSound DEF AtWork, Idle
    <3> QED
      BY <1>1, <2>5, <3>1, WriteStep DEF SerialInv, EndRequest
  <2>7. Mapped
    BY <2>1, <2>2, MappedStutter
  <2> QED
    BY <2>4, <2>6, <2>7 DEF SerialInv
<1> QED
  BY <1>2, <1>3

-----------------------------------------------------------------------------
(* The steps that read. *)

\* A call arrives only when the other requests are quiet.
LEMMA ArrivesAlone ==
  ASSUME Serialized, NEW q \in Requests, NEW call, Arrives(q, call)
  PROVE  \A p \in Requests : Quiet(req[p])
BY DEF Arrives, Quiet

\* The others are quiet when a request that is not goes on.
LEMMA GoesOnAlone ==
  ASSUME SerialInv, NEW q \in Requests, ~ Quiet(req[q])
  PROVE  \A p \in Requests \ {q} : Quiet(req[p])
BY DEF SerialInv, RequestsInv, OneAtATime

\* The limit that a dispatch and a claim have looked at counts every running
\* run.
LEMMA RoomSeen ==
  ASSUME NEW r \in Runs, run[r].status = "queued",
         RunningCount(r) < MaxConcurrency
  PROVE  Cardinality(RunningIn(run)) < MaxConcurrency
<1>1. {y \in Runs \ {r} : run[y].status = "running"} = RunningIn(run)
  BY DEF RunningIn
<1> QED
  BY <1>1 DEF RunningCount

\* A call that reads one run and its task.
LEMMA LoadStep ==
  ASSUME TypeOK, SerialInv, NEW q \in Requests, NEW r \in Runs,
         NEW op \in Writers \ {"recover", "finish"}, NEW w,
         Load(q, op, r, w),
         \A p \in Requests \ {q} : Quiet(req[p]),
         MayWrite(op, run[r]),
         op \in {"dispatch", "claim"} => RunningCount(r) < MaxConcurrency,
         op \in {"claim", "heartbeat"} => w \in Workers
  PROVE  SerialInv' /\ Mapped
<1> DEFINE x == Session(op, {r}, {run[r].task}, w)
<1>1. RowsInv
  BY DEF SerialInv
<1>2. op \in {"dispatch", "claim"} =>
        Cardinality(RunningIn(run)) < MaxConcurrency
  BY RoomSeen DEF MayWrite, FromQueued
<1>3. Sound(x, run, task)
  BY <1>1, <1>2, SessionSound
<1>4. ~ AtWork(x)
  BY DEF Session, AtWork, Writers, FromQueued, FromRunning
<1> HIDE DEF x
<1>5. req' = [req EXCEPT ![q] = x] /\ UNCHANGED <<run, task, selfTest>>
  BY DEF Load, db, x
<1>6. SerialInv'
  BY <1>3, <1>4, <1>5, ReadStep
<1> QED
  BY <1>5, <1>6, MappedStutter

\* The calls that read one run: in the status that their operation needs.
LEMMA CallStep ==
  ASSUME TypeOK, SerialInv, Serialized, NEW q \in Requests, NEW r \in Runs,
         \/ DispatchLoad(q, r) \/ DeferLoad(q, r) \/ PauseLoad(q, r)
         \/ ResumeLoad(q, r) \/ CancelLoad(q, r)
         \/ \E w \in Workers : \/ ClaimLoad(q, r, w) \/ HeartbeatLoad(q, r, w)
                               \/ CompleteLoad(q, r, w)
  PROVE  SerialInv' /\ Mapped
<1> USE DEF MayWrite, Writers, FromQueued, FromRunning
<1>1. MayDispatch(q, r) => \A p \in Requests \ {q} : Quiet(req[p])
  BY ArrivesAlone, GoesOnAlone DEF MayDispatch, Quiet
<1>2. CASE DispatchLoad(q, r)
  BY <1>1, <1>2, LoadStep DEF DispatchLoad
<1>3. CASE DeferLoad(q, r)
  BY <1>1, <1>3, LoadStep DEF DeferLoad
<1>4. CASE PauseLoad(q, r) \/ ResumeLoad(q, r) \/ CancelLoad(q, r)
  BY <1>4, ArrivesAlone, LoadStep DEF PauseLoad, ResumeLoad, CancelLoad
<1>5. ASSUME NEW w \in Workers,
             ClaimLoad(q, r, w) \/ HeartbeatLoad(q, r, w) \/ CompleteLoad(q, r, w)
      PROVE  SerialInv' /\ Mapped
  BY <1>5, ArrivesAlone, LoadStep DEF ClaimLoad, HeartbeatLoad, CompleteLoad, Owned
<1> QED
  BY <1>2, <1>3, <1>4, <1>5

\* A create and a retry read the task and all its active runs.
LEMMA CreateCallStep ==
  ASSUME TypeOK, SerialInv, Serialized, NEW q \in Requests, NEW t \in Tasks,
         NEW kind, CreateLoad(q, t, kind) \/ RetryLoad(q, t, kind)
  PROVE  SerialInv' /\ Mapped
<1>1. PICK x :
        /\ req' = [req EXCEPT ![q] = x]
        /\ x.op \in {"create", "retry"}
        /\ x.op = "retry" => task[t] \notin {"running", "draft"}
        /\ \A y \in Runs : x.rows[y] = IF y \in ActiveRuns(t) THEN run[y] ELSE NoRow
        /\ \A u \in Tasks : x.tasks[u] = IF u = t THEN task[u] ELSE "none"
  <2>1. CASE CreateLoad(q, t, kind)
    <3> DEFINE x == [Session("create", ActiveRuns(t), {t}, NoWorker)
                       EXCEPT !.kind = kind, !.gate = GatePassed(t, task[t])]
    <3>1. /\ x.op = "create"
          /\ \A y \in Runs :
               x.rows[y] = IF y \in ActiveRuns(t) THEN run[y] ELSE NoRow
          /\ \A u \in Tasks : x.tasks[u] = IF u = t THEN task[u] ELSE "none"
      BY DEF Session
    <3>2. req' = [req EXCEPT ![q] = x]
      BY <2>1 DEF CreateLoad
    <3> HIDE DEF x
    <3> QED
      BY <3>1, <3>2
  <2>2. CASE RetryLoad(q, t, kind)
    <3> DEFINE x == [Session("retry", ActiveRuns(t), {t}, NoWorker)
                       EXCEPT !.kind = kind]
    <3>1. /\ x.op = "retry"
          /\ \A y \in Runs :
               x.rows[y] = IF y \in ActiveRuns(t) THEN run[y] ELSE NoRow
          /\ \A u \in Tasks : x.tasks[u] = IF u = t THEN task[u] ELSE "none"
      BY DEF Session
    <3>2. req' = [req EXCEPT ![q] = x] /\ task[t] \notin {"running", "draft"}
      BY <2>2 DEF RetryLoad
    <3> HIDE DEF x
    <3> QED
      BY <3>1, <3>2
  <2> QED
    BY <2>1, <2>2
<1>2. /\ \A y \in Runs : Loaded(x, y) => y \in ActiveRuns(t)
      /\ \A y \in ActiveRuns(t) : Loaded(x, y)
      /\ \A u \in Tasks : HasTask(x, u) => u = t
  BY <1>1 DEF Loaded, HasTask, NoRow, ActiveRuns, RunsOf
<1>3. Fresh(x, run, task)
  BY <1>1, <1>2 DEF Fresh, Loaded, HasTask
<1>4. ItsTask(x, run)
  BY <1>1, <1>2
  DEF ItsTask, Single, Writers, FromQueued, FromRunning, ActiveRuns, RunsOf
<1>5. Sound(x, run, task) /\ ~ AtWork(x)
  BY <1>1, <1>3, <1>4 DEF Sound, MayWrite, FromQueued, FromRunning, AtWork
<1>6. /\ \A p \in Requests \ {q} : Quiet(req[p])
      /\ UNCHANGED <<run, task, selfTest>>
  BY ArrivesAlone DEF CreateLoad, RetryLoad, db
<1>7. SerialInv'
  BY <1>1, <1>5, <1>6, ReadStep
<1> QED
  BY <1>6, <1>7, MappedStutter

\* A recovery reads every expired run and the tasks of these runs.
LEMMA RecoverCallStep ==
  ASSUME TypeOK, SerialInv, Serialized, NEW q \in Requests, RecoverLoad(q)
  PROVE  SerialInv' /\ Mapped
<1> DEFINE ts == {run[r].task : r \in Expired}
           x == Session("recover", Expired, ts, NoWorker)
<1>1. /\ x.op = "recover"
      /\ \A y \in Runs : x.rows[y] = IF y \in Expired THEN run[y] ELSE NoRow
      /\ \A u \in Tasks : x.tasks[u] = IF u \in ts THEN task[u] ELSE "none"
  BY DEF Session
<1>2. /\ req' = [req EXCEPT ![q] = x]
      /\ \A p \in Requests \ {q} : Quiet(req[p])
      /\ UNCHANGED <<run, task, selfTest>>
  BY ArrivesAlone DEF RecoverLoad, db
<1> HIDE DEF x
<1>3. /\ \A y \in Runs : Loaded(x, y) <=> y \in Expired
      /\ \A u \in Tasks : HasTask(x, u) <=> u \in ts
  BY <1>1 DEF Loaded, HasTask, NoRow, Expired, TypeOK
<1>4. Fresh(x, run, task)
  BY <1>1, <1>3 DEF Fresh
<1>5. \A y \in Expired : run[y].task \in Tasks
  BY DEF SerialInv, RowsInv, Expired
<1>6. ItsTask(x, run)
  BY <1>1, <1>3, <1>5
  DEF ItsTask, Single, Writers, FromQueued, FromRunning, Creating, Expired
<1>7. Sound(x, run, task) /\ ~ AtWork(x)
  BY <1>1, <1>3, <1>4, <1>6
  DEF Sound, MayWrite, FromQueued, FromRunning, Expired, AtWork
<1>8. SerialInv'
  BY <1>2, <1>7, ReadStep
<1> QED
  BY <1>2, <1>8, MappedStutter

\* An approval and a rejection read the task.
LEMMA ApprovalCallStep ==
  ASSUME TypeOK, SerialInv, Serialized, NEW q \in Requests, NEW t \in Tasks,
         ApproveLoad(q, t) \/ RejectLoad(q, t)
  PROVE  SerialInv' /\ Mapped
<1>1. PICK op \in {"approve", "reject"} :
        req' = [req EXCEPT ![q] = Session(op, {}, {t}, NoWorker)]
  BY DEF ApproveLoad, RejectLoad
<1> DEFINE x == Session(op, {}, {t}, NoWorker)
<1>2. /\ x.op = op
      /\ \A y \in Runs : x.rows[y] = NoRow
      /\ \A u \in Tasks : x.tasks[u] = IF u = t THEN task[u] ELSE "none"
  BY DEF Session
<1> HIDE DEF x
<1>3. Sound(x, run, task) /\ ~ AtWork(x)
  BY <1>2
  DEF Sound, Fresh, ItsTask, Loaded, HasTask, NoRow, AtWork, Single, Creating,
      Writers, FromQueued, FromRunning
<1>4. /\ \A p \in Requests \ {q} : Quiet(req[p])
      /\ UNCHANGED <<run, task, selfTest>>
  BY ArrivesAlone DEF ApproveLoad, RejectLoad, db
<1>5. SerialInv'
  BY <1>1, <1>3, <1>4, ReadStep DEF x
<1> QED
  BY <1>4, <1>5, MappedStutter

\* A request that ends without a write.
LEMMA QuitStep ==
  ASSUME TypeOK, SerialInv, NEW q \in Requests, EndRequest(q),
         UNCHANGED <<run, task, selfTest>>
  PROVE  SerialInv' /\ Mapped
<1>1. Sound(Idle, run, task) /\ Quiet(Idle) /\ ~ AtWork(Idle)
  BY IdleSound DEF Quiet, AtWork, Idle
<1>2. SerialInv'
  BY <1>1, ReadStep DEF EndRequest
<1> QED
  BY <1>2, MappedStutter

-----------------------------------------------------------------------------
(* The steps that create. *)

\* A task that is not running, and does not become running or completed, may
\* change its status alone.
LEMMA TaskOnlyStep ==
  ASSUME TypeOK, RowsInv, UNCHANGED <<run, selfTest>>,
         \/ UNCHANGED task
         \/ \E t \in Tasks, new \in TaskStatus \ {"running", "completed"} :
              task[t] # "running" /\ task' = [task EXCEPT ![t] = new]
  PROVE  RowsInv'
<1>1. \A t \in Tasks :
        \/ task'[t] = task[t]
        \/ /\ task[t] # "running"
           /\ task'[t] \notin {"running", "completed"}
  BY DEF TypeOK
<1>2. TaskFollowsRuns'
  BY <1>1 DEF RowsInv, TaskFollowsRuns, RunsOf
<1>3. CompletedIsEarned'
  BY <1>1 DEF RowsInv, CompletedIsEarned, RunsOf
<1> QED
  BY <1>2, <1>3 DEF RowsInv, ActiveOnce, RunningHasLease

\* A retry makes its task ready and goes on to create a run.
LEMMA RetryStep ==
  ASSUME TypeOK, ApprovalInv, SerialInv, NEW q \in Requests, RetryCommit(q)
  PROVE  SerialInv' /\ Mapped
<1> DEFINE x(t) == [req[q] EXCEPT !.op = "recreate", !.tasks[t] = "ready",
                                  !.gate = GatePassed(t, "ready")]
<1>1. PICK t \in LoadedTasks(q) :
        /\ task' = TaskSet(q, t, "ready")
        /\ req' = [req EXCEPT ![q] = x(t)]
  BY DEF RetryCommit
<1>2. /\ x(t).op = "recreate"
      /\ x(t).rows = req[q].rows
      /\ x(t).tasks = [req[q].tasks EXCEPT ![t] = "ready"]
  BY RequestFacts DEF Request
<1> HIDE DEF x
<1>3. /\ Sound(req[q], run, task) /\ ~ Quiet(req[q])
      /\ t \in Tasks /\ HasTask(req[q], t)
  BY DEF SerialInv, RequestsInv, RetryCommit, Quiet, LoadedTasks, HasTask
<1>4. Fresh(req[q], run, task) /\ task[t] = req[q].tasks[t] /\ task[t] # "running"
  BY <1>3 DEF RetryCommit, Sound, Fresh, ItsTask
<1>5. task' = [task EXCEPT ![t] = "ready"] /\ UNCHANGED <<run, selfTest>>
  BY <1>1, <1>3, <1>4, TaskSetFresh DEF RetryCommit
<1>6. RowsInv'
  BY <1>3, <1>4, <1>5, TaskOnlyStep DEF SerialInv
<1>7. \A u \in Tasks : HasTask(x(t), u) => u = t
  BY <1>2, <1>3, RequestFacts
  DEF RetryCommit, ApprovalInv, Permitted, HasTask, Request
<1>8. Sound(x(t), run', task')
  <2>1. Fresh(x(t), run', task')
    <3>1. x(t).tasks[t] = "ready" /\ task'[t] = "ready"
      BY <1>2, <1>3, <1>5, RequestFacts DEF Request, TypeOK
    <3> QED
      BY <1>2, <1>4, <1>5, <1>7, <3>1 DEF Fresh, Loaded
  <2>2. ItsTask(x(t), run')
    BY <1>2, <1>3, <1>5, <1>7
    DEF RetryCommit, ItsTask, Sound, Loaded, Single, Creating, Writers,
        FromQueued, FromRunning
  <2> QED
    BY <1>2, <2>1, <2>2 DEF Sound, MayWrite, FromQueued, FromRunning
<1>9. RequestsInv'
  <2>1. Writes(q)
    BY <1>5 DEF Writes
  <2>2. ~ AtWork(x(t))
    BY <1>2 DEF AtWork
  <2> QED
    BY <1>1, <1>3, <1>8, <2>1, <2>2, WriteStep DEF SerialInv
<1> QED
  BY <1>5, <1>6, <1>9, MappedStutter DEF SerialInv

\* An approval makes a draft task ready; a rejection blocks one that has not
\* started.
LEMMA ApprovalCommitStep ==
  ASSUME TypeOK, SerialInv, NEW q \in Requests,
         ApproveCommit(q) \/ RejectCommit(q)
  PROVE  SerialInv' /\ Mapped
<1>1. PICK t \in LoadedTasks(q) :
        \/ UNCHANGED task
        \/ \E new \in {"ready", "blocked"} :
             /\ req[q].tasks[t] \in {"draft", "ready"}
             /\ task' = TaskSet(q, t, new)
  BY DEF ApproveCommit, RejectCommit
<1>2. /\ Sound(req[q], run, task) /\ ~ Quiet(req[q])
      /\ t \in Tasks /\ HasTask(req[q], t)
  BY DEF SerialInv, RequestsInv, ApproveCommit, RejectCommit, Quiet,
         LoadedTasks, HasTask
<1>3. task[t] = req[q].tasks[t]
  BY <1>2 DEF Sound, Fresh
<1>4. UNCHANGED <<run, selfTest>> /\ req' = [req EXCEPT ![q] = Idle]
  BY DEF ApproveCommit, RejectCommit, EndRequest
<1>5. \/ UNCHANGED task
      \/ \E new \in {"ready", "blocked"} :
           task[t] # "running" /\ task' = [task EXCEPT ![t] = new]
  BY <1>1, <1>2, <1>3, TaskSetFresh
<1>6. RowsInv'
  BY <1>2, <1>4, <1>5, TaskOnlyStep DEF SerialInv
<1>7. RequestsInv'
  <2>1. Writes(q)
    BY <1>4 DEF Writes
  <2>2. Sound(Idle, run', task') /\ ~ AtWork(Idle)
    BY IdleSound DEF AtWork, Idle
  <2> QED
    BY <1>2, <1>4, <2>1, <2>2, WriteStep DEF SerialInv
<1> QED
  BY <1>4, <1>6, <1>7, MappedStutter DEF SerialInv

\* What follows a create: nothing, or the dispatch that ends a retry.
LEMMA AfterCreateSound ==
  ASSUME NEW q \in Requests, NEW r \in Runs, NEW row, AfterCreate(q, r, row),
         row.status = run'[r].status
  PROVE  \E x : /\ req' = [req EXCEPT ![q] = x]
                /\ Sound(x, run', task')
                /\ ~ AtWork(x)
<1> DEFINE y == [Idle EXCEPT !.op = "redispatch", !.rows[r] = row]
<1>1. /\ y.op = "redispatch"
      /\ \A z \in Runs : y.rows[z] = IF z = r THEN row ELSE NoRow
      /\ \A t \in Tasks : y.tasks[t] = "none"
  BY DEF Idle
<1> HIDE DEF y
<1>2. Sound(y, run', task') /\ ~ AtWork(y)
  BY <1>1
  DEF Sound, Fresh, ItsTask, MayWrite, Loaded, HasTask, NoRow, AtWork, Single,
      Creating, Writers, FromQueued, FromRunning
<1>3. Sound(Idle, run', task') /\ ~ AtWork(Idle)
  BY IdleSound DEF AtWork, Idle
<1>4. \/ req' = [req EXCEPT ![q] = Idle]
      \/ req' = [req EXCEPT ![q] = y] /\ req[q].op = "recreate"
  BY DEF AfterCreate, y
<1> QED
  BY <1>2, <1>3, <1>4

\* A create that returns the active run it has seen.
LEMMA CreateExistingStep ==
  ASSUME TypeOK, SerialInv, NEW q \in Requests, CreateExisting(q)
  PROVE  SerialInv' /\ Mapped
<1>1. PICK r \in LoadedRuns(q) : AfterCreate(q, r, run[r])
  BY DEF CreateExisting
<1>2. UNCHANGED <<run, task, selfTest>>
  BY DEF CreateExisting, db
<1>3. PICK x : /\ req' = [req EXCEPT ![q] = x]
               /\ Sound(x, run', task')
               /\ ~ AtWork(x)
  <2>1. r \in Runs
    BY DEF LoadedRuns
  <2> QED
    BY <1>1, <1>2, <2>1, AfterCreateSound
<1>4. \A p \in Requests \ {q} : Quiet(req[p])
  BY GoesOnAlone DEF CreateExisting, Quiet
<1>5. SerialInv'
  BY <1>2, <1>3, <1>4, ReadStep
<1> QED
  BY <1>2, <1>5, MappedStutter

\* A create that inserts a run: queued only when its task has no active run.
LEMMA CreateStepSerial ==
  ASSUME TypeOK, SerialInv, NEW q \in Requests, CreateCommit(q)
  PROVE  SerialInv' /\ Mapped
<1> DEFINE new(t) == [status |-> IF req[q].gate THEN "queued" ELSE "blocked",
                      task |-> t, kind |-> req[q].kind, ev |-> NoEvidence]
<1>1. PICK r \in Runs, t \in LoadedTasks(q) :
        /\ run[r].status = "none"
        /\ run' = [run EXCEPT ![r] = new(t)]
        /\ AfterCreate(q, r, new(t))
  BY DEF CreateCommit
<1>2. /\ new(t).status = IF req[q].gate THEN "queued" ELSE "blocked"
      /\ new(t).task = t
  OBVIOUS
<1> HIDE DEF new
<1>3. /\ Sound(req[q], run, task) /\ ~ Quiet(req[q])
      /\ t \in Tasks /\ HasTask(req[q], t)
      /\ req[q].op \in Creating
  BY DEF SerialInv, RequestsInv, CreateCommit, Quiet, LoadedTasks, HasTask,
         Creating
<1>4. run'[r] = new(t) /\ \A y \in Runs \ {r} : run'[y] = run[y]
  BY <1>1 DEF TypeOK
<1>5. UNCHANGED <<task, selfTest>>
  BY DEF CreateCommit
<1>6. new(t).status = "queued" =>
        \A y \in Runs : run[y].task = t => run[y].status \notin ActiveStatus
  BY <1>2, <1>3 DEF CreateCommit, Sound, ItsTask, LoadedRuns, Loaded
<1>7. RowsInv'
  <2>1. ActiveOnce'
    BY <1>2, <1>4, <1>6 DEF SerialInv, RowsInv, ActiveOnce
  <2>2. TaskFollowsRuns'
    BY <1>1, <1>2, <1>4, <1>5 DEF SerialInv, RowsInv, TaskFollowsRuns, RunsOf
  <2>3. CompletedIsEarned'
    <3> SUFFICES ASSUME NEW u \in Tasks, task'[u] = "completed"
                 PROVE  /\ selfTest'[u] = "passed"
                        /\ \E y \in Runs : /\ run'[y].task = u
                                           /\ run'[y].status = "succeeded"
                                           /\ run'[y].ev.result = "passed"
      BY DEF CompletedIsEarned, RunsOf
    <3>1. PICK y \in Runs : /\ run[y].task = u
                            /\ run[y].status = "succeeded"
                            /\ run[y].ev.result = "passed"
      BY <1>5 DEF SerialInv, RowsInv, CompletedIsEarned, RunsOf
    <3>2. y # r
      BY <1>1, <3>1
    <3>3. selfTest'[u] = "passed"
      BY <1>5 DEF SerialInv, RowsInv, CompletedIsEarned
    <3> QED
      BY <1>4, <3>1, <3>2, <3>3
  <2>4. RunningHasLease'
    BY <1>2, <1>4 DEF SerialInv, RowsInv, RunningHasLease
  <2>5. \A y \in Runs : run'[y].status # "none" => run'[y].task \in Tasks
    BY <1>2, <1>3, <1>4 DEF SerialInv, RowsInv
  <2> QED
    BY <2>1, <2>2, <2>3, <2>4, <2>5 DEF RowsInv
<1>8. RequestsInv'
  <2>1. PICK x : /\ req' = [req EXCEPT ![q] = x]
                 /\ Sound(x, run', task')
                 /\ ~ AtWork(x)
    BY <1>1, <1>4, AfterCreateSound
  <2>2. Writes(q)
    BY <1>1, <1>4 DEF Writes
  <2> QED
    BY <1>3, <2>1, <2>2, WriteStep DEF SerialInv
<1>9. Mapped
  <2> DEFINE old == [y \in Runs |-> run[y].status]
             oldTask == [y \in Runs |-> run[y].task]
             now == [y \in Runs |-> run'[y].status]
             nowTask == [y \in Runs |-> run'[y].task]
  <2>1. now = [old EXCEPT ![r] = new(t).status]
    <3>1. \A y \in Runs : now[y] = [old EXCEPT ![r] = new(t).status][y]
      BY <1>4
    <3> QED
      BY <3>1
  <2>2. nowTask = [oldTask EXCEPT ![r] = t]
    <3>1. \A y \in Runs : nowTask[y] = [oldTask EXCEPT ![r] = t][y]
      BY <1>2, <1>4
    <3> QED
      BY <3>1
  <2>3. old[r] = "none"
    BY <1>1
  <2>4. CASE new(t).status = "queued"
    <3>1. Lifecycle!ActiveRuns(t) = {}
      BY <1>6, <2>4 DEF Lifecycle!ActiveRuns, Lifecycle!ActiveStatus
    <3>2. Lifecycle!Enqueue(r, t)
      BY <2>1, <2>2, <2>3, <2>4, <3>1 DEF Lifecycle!Enqueue
    <3> QED
      BY <1>3, <3>2 DEF Mapped, Lifecycle!Next
  <2>5. CASE new(t).status = "blocked"
    <3>1. Lifecycle!Block(r, t)
      BY <2>1, <2>2, <2>3, <2>5 DEF Lifecycle!Block
    <3> QED
      BY <1>3, <3>1 DEF Mapped, Lifecycle!Next
  <2> QED
    BY <1>2, <2>4, <2>5
<1> QED
  BY <1>7, <1>8, <1>9 DEF SerialInv

-----------------------------------------------------------------------------
(* The steps that write a run with its task. *)

\* Request q writes its run r, its task t and the gate of the task.
Commits(q, r, t, s, ev, new, gate) ==
  /\ run' = RunSet(q, r, s, ev)
  /\ task' = TaskSet(q, t, new)
  /\ selfTest' = [selfTest EXCEPT ![t] = gate]

\* What the commit of a fresh session writes.
LEMMA FreshCommit ==
  ASSUME TypeOK, SerialInv, NEW q \in Requests,
         req[q].op \in Single \ {"executing"},
         NEW r \in LoadedRuns(q), NEW t \in LoadedTasks(q),
         NEW s, NEW ev, NEW new, NEW gate,
         Commits(q, r, t, s, ev, new, gate)
  PROVE  \E row : /\ Written(r, row, new, gate)
                  /\ row.status = s
                  /\ row.ev = ev
                  /\ row.task = run[r].task
                  /\ row.kind = run[r].kind
<1> DEFINE row == [run[r] EXCEPT !.status = s, !.ev = ev]
<1>1. /\ r \in Runs /\ t \in Tasks /\ t = run[r].task
      /\ req[q].rows[r].status = run[r].status
      /\ req[q].tasks[t] = task[t]
  BY Holds
<1>2. run[r] \in Row
  BY <1>1 DEF TypeOK
<1>3. /\ row.status = s /\ row.ev = ev
      /\ row.task = run[r].task /\ row.kind = run[r].kind
  BY <1>2, RowSet
<1>4. run' = [run EXCEPT ![r] = row]
  BY <1>1 DEF Commits, RunSet, Flushed
<1>5. task' = [task EXCEPT ![t] = new]
  BY <1>1, TaskSetFresh DEF Commits
<1> HIDE DEF row
<1>6. Written(r, row, new, gate)
  BY <1>1, <1>4, <1>5 DEF Written, Commits
<1> QED
  BY <1>3, <1>6

\* A commit that ends its request and its run, or pauses, resumes or cancels
\* the run.
LEMMA ClosingCommit ==
  ASSUME TypeOK, SerialInv, NEW q \in Requests,
         NEW r \in LoadedRuns(q), NEW t \in LoadedTasks(q),
         NEW s, NEW ev, NEW new, NEW gate,
         Commits(q, r, t, s, ev, new, gate), EndRequest(q),
         \/ req[q].op = "pause" /\ s = "paused" /\ new = "ready"
         \/ req[q].op = "resume" /\ s = "queued" /\ new = "ready"
         \/ /\ req[q].op = "cancel" /\ s = "cancelled"
            /\ new \in {"ready", "blocked"}
         \/ /\ req[q].op \in {"finish", "complete"}
            /\ \/ s = "failed" /\ new = "blocked"
               \/ /\ s = "succeeded" /\ new = "completed"
                  /\ gate = "passed" /\ ev.result = "passed"
  PROVE  SerialInv' /\ Mapped
<1>1. req[q].op \in Single \ {"executing", "defer", "heartbeat"}
  BY DEF Single, Writers, FromQueued, FromRunning
<1>2. PICK row : /\ Written(r, row, new, gate)
                 /\ row.status = s
                 /\ row.ev = ev
                 /\ row.task = run[r].task
                 /\ row.kind = run[r].kind
  BY <1>1, FreshCommit
<1>3. MayWrite(req[q].op, run[r])
  BY <1>1, Holds
<1>4. Allowed(run[r].status, s) /\ s # "running" /\ new # "running"
  BY <1>3 DEF MayWrite, Allowed, FromQueued, FromRunning
<1>5. Sound(Idle, run', task') /\ ~ AtWork(Idle)
  BY IdleSound DEF AtWork, Idle
<1> QED
  BY <1>1, <1>2, <1>4, <1>5, CommitStep DEF EndRequest

\* Pause, resume, cancel.
LEMMA ControlCommitStep ==
  ASSUME TypeOK, SerialInv, NEW q \in Requests,
         PauseCommit(q) \/ ResumeCommit(q) \/ CancelCommit(q)
  PROVE  SerialInv' /\ Mapped
<1>1. CASE PauseCommit(q) \/ ResumeCommit(q)
  <2>1. PICK r \in LoadedRuns(q), t \in LoadedTasks(q),
             s \in {"paused", "queued"} :
          /\ s = IF req[q].op = "pause" THEN "paused" ELSE "queued"
          /\ run' = RunSet(q, r, s, req[q].rows[r].ev)
          /\ task' = TaskSet(q, t, "ready")
    BY <1>1 DEF PauseCommit, ResumeCommit
  <2>2. Commits(q, r, t, s, req[q].rows[r].ev, "ready", selfTest[t])
    BY <1>1, <2>1 DEF PauseCommit, ResumeCommit, TypeOK, Commits
  <2>3. req[q].op \in {"pause", "resume"} /\ EndRequest(q)
    BY <1>1 DEF PauseCommit, ResumeCommit
  <2> QED
    BY <2>1, <2>2, <2>3, ClosingCommit
<1>2. CASE CancelCommit(q)
  <2>1. PICK r \in LoadedRuns(q), t \in LoadedTasks(q), new \in {"ready", "blocked"} :
          /\ run' = RunSet(q, r, "cancelled", req[q].rows[r].ev)
          /\ task' = TaskSet(q, t, new)
          /\ \/ selfTest' = selfTest
             \/ selfTest' = [selfTest EXCEPT ![t] = "failed"]
    BY <1>2 DEF CancelCommit
  <2>2. \E gate :
          Commits(q, r, t, "cancelled", req[q].rows[r].ev, new, gate)
    <3>1. CASE selfTest' = selfTest
      <4>1. Commits(q, r, t, "cancelled", req[q].rows[r].ev, new, selfTest[t])
        BY <2>1, <3>1 DEF TypeOK, Commits
      <4> QED
        BY <4>1
    <3>2. CASE selfTest' = [selfTest EXCEPT ![t] = "failed"]
      <4>1. Commits(q, r, t, "cancelled", req[q].rows[r].ev, new, "failed")
        BY <2>1, <3>2 DEF Commits
      <4> QED
        BY <4>1
    <3> QED
      BY <2>1, <3>1, <3>2
  <2>3. req[q].op = "cancel" /\ EndRequest(q)
    BY <1>2 DEF CancelCommit
  <2> QED
    BY <2>1, <2>2, <2>3, ClosingCommit
<1> QED
  BY <1>1, <1>2

\* The local executor returns, or a worker completes its run.
LEMMA OutcomeCommitStep ==
  ASSUME TypeOK, SerialInv, NEW q \in Requests,
         \/ \E succeeded \in BOOLEAN : FinishCommit(q, succeeded)
         \/ \E requested, validated \in BOOLEAN :
              CompleteCommit(q, requested, validated)
  PROVE  SerialInv' /\ Mapped
<1>1. ASSUME NEW succeeded \in BOOLEAN, FinishCommit(q, succeeded)
      PROVE  SerialInv' /\ Mapped
  <2> DEFINE s == IF succeeded THEN "succeeded" ELSE "failed"
             result == IF succeeded THEN "passed" ELSE "failed"
             ev == [NoEvidence EXCEPT !.result = result]
  <2>1. ev.result = result
    BY DEF NoEvidence
  <2>2. PICK r \in LoadedRuns(q), t \in LoadedTasks(q) :
          Commits(q, r, t, s, ev, TaskOutcome(succeeded), result)
    BY <1>1 DEF FinishCommit, Commits
  <2>3. req[q].op = "finish" /\ EndRequest(q)
    BY <1>1 DEF FinishCommit
  <2> HIDE DEF ev
  <2> QED
    BY <2>1, <2>2, <2>3, ClosingCommit DEF TaskOutcome
<1>2. ASSUME NEW requested \in BOOLEAN, NEW validated \in BOOLEAN,
             CompleteCommit(q, requested, validated)
      PROVE  SerialInv' /\ Mapped
  <2> DEFINE passed == CompletionPassed(requested, validated)
             s == IF passed THEN "succeeded" ELSE "failed"
             ev(r) == [req[q].rows[r].ev EXCEPT !.result =
                          IF validated THEN "passed" ELSE "failed"]
  <2>1. PICK r \in LoadedRuns(q), t \in LoadedTasks(q) :
          Commits(q, r, t, s, ev(r), TaskOutcome(passed),
                  IF passed THEN "passed" ELSE "failed")
    BY <1>2 DEF CompleteCommit, Commits
  <2>2. passed => validated
    BY DEF CompletionPassed
  <2>3. ev(r).result = IF validated THEN "passed" ELSE "failed"
    BY <2>1, RequestFacts DEF Evidence
  <2>4. req[q].op = "complete" /\ EndRequest(q)
    BY <1>2 DEF CompleteCommit
  <2>5. passed \in BOOLEAN
    BY DEF CompletionPassed
  <2> HIDE DEF ev, passed
  <2> QED
    BY <2>1, <2>2, <2>3, <2>4, <2>5, ClosingCommit DEF TaskOutcome
<1> QED
  BY <1>1, <1>2

\* A dispatch starts its run and goes on to execute it.
LEMMA DispatchCommitStep ==
  ASSUME TypeOK, SerialInv, NEW q \in Requests, DispatchCommit(q)
  PROVE  SerialInv' /\ Mapped
<1> DEFINE x(t) == [req[q] EXCEPT !.op = "executing", !.tasks[t] = "running"]
<1>1. PICK r \in LoadedRuns(q), t \in LoadedTasks(q) :
        /\ run' = RunSet(q, r, "running", run[r].ev)
        /\ task' = TaskSet(q, t, "running")
        /\ req' = [req EXCEPT ![q] = x(t)]
  BY DEF DispatchCommit
<1>2. /\ x(t).op = "executing"
      /\ x(t).rows = req[q].rows
      /\ x(t).tasks = [req[q].tasks EXCEPT ![t] = "running"]
  BY RequestFacts DEF Request
<1> HIDE DEF x
<1>3. /\ req[q].op = "dispatch"
      /\ selfTest' = [selfTest EXCEPT ![t] = selfTest[t]]
  BY DEF DispatchCommit, TypeOK
<1>4. req[q].op \in Single \ {"executing", "defer", "heartbeat"}
  BY <1>3 DEF Single, Writers, FromQueued
<1>5. PICK row : /\ Written(r, row, "running", selfTest[t])
                 /\ row.status = "running"
                 /\ row.ev = run[r].ev
                 /\ row.task = run[r].task
                 /\ row.kind = run[r].kind
  <2>1. Commits(q, r, t, "running", run[r].ev, "running", selfTest[t])
    BY <1>1, <1>3 DEF Commits
  <2> QED
    BY <1>4, <2>1, FreshCommit
<1>6. /\ r \in Runs /\ t \in Tasks /\ t = run[r].task
      /\ run[r].status = "queued" /\ run[r].kind = "local"
      /\ Sound(req[q], run, task)
  BY <1>3, <1>4, Holds
  DEF MayWrite, FromQueued, SerialInv, RequestsInv
<1>7. /\ \A y \in Runs : Loaded(req[q], y) => y = r
      /\ \A u \in Tasks : HasTask(req[q], u) => u = t
  BY <1>1, <1>3, <1>4, <1>6 DEF Sound, ItsTask, Loaded, LoadedRuns
<1>8. run'[r] = row
  BY <1>5, <1>6 DEF Written, TypeOK
<1>9. Sound(x(t), run', task')
  <2>1. \A y \in Runs : Loaded(x(t), y) => y = r
    BY <1>2, <1>7 DEF Loaded
  <2>2. \A u \in Tasks : /\ HasTask(x(t), u) => u = t
                         /\ x(t).tasks[u] \in {"none", "running"}
    BY <1>2, <1>6, <1>7, RequestFacts DEF HasTask, Request
  <2>3. ItsTask(x(t), run')
    BY <1>2, <1>5, <1>6, <1>8, <2>1, <2>2 DEF ItsTask, Creating
  <2>4. MayWrite("executing", run'[r])
    BY <1>5, <1>6, <1>8 DEF MayWrite, FromQueued, FromRunning
  <2> QED
    BY <1>2, <2>1, <2>3, <2>4 DEF Sound, Quiet
<1>10. \A y \in Runs : Loaded(x(t), y) => y = r
  BY <1>2, <1>7 DEF Loaded
<1>11. Cardinality(RunningIn(run)) < MaxConcurrency
  BY <1>3, <1>6 DEF Sound
<1> QED
  BY <1>1, <1>3, <1>4, <1>5, <1>6, <1>9, <1>10, <1>11, CommitStep DEF Allowed

\* A claim wins, as nothing has come between its check and its update.
LEMMA ClaimCommitStep ==
  ASSUME TypeOK, SerialInv, NEW q \in Requests, ClaimCommit(q)
  PROVE  SerialInv' /\ Mapped
<1>1. PICK r \in LoadedRuns(q), t \in LoadedTasks(q) :
        IF ClaimWins(q, r)
        THEN /\ run' = [run EXCEPT ![r] = [run[r] EXCEPT !.status = "running",
                   !.ev = Leased(req[q].rows[r].ev, req[q].worker)]]
             /\ task' = TaskSet(q, t, "running")
        ELSE UNCHANGED <<run, task>>
  BY DEF ClaimCommit
<1> DEFINE ev == Leased(req[q].rows[r].ev, req[q].worker)
           row == [run[r] EXCEPT !.status = "running", !.ev = ev]
<1>2. /\ req[q].op = "claim"
      /\ selfTest' = [selfTest EXCEPT ![t] = selfTest[t]]
      /\ req' = [req EXCEPT ![q] = Idle]
  BY DEF ClaimCommit, EndRequest, TypeOK
<1>3. req[q].op \in Single \ {"executing", "defer", "heartbeat"}
  BY <1>2 DEF Single, Writers, FromQueued
<1>4. /\ r \in Runs /\ t \in Tasks /\ t = run[r].task
      /\ run[r].status = "queued" /\ run[r].kind = "symphony"
      /\ req[q].tasks[t] = task[t]
      /\ Sound(req[q], run, task)
  BY <1>2, <1>3, Holds
  DEF MayWrite, FromQueued, SerialInv, RequestsInv
<1>5. /\ row.status = "running" /\ row.ev = ev
      /\ row.task = run[r].task /\ row.kind = run[r].kind
  BY <1>4, RowSet DEF TypeOK
<1>6. ev.owner # NoWorker /\ ev.lease # "none"
  <2>1. req[q].worker # NoWorker
    BY <1>2, <1>4, ExecutionAssumption DEF Sound, ExecutionAssumption
  <2>2. req[q].rows[r].ev \in Evidence
    BY RequestFacts
  <2> QED
    BY <2>1, <2>2 DEF Leased, Evidence
<1>7. run' = [run EXCEPT ![r] = row] /\ task' = [task EXCEPT ![t] = "running"]
  BY <1>1, <1>4, TaskSetFresh DEF ClaimWins
<1> HIDE DEF ev, row
<1>8. Written(r, row, "running", selfTest[t])
  BY <1>2, <1>4, <1>7 DEF Written
<1>9. Sound(Idle, run', task') /\ ~ AtWork(Idle)
  BY IdleSound DEF AtWork, Idle
<1>10. Cardinality(RunningIn(run)) < MaxConcurrency
  BY <1>2, <1>4 DEF Sound
<1> QED
  BY <1>2, <1>3, <1>4, <1>5, <1>6, <1>8, <1>9, <1>10, CommitStep DEF Allowed

\* The executor returns: its run was cancelled, or is running as before.
LEMMA RefreshStep ==
  ASSUME TypeOK, SerialInv, Serialized, NEW q \in Requests, Refresh(q)
  PROVE  SerialInv' /\ Mapped
<1> DEFINE x(r) == [req[q] EXCEPT !.op = "finish", !.rows[r] = run[r]]
<1>1. PICK r \in LoadedRuns(q) :
        \/ EndRequest(q)
        \/ /\ run[r].status # "cancelled"
           /\ \A p \in Requests : req[p].op \in {"idle", "executing"}
           /\ req' = [req EXCEPT ![q] = x(r)]
  BY DEF Refresh
<1>2. UNCHANGED <<run, task, selfTest>> /\ req[q].op = "executing"
  BY DEF Refresh, db
<1>3. CASE EndRequest(q)
  BY <1>2, <1>3, QuitStep
<1>4. CASE /\ run[r].status # "cancelled"
           /\ \A p \in Requests : req[p].op \in {"idle", "executing"}
           /\ req' = [req EXCEPT ![q] = x(r)]
  <2>1. /\ x(r).op = "finish"
        /\ x(r).rows = [req[q].rows EXCEPT ![r] = run[r]]
        /\ x(r).tasks = req[q].tasks
    BY RequestFacts DEF Request
  <2> HIDE DEF x
  <2>2. /\ r \in Runs /\ Loaded(req[q], r)
        /\ Sound(req[q], run, task)
    BY DEF LoadedRuns, Loaded, SerialInv, RequestsInv
  <2>3. run[r].status = "running" /\ run[r].kind = "local"
    BY <1>2, <1>4, <2>2 DEF Sound, MayWrite
  <2>4. \A y \in Runs : Loaded(req[q], y) => y = r
    BY <1>2, <2>2 DEF Sound, ItsTask, Single
  <2>5. \A u \in Tasks :
          HasTask(req[q], u) => u = run[r].task /\ req[q].tasks[u] = "running"
    BY <1>2, <2>2 DEF Sound, ItsTask, Single, HasTask
  <2>6. x(r).rows[r] = run[r] /\ \A y \in Runs : Loaded(x(r), y) => y = r
    BY <2>1, <2>2, <2>4, RequestFacts DEF Loaded, Request
  <2>7. run[r].task \in Tasks => task[run[r].task] = "running"
    BY <2>2, <2>3 DEF SerialInv, RowsInv, TaskFollowsRuns, RunsOf
  <2>8. Fresh(x(r), run, task)
    BY <2>1, <2>5, <2>6, <2>7 DEF Fresh, HasTask
  <2>9. ItsTask(x(r), run)
    BY <2>1, <2>5, <2>6 DEF ItsTask, Creating, HasTask
  <2>10. MayWrite("finish", run[r])
    BY <2>3 DEF MayWrite, FromQueued, FromRunning
  <2>11. Sound(x(r), run, task)
    BY <2>1, <2>6, <2>8, <2>9, <2>10 DEF Sound
  <2>12. /\ \A p \in Requests \ {q} : Quiet(req[p])
         /\ AtWork(req[q])
         /\ \A y \in Runs : Loaded(x(r), y) => Loaded(req[q], y)
    BY <1>2, <1>4, <2>2, <2>6 DEF Quiet, AtWork
  <2>13. SerialInv'
    BY <1>2, <1>4, <2>11, <2>12, ReadStep
  <2> QED
    BY <1>2, <2>13, MappedStutter
<1> QED
  BY <1>1, <1>3, <1>4

\* A deferred dispatch and a heartbeat write evidence.
LEMMA EvidenceCommitStep ==
  ASSUME TypeOK, SerialInv, NEW q \in Requests,
         DeferCommit(q) \/ HeartbeatCommit(q)
  PROVE  SerialInv' /\ Mapped
<1>1. Sound(req[q], run, task)
  BY DEF SerialInv, RequestsInv
<1>2. CASE DeferCommit(q)
  <2> DEFINE deferred == [NoEvidence EXCEPT !.result = "deferred"]
  <2>1. PICK r \in LoadedRuns(q) :
          run' = RunSet(q, r, "queued", deferred) \/ UNCHANGED run
    BY <1>2 DEF DeferCommit
  <2>2. /\ req[q].op = "defer" /\ EndRequest(q)
        /\ UNCHANGED <<task, selfTest>>
    BY <1>2 DEF DeferCommit
  <2>3. r \in Runs /\ run[r].status = "queued" /\ req[q].rows[r].status = "queued"
    BY <1>1, <2>2
    DEF LoadedRuns, Sound, Fresh, Loaded, MayWrite, Quiet, FromQueued
  <2> HIDE DEF deferred
  <2>4. run[r] \in Row
    BY <2>3 DEF TypeOK
  <2>5. [run[r] EXCEPT !.status = run[r].status, !.ev = deferred]
          = [run[r] EXCEPT !.ev = deferred]
    BY <2>4 DEF Row
  <2>6. RunSet(q, r, "queued", deferred)
          = [run EXCEPT ![r] = [run[r] EXCEPT !.ev = deferred]]
    BY <2>3, <2>5 DEF RunSet, Flushed
  <2> QED
    BY <2>1, <2>2, <2>6, EvidenceCommit
<1>3. CASE HeartbeatCommit(q)
  <2> DEFINE ev(r) == Leased(req[q].rows[r].ev, req[q].worker)
  <2>1. PICK r \in LoadedRuns(q) :
          run' = [run EXCEPT ![r] = [run[r] EXCEPT !.ev = ev(r)]]
    BY <1>3 DEF HeartbeatCommit
  <2>2. /\ req[q].op = "heartbeat" /\ EndRequest(q)
        /\ UNCHANGED <<task, selfTest>>
    BY <1>3 DEF HeartbeatCommit
  <2>3. ev(r).owner # NoWorker /\ ev(r).lease # "none"
    <3>1. req[q].worker # NoWorker
      BY <1>1, <2>2, ExecutionAssumption DEF Sound, ExecutionAssumption
    <3>2. req[q].rows[r].ev \in Evidence
      BY <2>1, RequestFacts
    <3> QED
      BY <3>1, <3>2 DEF Leased, Evidence
  <2> HIDE DEF ev
  <2> QED
    BY <2>1, <2>2, <2>3, EvidenceCommit
<1> QED
  BY <1>2, <1>3

\* A recovery ends every run it has found expired, and blocks their tasks.
LEMMA RecoverCommitStep ==
  ASSUME TypeOK, SerialInv, NEW q \in Requests, RecoverCommit(q)
  PROVE  SerialInv' /\ Mapped
<1> DEFINE ended(r) ==
      [run[r] EXCEPT !.status = "failed", !.ev = req[q].rows[r].ev]
<1>1. /\ Sound(req[q], run, task) /\ ~ Quiet(req[q])
      /\ req[q].op = "recover"
  BY DEF SerialInv, RequestsInv, RecoverCommit, Quiet
<1>2. \A r \in Runs :
        /\ r \in LoadedRuns(q) <=> Loaded(req[q], r)
        /\ Loaded(req[q], r) => run[r].status = "running"
  BY <1>1 DEF LoadedRuns, Loaded, Sound, MayWrite, FromRunning
<1>3. \A r \in Runs : /\ ended(r).status = "failed"
                      /\ ended(r).task = run[r].task
                      /\ ended(r).kind = run[r].kind
  BY RequestFacts, RowSet
<1>4. \A r \in Runs :
        run'[r] = IF Loaded(req[q], r) THEN ended(r) ELSE run[r]
  BY <1>2 DEF RecoverCommit
<1> HIDE DEF ended
<1>5. \A t \in Tasks :
        /\ HasTask(req[q], t) => task'[t] = "blocked"
        /\ ~ HasTask(req[q], t) => task'[t] = task[t] /\ selfTest'[t] = selfTest[t]
  BY <1>1
  DEF RecoverCommit, Flushed, LoadedTasks, HasTask, Sound, Fresh
<1>6. \A r \in Runs : Loaded(req[q], r) => HasTask(req[q], run[r].task)
  BY <1>1 DEF Sound, ItsTask
<1>7. \A t \in Tasks : HasTask(req[q], t) =>
        \E r \in Runs : Loaded(req[q], r) /\ run[r].task = t
  BY <1>1 DEF Sound, ItsTask
<1>8. RowsInv'
  <2>1. ActiveOnce'
    BY <1>3, <1>4 DEF SerialInv, RowsInv, ActiveOnce
  <2>2. TaskFollowsRuns'
    <3> SUFFICES ASSUME NEW t \in Tasks
                 PROVE  task'[t] = "running" <=>
                          \E y \in Runs : /\ run'[y].task = t
                                          /\ run'[y].status = "running"
      BY DEF TaskFollowsRuns, RunsOf
    <3>1. CASE HasTask(req[q], t)
      <4>1. PICK r \in Runs : Loaded(req[q], r) /\ run[r].task = t
        BY <1>7, <3>1
      <4>2. \A y \in Runs \ {r} : run[y].task = t => run[y].status \notin ActiveStatus
        BY <1>2, <4>1 DEF SerialInv, RowsInv, ActiveOnce
      <4>3. \A y \in Runs : run'[y].task = t => run'[y].status # "running"
        BY <1>3, <1>4, <4>1, <4>2
      <4> QED
        BY <1>5, <3>1, <4>3
    <3>2. CASE ~ HasTask(req[q], t)
      <4>1. \A y \in Runs : run[y].task = t \/ run'[y].task = t => run'[y] = run[y]
        BY <1>3, <1>4, <1>6, <3>2
      <4> QED
        BY <1>5, <3>2, <4>1 DEF SerialInv, RowsInv, TaskFollowsRuns, RunsOf
    <3> QED
      BY <3>1, <3>2
  <2>3. CompletedIsEarned'
    <3> SUFFICES ASSUME NEW t \in Tasks, task'[t] = "completed"
                 PROVE  /\ selfTest'[t] = "passed"
                        /\ \E y \in Runs : /\ run'[y].task = t
                                           /\ run'[y].status = "succeeded"
                                           /\ run'[y].ev.result = "passed"
      BY DEF CompletedIsEarned, RunsOf
    <3>1. ~ HasTask(req[q], t) /\ task[t] = "completed" /\ selfTest'[t] = selfTest[t]
      BY <1>5
    <3>2. PICK y \in Runs : /\ run[y].task = t
                            /\ run[y].status = "succeeded"
                            /\ run[y].ev.result = "passed"
      BY <3>1 DEF SerialInv, RowsInv, CompletedIsEarned, RunsOf
    <3>3. run'[y] = run[y]
      BY <1>2, <1>4, <3>2
    <3>4. selfTest[t] = "passed"
      BY <3>1 DEF SerialInv, RowsInv, CompletedIsEarned
    <3> QED
      BY <3>1, <3>2, <3>3, <3>4
  <2>4. RunningHasLease'
    BY <1>3, <1>4 DEF SerialInv, RowsInv, RunningHasLease
  <2>5. \A y \in Runs : run'[y].status # "none" => run'[y].task \in Tasks
    BY <1>2, <1>3, <1>4 DEF SerialInv, RowsInv
  <2> QED
    BY <2>1, <2>2, <2>3, <2>4, <2>5 DEF RowsInv
<1>9. RequestsInv'
  <2>1. Writes(q)
    BY <1>1, <1>3, <1>4 DEF Writes, Writers, FromRunning
  <2>2. Sound(Idle, run', task') /\ ~ AtWork(Idle)
    BY IdleSound DEF AtWork, Idle
  <2>3. req' = [req EXCEPT ![q] = Idle]
    BY DEF RecoverCommit, EndRequest
  <2> QED
    BY <1>1, <2>1, <2>2, <2>3, WriteStep DEF SerialInv
<1>10. Mapped
  <2> DEFINE old == [y \in Runs |-> run[y].status]
             now == [y \in Runs |-> run'[y].status]
             rs == LoadedRuns(q)
  <2>1. now = [y \in Runs |-> IF y \in rs THEN "failed" ELSE old[y]]
    BY <1>2, <1>3, <1>4
  <2>2. [y \in Runs |-> run'[y].task] = [y \in Runs |-> run[y].task]
    BY <1>3, <1>4
  <2>3. rs \subseteq Lifecycle!Running
    BY <1>2 DEF Lifecycle!Running, LoadedRuns
  <2> HIDE DEF rs
  <2>4. Lifecycle!Finish(rs, "failed")
    BY <2>1, <2>2, <2>3 DEF Lifecycle!Finish
  <2>5. rs \in SUBSET Runs
    BY DEF rs, LoadedRuns
  <2> QED
    BY <2>4, <2>5 DEF Mapped, Lifecycle!Next
<1> QED
  BY <1>8, <1>9, <1>10 DEF SerialInv

\* A lease runs out while its run is running.
LEMMA LeaseStep ==
  ASSUME TypeOK, SerialInv, NEW r \in Runs, LeaseExpires(r)
  PROVE  SerialInv' /\ Mapped
<1> DEFINE row == [run[r] EXCEPT !.ev.lease = "expired"]
<1>1. run[r] \in Row /\ run[r].ev \in Evidence
  BY RequestFacts, RowFacts DEF TypeOK
<1>2. /\ row.status = run[r].status /\ row.task = run[r].task
      /\ row.kind = run[r].kind
      /\ row.ev.owner = run[r].ev.owner /\ row.ev.lease = "expired"
  BY <1>1 DEF Row, Evidence
<1>3. run' = [run EXCEPT ![r] = row] /\ UNCHANGED <<task, selfTest, req>>
  BY DEF LeaseExpires, TypeOK
<1> HIDE DEF row
<1>4. run'[r] = row /\ \A y \in Runs \ {r} : run'[y] = run[y]
  BY <1>3 DEF TypeOK
<1>5. \A y \in Runs : /\ run'[y].status = run[y].status
                      /\ run'[y].task = run[y].task
                      /\ run'[y].kind = run[y].kind
  BY <1>2, <1>4
<1>6. RowsInv'
  <2>1. \A y \in Runs :
          /\ run[y].status = "succeeded" => run'[y].ev = run[y].ev
          /\ run[y].status = "running" /\ run[y].kind = "symphony" =>
               run'[y].ev.owner # NoWorker /\ run'[y].ev.lease # "none"
    BY <1>2, <1>4 DEF LeaseExpires, SerialInv, RowsInv, RunningHasLease
  <2> QED
    BY <1>3, <1>5, <2>1, EvidenceStep DEF SerialInv
<1>7. RequestsInv'
  <2>1. \A p \in Requests : Sound(req'[p], run', task')
    BY <1>3, <1>5, SoundKept DEF SerialInv, RequestsInv
  <2> QED
    BY <1>3, <2>1 DEF SerialInv, RequestsInv, OneAtATime, ExecutesAlone
<1> QED
  BY <1>5, <1>6, <1>7, MappedStutter DEF SerialInv

-----------------------------------------------------------------------------
(* Every step, and the theorems. *)

\* With requests one at a time every step keeps the invariant and is a step
\* of RunLifecycle or a stutter.
LEMMA SerialStep ==
  ASSUME TypeOK, ApprovalInv, SerialInv, Serialized, [Next]_vars
  PROVE  SerialInv' /\ Mapped
<1>1. ASSUME NEW q \in Requests, CreateStep(q)
      PROVE  SerialInv' /\ Mapped
  BY <1>1, CreateCallStep, RetryStep, CreateExistingStep, CreateStepSerial
  DEF CreateStep
<1>2. ASSUME NEW q \in Requests, DispatchStep(q)
      PROVE  SerialInv' /\ Mapped
  BY <1>2, CallStep, DispatchCommitStep, RefreshStep, EvidenceCommitStep,
     OutcomeCommitStep DEF DispatchStep
<1>3. ASSUME NEW q \in Requests, ControlStep(q)
      PROVE  SerialInv' /\ Mapped
  BY <1>3, CallStep, ControlCommitStep DEF ControlStep
<1>4. ASSUME NEW q \in Requests, BridgeStep(q)
      PROVE  SerialInv' /\ Mapped
  BY <1>4, CallStep, ClaimCommitStep, EvidenceCommitStep, OutcomeCommitStep,
     RecoverCallStep, RecoverCommitStep DEF BridgeStep
<1>5. ASSUME NEW q \in Requests, ApprovalStep(q)
      PROVE  SerialInv' /\ Mapped
  BY <1>5, ApprovalCallStep, ApprovalCommitStep DEF ApprovalStep
<1>6. ASSUME NEW q \in Requests, Abandon(q)
      PROVE  SerialInv' /\ Mapped
  BY <1>6, QuitStep DEF Abandon, db
<1>7. ASSUME NEW r \in Runs, LeaseExpires(r)
      PROVE  SerialInv' /\ Mapped
  BY <1>7, LeaseStep
<1>8. ASSUME UNCHANGED <<run, task, selfTest, req>>
      PROVE  SerialInv' /\ Mapped
  <2>1. RowsInv'
    BY <1>8 DEF SerialInv, RowsInv, ActiveOnce, TaskFollowsRuns,
                CompletedIsEarned, RunningHasLease, RunsOf
  <2>2. RequestsInv'
    BY <1>8 DEF SerialInv, RequestsInv, OneAtATime, ExecutesAlone
  <2> QED
    BY <1>8, <2>1, <2>2, MappedStutter DEF SerialInv
<1>9. ASSUME NEW w \in Workers, NEW r \in Runs, WorkerStops(w, r)
      PROVE  UNCHANGED <<run, task, selfTest, req>>
  BY <1>9 DEF WorkerStops, db
<1>10. UNCHANGED vars => UNCHANGED <<run, task, selfTest, req>>
  BY DEF vars
<1> QED
  BY <1>1, <1>2, <1>3, <1>4, <1>5, <1>6, <1>7, <1>8, <1>9, <1>10
  DEF Next, Environment

\* At the start no run exists and no request is served.
LEMMA SerialInit ==
  ASSUME Init
  PROVE  SerialInv
<1>1. RowsInv
  BY DEF Init, RowsInv, ActiveOnce, TaskFollowsRuns, CompletedIsEarned,
         RunningHasLease, RunsOf, NoRow
<1>2. RequestsInv
  BY IdleSound DEF Init, RequestsInv, OneAtATime, ExecutesAlone, Quiet, AtWork, Idle
<1> QED
  BY <1>1, <1>2 DEF SerialInv

\* All that the theorems below need of a state and of a step.
LEMMA SerialHolds ==
  ASSUME Serialized
  PROVE  Spec => []SerialInv /\ [][Mapped]_vars
<1>1. Init => SerialInv
  BY SerialInit
<1>2. TypeOK /\ ApprovalInv /\ SerialInv /\ [Next]_vars => SerialInv' /\ Mapped
  BY SerialStep
<1> QED
  BY <1>1, <1>2, InvariantsHold, PTL DEF Spec

\* With requests one at a time the task row says "running" exactly while one
\* of its runs is: no mixture of dispatches, claims, control calls,
\* recoveries, retries, approvals and abandoned requests separates them.
THEOREM TasksFollowRuns ==
  ASSUME Serialized
  PROVE  Spec => []TaskFollowsRuns
<1>1. SerialInv => TaskFollowsRuns
  BY DEF SerialInv, RowsInv
<1> QED
  BY <1>1, SerialHolds, PTL

\* With requests one at a time a completed task has a run that succeeded with
\* validated evidence, and its latest self-test gate has passed.
THEOREM CompletionIsEarned ==
  ASSUME Serialized
  PROVE  Spec => []CompletedIsEarned
<1>1. SerialInv => CompletedIsEarned
  BY DEF SerialInv, RowsInv
<1> QED
  BY <1>1, SerialHolds, PTL

\* With requests one at a time a running symphony run carries its owner and
\* its lease, so that its worker can end it and a recovery can find it.
THEOREM RunningRunsHaveLease ==
  ASSUME Serialized
  PROVE  Spec => []RunningHasLease
<1>1. SerialInv => RunningHasLease
  BY DEF SerialInv, RowsInv
<1> QED
  BY <1>1, SerialHolds, PTL

\* With requests one at a time the queue implements RunLifecycle, a row
\* mapped to its status and its task: every load is a stutter and every
\* commit is one step of it.
THEOREM QueueImplementsLifecycle ==
  ASSUME Serialized
  PROVE  Spec => ImplementsLifecycle
<1>1. Init => Lifecycle!Init
  BY DEF Init, Lifecycle!Init, NoRow
<1>2. [Mapped]_vars => [Lifecycle!Next]_(Lifecycle!vars)
  BY MappedStutter DEF vars, Mapped
<1> QED
  BY <1>1, <1>2, SerialHolds, PTL DEF Spec, ImplementsLifecycle, Lifecycle!Spec

\* With requests one at a time a task never has two queued, running or paused
\* runs.
THEOREM OneActiveRunPerTask ==
  ASSUME Serialized
  PROVE  Spec => []OneActiveRun
<1>1. SerialInv => OneActiveRun
  BY DEF SerialInv, RowsInv, ActiveOnce, OneActiveRun, Lifecycle!OneActiveRun,
         Lifecycle!ActiveStatus
<1> QED
  BY <1>1, SerialHolds, PTL

\* A step of RunLifecycle changes the running runs by one that starts below
\* the limit, or takes some away.
LEMMA RunningStep ==
  ASSUME Mapped
  PROVE  \/ RunningIn(run') \subseteq RunningIn(run)
         \/ /\ Cardinality(RunningIn(run)) < MaxConcurrency
            /\ \E r \in Runs : RunningIn(run') \subseteq RunningIn(run) \cup {r}
<1> DEFINE old == [y \in Runs |-> run[y].status]
           now == [y \in Runs |-> run'[y].status]
           Goal == \/ RunningIn(run') \subseteq RunningIn(run)
                   \/ /\ Cardinality(RunningIn(run)) < MaxConcurrency
                      /\ \E r \in Runs :
                            RunningIn(run') \subseteq RunningIn(run) \cup {r}
<1>0. ASSUME \A y \in Runs : now[y] = "running" => old[y] = "running"
      PROVE  RunningIn(run') \subseteq RunningIn(run)
  BY <1>0 DEF RunningIn
<1>1. ASSUME NEW r \in Runs, NEW t \in Tasks,
             Lifecycle!Enqueue(r, t) \/ Lifecycle!Block(r, t)
      PROVE  Goal
  <2>1. now = [old EXCEPT ![r] = "queued"] \/ now = [old EXCEPT ![r] = "blocked"]
    BY <1>1 DEF Lifecycle!Enqueue, Lifecycle!Block
  <2> QED
    BY <1>0, <2>1
<1>2. ASSUME NEW r \in Runs, Lifecycle!Start(r)
      PROVE  Goal
  <2>1. now = [old EXCEPT ![r] = "running"]
    BY <1>2 DEF Lifecycle!Start
  <2>2. \A y \in Runs : now[y] = "running" => old[y] = "running" \/ y = r
    BY <2>1
  <2>3. RunningIn(run') \subseteq RunningIn(run) \cup {r}
    BY <2>2 DEF RunningIn
  <2>4. Lifecycle!Running = RunningIn(run)
    BY DEF Lifecycle!Running, RunningIn
  <2>5. Lifecycle!Cardinality(RunningIn(run)) = Cardinality(RunningIn(run))
    BY DEF Lifecycle!Cardinality, Cardinality
  <2>6. Cardinality(RunningIn(run)) < MaxConcurrency
    BY <1>2, <2>4, <2>5 DEF Lifecycle!Start
  <2> QED
    BY <2>3, <2>6
<1>3. ASSUME NEW r \in Runs,
             Lifecycle!Pause(r) \/ Lifecycle!Resume(r) \/ Lifecycle!Cancel(r)
      PROVE  Goal
  <2>1. PICK s \in {"paused", "queued", "cancelled"} : now = [old EXCEPT ![r] = s]
    BY <1>3 DEF Lifecycle!Pause, Lifecycle!Resume, Lifecycle!Cancel
  <2> QED
    BY <1>0, <2>1
<1>4. ASSUME NEW rs \in SUBSET Runs, NEW outcome \in {"failed", "succeeded"},
             Lifecycle!Finish(rs, outcome)
      PROVE  Goal
  <2>1. now = [y \in Runs |-> IF y \in rs THEN outcome ELSE old[y]]
    BY <1>4 DEF Lifecycle!Finish
  <2> QED
    BY <1>0, <2>1
<1>5. ASSUME UNCHANGED Lifecycle!vars
      PROVE  Goal
  <2>1. now = old
    BY <1>5 DEF Lifecycle!vars
  <2> QED
    BY <1>0, <2>1
<1> QED
  BY <1>1, <1>2, <1>3, <1>4, <1>5 DEF Mapped, Lifecycle!Next

\* With requests one at a time the running runs never exceed the limit: the
\* count before a dispatch and before a claim is enough.
THEOREM RunningWithinLimit ==
  ASSUME Serialized
  PROVE  Spec => []WithinCapacity
<1> USE ExecutionAssumption DEF ExecutionAssumption
<1> DEFINE Within == Cardinality(RunningIn(run)) <= MaxConcurrency
<1>1. WithinCapacity <=> Within
  <2>1. Lifecycle!Running = RunningIn(run)
    BY DEF Lifecycle!Running, RunningIn
  <2>2. Lifecycle!Cardinality(RunningIn(run)) = Cardinality(RunningIn(run))
    BY DEF Lifecycle!Cardinality, Cardinality
  <2> QED
    BY <2>1, <2>2 DEF WithinCapacity, Lifecycle!WithinCapacity
<1>2. Init => Within
  <2> SUFFICES ASSUME Init PROVE Within
    OBVIOUS
  <2>1. RunningIn(run) = {}
    BY DEF Init, RunningIn, NoRow
  <2> QED
    BY <2>1, FS_EmptySet
<1>3. Within /\ Mapped => Within'
  <2> SUFFICES ASSUME Within, Mapped PROVE Within'
    OBVIOUS
  <2>1. /\ IsFiniteSet(RunningIn(run)) /\ IsFiniteSet(RunningIn(run'))
        /\ Cardinality(RunningIn(run)) \in Nat
        /\ Cardinality(RunningIn(run')) \in Nat
    <3>1. IsFiniteSet(Runs)
      BY FS_Interval DEF Runs
    <3> QED
      BY <3>1, FS_Subset, FS_CardinalityType DEF RunningIn
  <2>2. CASE RunningIn(run') \subseteq RunningIn(run)
    <3>1. Cardinality(RunningIn(run')) <= Cardinality(RunningIn(run))
      BY <2>1, <2>2, FS_Subset
    <3> QED
      BY <2>1, <3>1
  <2>3. ASSUME NEW r \in Runs, Cardinality(RunningIn(run)) < MaxConcurrency,
               RunningIn(run') \subseteq RunningIn(run) \cup {r}
        PROVE  Within'
    <3>1. /\ IsFiniteSet(RunningIn(run) \cup {r})
          /\ Cardinality(RunningIn(run) \cup {r})
               \in {Cardinality(RunningIn(run)), Cardinality(RunningIn(run)) + 1}
      BY <2>1, FS_AddElement
    <3>2. Cardinality(RunningIn(run')) <= Cardinality(RunningIn(run) \cup {r})
      BY <2>3, <3>1, FS_Subset
    <3> QED
      BY <2>1, <2>3, <3>1, <3>2
  <2> QED
    BY <2>2, <2>3, RunningStep
<1>4. [Mapped]_vars => Mapped
  BY MappedStutter DEF vars
<1> HIDE DEF Within
<1> QED
  BY <1>1, <1>2, <1>3, <1>4, SerialHolds, PTL DEF Spec
=============================================================================
