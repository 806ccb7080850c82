------------------------- MODULE DeliveryGuideProofs -------------------------
(***************************************************************************)
(* Proofs about DeliveryGuide, for every number of troubles: calls that    *)
(* nobody suggested and results that are bad, in any order.                *)
(***************************************************************************)
EXTENDS DeliveryGuide, TLAPS

-----------------------------------------------------------------------------
(* That a suggested call is accepted is not inductive.  The guide reads the *)
(* plan, the latest run, the review and the deployment; the handlers ask    *)
(* the task, the active run, the approvals and the setting.  GuideInv is    *)
(* what relates the two.                                                    *)

\* The run updated last is the active one, unless it has ended.
LatestIsActive ==
  run.latest \in {"queued", "paused", "running"} => run.active = run.latest

\* A task is running for an active run only.
TaskRunsForRun == task = "running" => run.active = "running"

\* A spec of a high-risk demand is approved by a human only.
SpecNeedsHuman == setting.high /\ plan.spec = "approved" => approved

\* After a success nothing is active and the task is completed.
SuccessCompletes ==
  run.latest = "succeeded" =>
    run.active = "none" /\ run.good /\ task = "completed"

\* A codex run works in a worktree with a branch of its own.
CodexHasBranch == run.good /\ setting.executor = "codex" => run.branch

\* Only a provider makes a deployment wait or fail.
WaitIsRemote == deploy.status \in {"pending", "deaf", "failed"} => setting.remote

GuideInv ==
  /\ TypeOK
  /\ LatestIsActive
  /\ TaskRunsForRun
  /\ SpecNeedsHuman
  /\ SuccessCompletes
  /\ CodexHasBranch
  /\ WaitIsRemote

-----------------------------------------------------------------------------
(* Lemmas. *)

\* Whatever a call is and however it ends: the troubles stay within the bound.
LEMMA TroublesBounded ==
  ASSUME troubles \in 0 .. MaxTroubles, NEW id, NEW bad, Serves(id, bad)
  PROVE  troubles' \in 0 .. MaxTroubles
  BY DEF Serves

\* The initial states satisfy the invariant.
LEMMA InitGuide == Init => GuideInv
<1> SUFFICES ASSUME Init PROVE GuideInv
  OBVIOUS
<1>1. plan \in Plan /\ run \in Run /\ mr \in MergeRequest /\ deploy \in Deploy
  BY DEF Init, Plan, Run, MergeRequest, Deploy
<1>2. troubles \in 0 .. MaxTroubles
  BY GuideAssumption DEF Init, GuideAssumption
<1>3. TypeOK
  BY <1>1, <1>2 DEF Init, TypeOK
<1> QED
  BY <1>3 DEF Init, GuideInv, LatestIsActive, TaskRunsForRun, SpecNeedsHuman,
              SuccessCompletes, CodexHasBranch, WaitIsRemote

\* Planning changes the plan, the approvals and the task, and a coding task
\* that is running or completed stays so.
LEMMA PlanningGuide == ASSUME GuideInv, Planning PROVE GuideInv'
<1> USE DEF GuideInv, TypeOK, LatestIsActive, TaskRunsForRun, SpecNeedsHuman,
            SuccessCompletes, CodexHasBranch, WaitIsRemote
<1>1. ASSUME NEW automatic \in BOOLEAN, GenerateSpec(automatic) PROVE GuideInv'
  <2>1. troubles' \in 0 .. MaxTroubles
    BY <1>1, TroublesBounded DEF GenerateSpec
  <2> QED BY <1>1, <2>1 DEF GenerateSpec, Plan
<1>2. ASSUME NEW found \in {"insufficient", "ready"}, NEW force \in BOOLEAN,
             CollectRepoContext(force, found)
      PROVE  GuideInv'
  <2>1. troubles' \in 0 .. MaxTroubles
    BY <1>2, TroublesBounded DEF CollectRepoContext
  <2> QED BY <1>2, <2>1 DEF CollectRepoContext, Plan
<1>3. ASSUME NEW found \in {"manual_review", "ready"}, AnalyzeImpact(found)
      PROVE  GuideInv'
  <2>1. troubles' \in 0 .. MaxTroubles
    BY <1>3, TroublesBounded DEF AnalyzeImpact
  <2> QED BY <1>3, <2>1 DEF AnalyzeImpact, Plan
<1>4. CASE CreateCodingTask
  <2>1. troubles' \in 0 .. MaxTroubles
    BY <1>4, TroublesBounded DEF CreateCodingTask
  <2> QED BY <1>4, <2>1 DEF CreateCodingTask
<1>5. CASE Approve
  <2>1. troubles' \in 0 .. MaxTroubles
    BY <1>5, TroublesBounded DEF Approve
  <2> QED BY <1>5, <2>1 DEF Approve, Plan
<1>6. CASE Reject
  <2>1. troubles' \in 0 .. MaxTroubles
    BY <1>6, TroublesBounded DEF Reject
  <2> QED BY <1>6, <2>1 DEF Reject
<1> QED BY <1>1, <1>2, <1>3, <1>4, <1>5, <1>6 DEF Planning

-----------------------------------------------------------------------------
(* Runs. *)

\* What a run is made into when it is created for a task of a status, and the
\* status the task then has.
LEMMA RunAfterCreateLemma ==
  ASSUME GuideInv, NEW status \in {"draft", "ready", "running", "blocked",
                                   "completed"},
         NEW dispatches \in BOOLEAN, NEW repairs \in BOOLEAN,
         NEW new, new = RunAfterCreate(status, dispatches, repairs)
  PROVE  /\ new \in Run
         /\ new.latest \in {"queued", "paused", "running"} =>
               new.active = new.latest
         /\ new.latest # "succeeded"
         /\ new.good = run.good /\ new.branch = run.branch
         /\ new.active = "running" => run.active = "running" \/ dispatches
<1> USE DEF GuideInv, TypeOK, LatestIsActive, SuccessCompletes, Run
<1>1. CASE status # "ready" \/ (setting.high /\ ~approved)
  <2>1. new = [run EXCEPT !.latest = "blocked", !.refused = TRUE]
    BY <1>1 DEF RunAfterCreate
  <2> QED BY <2>1
<1>2. CASE ~(status # "ready" \/ (setting.high /\ ~approved))
           /\ run.active \in {"paused", "running"}
  <2>1. new = run
    BY <1>2 DEF RunAfterCreate
  <2> QED BY <1>2, <2>1
<1> DEFINE queued == IF run.active = "queued" THEN run
                     ELSE [Active("queued") EXCEPT !.refused = FALSE]
<1>3. CASE ~(status # "ready" \/ (setting.high /\ ~approved))
           /\ run.active \notin {"paused", "running"}
  <2>1. new = IF dispatches /\ setting.executor # "symphony"
              THEN [queued EXCEPT !.active = "running", !.latest = "running",
                                  !.repairs = repairs]
              ELSE queued
    BY <1>3 DEF RunAfterCreate
  <2>2. /\ queued \in Run /\ queued.active = "queued"
        /\ queued.good = run.good /\ queued.branch = run.branch
    BY DEF Active
  <2>3. run.active # "queued" => queued.latest = "queued"
    BY DEF Active
  <2>4. run.active = "queued" => queued = run
    OBVIOUS
  <2> HIDE DEF queued
  <2> QED BY <2>1, <2>2, <2>3, <2>4, <1>3
<1> QED BY <1>1, <1>2, <1>3

\* Creating a run, or executing a task again, for whatever it was made ready.
LEMMA CreateGuide ==
  ASSUME GuideInv,
         \/ CreateExecutionRun
         \/ Retry \/ AutoRepair \/ RepairMergeRequest
  PROVE  GuideInv'
<1>0. ASSUME NEW status \in {"draft", "ready", "running", "blocked", "completed"},
             NEW dispatches \in BOOLEAN, NEW repairs \in BOOLEAN,
             run' = RunAfterCreate(status, dispatches, repairs)
      PROVE  /\ run' \in Run
             /\ run'.latest \in {"queued", "paused", "running"} =>
                   run'.active = run'.latest
             /\ run'.latest # "succeeded"
             /\ run'.good = run.good /\ run'.branch = run.branch
             /\ run'.active = "running" => run.active = "running" \/ dispatches
  BY <1>0, RunAfterCreateLemma
<1> USE DEF GuideInv, TypeOK, LatestIsActive, TaskRunsForRun, SpecNeedsHuman,
            SuccessCompletes, CodexHasBranch, WaitIsRemote
<1>1. troubles' \in 0 .. MaxTroubles
  BY TroublesBounded DEF CreateExecutionRun, Retry, AutoRepair,
                         RepairMergeRequest
<1>2. CASE CreateExecutionRun
  <2>1. /\ run' = RunAfterCreate(task, FALSE, FALSE)
        /\ task \in {"draft", "ready", "running", "blocked", "completed"}
        /\ UNCHANGED <<setting, verdict, approved, plan, task, mr, deploy>>
    BY <1>2 DEF CreateExecutionRun
  <2>2. /\ run' \in Run
        /\ run'.latest \in {"queued", "paused", "running"} =>
              run'.active = run'.latest
        /\ run'.latest # "succeeded"
        /\ run'.good = run.good /\ run'.branch = run.branch
        /\ run'.active = "running" => run.active = "running"
    BY <1>0, <2>1
  <2>3. run.active = "running" => run'.active = "running"
    BY <2>1 DEF RunAfterCreate
  <2> QED BY <1>1, <2>1, <2>2, <2>3
<1>3. ASSUME NEW repairs \in BOOLEAN, Executable, Executes(repairs)
      PROVE  GuideInv'
  <2>1. /\ run' = RunAfterCreate("ready", TRUE, repairs)
        /\ task' = IF run'.active = "running" THEN "running" ELSE "ready"
        /\ UNCHANGED <<setting, verdict, approved, plan, mr, deploy>>
    BY <1>3 DEF Executes, TaskAfterCreate
  <2>2. /\ run' \in Run
        /\ run'.latest \in {"queued", "paused", "running"} =>
              run'.active = run'.latest
        /\ run'.latest # "succeeded"
        /\ run'.good = run.good /\ run'.branch = run.branch
    BY <1>0, <2>1
  <2> QED BY <1>1, <2>1, <2>2
<1> QED
  BY <1>2, <1>3 DEF Retry, AutoRepair, RepairMergeRequest, RetryAccepted,
                    AutoRepairAccepted, ReviewRepairAccepted

\* The other calls about the active run.
LEMMA ActiveGuide ==
  ASSUME GuideInv, Dispatch \/ Pause \/ Resume \/ Cancel
  PROVE  GuideInv'
<1> USE DEF GuideInv, TypeOK, LatestIsActive, TaskRunsForRun, SpecNeedsHuman,
            SuccessCompletes, CodexHasBranch, WaitIsRemote
<1>1. troubles' \in 0 .. MaxTroubles
  BY TroublesBounded DEF Dispatch, Pause, Resume, Cancel
<1>2. ASSUME NEW status \in {"queued", "paused", "running"}
      PROVE  /\ Active(status) \in Run
             /\ Active(status).active = status
             /\ Active(status).latest = status
             /\ Active(status).good = run.good
             /\ Active(status).branch = run.branch
  BY DEF Active, Run
<1>3. CASE Dispatch
  <2>1. /\ run' = Active("queued") \/ run' = Active("running")
        /\ task' = IF run'.active = "running" THEN "running" ELSE task
        /\ run.active = "queued"
        /\ UNCHANGED <<setting, verdict, approved, plan, mr, deploy>>
    BY <1>3 DEF Dispatch, TaskAfterCreate
  <2>2. /\ run' \in Run /\ run'.active = run'.latest /\ run'.latest # "succeeded"
        /\ run'.good = run.good /\ run'.branch = run.branch
    BY <2>1, <1>2
  <2>3. task # "running"
    BY <2>1
  <2> QED BY <1>1, <2>1, <2>2, <2>3
<1>4. CASE Pause
  <2>1. run' = Active("paused") /\ task' = "ready"
    BY <1>4 DEF Pause
  <2> QED BY <1>1, <1>2, <1>4, <2>1 DEF Pause
<1>5. CASE Resume
  <2>1. run' = Active("queued") /\ task' = "ready"
    BY <1>5 DEF Resume
  <2> QED BY <1>1, <1>2, <1>5, <2>1 DEF Resume
<1>6. CASE Cancel
  <2>1. /\ run' \in Run /\ run'.active = "none" /\ run'.latest = "cancelled"
        /\ run'.good = run.good /\ run'.branch = run.branch
        /\ task' \in {"blocked", "ready"}
    BY <1>6 DEF Cancel, Run
  <2> QED BY <1>1, <1>6, <2>1 DEF Cancel
<1> QED BY <1>3, <1>4, <1>5, <1>6

\* A worker claims the run, and the run ends.
LEMMA ExecutorGuide == ASSUME GuideInv, Executor PROVE GuideInv'
<1> USE DEF GuideInv, TypeOK, LatestIsActive, TaskRunsForRun, SpecNeedsHuman,
            SuccessCompletes, CodexHasBranch, WaitIsRemote
<1>1. CASE Claimed
  <2>1. /\ run' \in Run /\ run'.active = "running" /\ run'.latest = "running"
        /\ run'.good = run.good /\ run'.branch = run.branch
    BY <1>1 DEF Claimed, Active, Run
  <2> QED BY <1>1, <2>1 DEF Claimed
<1>2. ASSUME NEW outcome \in {"succeeded", "failed", "unfit"},
             NEW pushed \in BOOLEAN, NEW branch \in BOOLEAN,
             RunEnds(outcome, pushed, branch)
      PROVE  GuideInv'
  <2>1. troubles' \in 0 .. MaxTroubles
    BY <1>2 DEF RunEnds
  <2>2. /\ run' \in Run /\ run'.active = "none" /\ run'.latest = outcome
        /\ outcome = "succeeded" => run'.good
    BY <1>2 DEF RunEnds, Run
  <2>3. CodexHasBranch'
    <3>1. CASE outcome = "succeeded"
      <4>1. run'.branch = branch /\ setting' = setting
        BY <1>2, <3>1 DEF RunEnds, Run
      <4>2. setting.executor = "codex" => branch
        BY <1>2 DEF RunEnds, HasBranch
      <4> QED BY <4>1, <4>2
    <3>2. CASE outcome # "succeeded"
      <4>1. /\ run'.good = run.good /\ run'.branch = run.branch
            /\ setting' = setting
        BY <1>2, <3>2 DEF RunEnds, Run
      <4> QED BY <4>1
    <3> QED BY <3>1, <3>2
  <2>4. mr' \in MergeRequest
    <3>1. CASE outcome # "succeeded"
      BY <3>1, <1>2 DEF RunEnds
    <3>2. CASE outcome = "succeeded"
      BY <3>2, <1>2 DEF RunEnds, MergeRequest
    <3> QED BY <3>1, <3>2
  <2>5. /\ task' = IF outcome = "succeeded" THEN "completed" ELSE "blocked"
        /\ UNCHANGED <<setting, verdict, approved, plan, deploy>>
    BY <1>2 DEF RunEnds
  <2> QED BY <2>1, <2>2, <2>3, <2>4, <2>5
<1> QED BY <1>1, <1>2 DEF Executor

-----------------------------------------------------------------------------
(* Merge requests and deployments. *)

\* Reviews, merge requests and what the forge does with them.
LEMMA ReviewGuide == ASSUME GuideInv, Review \/ ForgeCloses PROVE GuideInv'
<1> USE DEF GuideInv, TypeOK, LatestIsActive, TaskRunsForRun, SpecNeedsHuman,
            SuccessCompletes, CodexHasBranch, WaitIsRemote
<1>1. CASE CreateMergeRequest
  <2>1. troubles' \in 0 .. MaxTroubles
    BY <1>1, TroublesBounded DEF CreateMergeRequest
  <2>2. /\ mr' \in MergeRequest /\ deploy' \in Deploy
        /\ deploy'.status = "none" \/ deploy' = deploy
    <3>1. CASE mr' = mr /\ deploy' = deploy
      BY <3>1
    <3>2. CASE /\ mr' = [review |-> "pending", shut |-> FALSE, current |-> TRUE]
               /\ deploy' = [status |-> "none", verified |-> "none"]
      BY <3>2 DEF MergeRequest, Deploy
    <3> QED BY <1>1, <3>1, <3>2 DEF CreateMergeRequest
  <2> QED BY <1>1, <2>1, <2>2 DEF CreateMergeRequest
<1>2. ASSUME NEW review \in {"passed", "blocking", "unexplained"},
             RecordReview(review)
      PROVE  GuideInv'
  <2>1. troubles' \in 0 .. MaxTroubles
    BY <1>2, TroublesBounded DEF RecordReview
  <2>2. mr' \in MergeRequest
    BY <1>2 DEF RecordReview, MergeRequest
  <2> QED BY <1>2, <2>1, <2>2 DEF RecordReview
<1>3. ASSUME NEW review \in {"passed", "blocking"}, SyncReview(review)
      PROVE  GuideInv'
  <2>1. troubles' \in 0 .. MaxTroubles
    BY <1>3, TroublesBounded DEF SyncReview
  <2>2. mr' \in MergeRequest
    <3>1. CASE mr.shut
      BY <3>1, <1>3 DEF SyncReview, MergeRequest
    <3>2. CASE ~mr.shut
      BY <3>2, <1>3 DEF SyncReview, MergeRequest
    <3> QED BY <3>1, <3>2
  <2> QED BY <1>3, <2>1, <2>2 DEF SyncReview
<1>4. CASE ForgeCloses
  <2>1. troubles' \in 0 .. MaxTroubles
    BY <1>4, TroublesBounded DEF ForgeCloses
  <2>2. mr' \in MergeRequest
    BY <1>4 DEF ForgeCloses, MergeRequest
  <2> QED BY <1>4, <2>1, <2>2 DEF ForgeCloses
<1> QED BY <1>1, <1>2, <1>3, <1>4 DEF Review

\* Deployments and verifications touch the deployment only, and a local one
\* is deployed at once.
LEMMA DeploymentGuide == ASSUME GuideInv, Deployment PROVE GuideInv'
<1> USE DEF GuideInv, TypeOK, LatestIsActive, TaskRunsForRun, SpecNeedsHuman,
            SuccessCompletes, CodexHasBranch, WaitIsRemote
<1>1. troubles' \in 0 .. MaxTroubles
  BY TroublesBounded
     DEF Deployment, CreateDeployment, Redeploy, SyncDeployment,
         RecordVerification
<1>2. UNCHANGED <<setting, verdict, approved, plan, task, run, mr>>
  BY DEF Deployment, CreateDeployment, Redeploy, Posted, SyncDeployment,
         RecordVerification
<1>3. deploy' \in Deploy /\ WaitIsRemote'
  <2>1. ASSUME NEW status \in {"pending", "deaf", "deployed", "failed"},
               Posted(status)
        PROVE  deploy' \in Deploy /\ WaitIsRemote'
    BY <2>1, <1>2 DEF Posted, Deploy
  <2>2. ASSUME NEW status \in {"deployed", "failed"}, SyncDeployment(status)
        PROVE  deploy' \in Deploy /\ WaitIsRemote'
    BY <2>2, <1>2 DEF SyncDeployment, Deploy
  <2>3. ASSUME NEW result \in {"passed", "failed"}, RecordVerification(result)
        PROVE  deploy' \in Deploy /\ WaitIsRemote'
    BY <2>3, <1>2 DEF RecordVerification, Deploy
  <2> QED BY <2>1, <2>2, <2>3 DEF Deployment, CreateDeployment, Redeploy
<1> QED BY <1>1, <1>2, <1>3

-----------------------------------------------------------------------------

LEMMA NextGuide == ASSUME GuideInv, [Next]_vars PROVE GuideInv'
<1>1. CASE Planning
  BY <1>1, PlanningGuide
<1>2. CASE Execution
  BY <1>2, CreateGuide, ActiveGuide DEF Execution
<1>3. CASE Review \/ ForgeCloses
  BY <1>3, ReviewGuide
<1>4. CASE Deployment
  BY <1>4, DeploymentGuide
<1>5. CASE Executor
  BY <1>5, ExecutorGuide
<1>6. CASE UNCHANGED vars
  BY <1>6 DEF vars, GuideInv, TypeOK, LatestIsActive, TaskRunsForRun,
              SpecNeedsHuman, SuccessCompletes, CodexHasBranch, WaitIsRemote
<1> QED BY <1>1, <1>2, <1>3, <1>4, <1>5, <1>6 DEF Next, People

LEMMA GuideInvariant == Spec => []GuideInv
<1>1. Init => GuideInv
  BY InitGuide
<1>2. GuideInv /\ [Next]_vars => GuideInv'
  BY NextGuide
<1> QED BY <1>1, <1>2, PTL DEF Spec

\* Whatever the guide suggests, one of the suggested calls is accepted: by
\* the stage the guide has come to.
LEMMA GuideInvAccepts == GuideInv => SuggestionIsAccepted
<1> SUFFICES ASSUME GuideInv, run.active # "running", ~NoCall, ~Refused
             PROVE  \E id \in Guide : Accepts(id)
  BY DEF SuggestionIsAccepted
<1>1. CASE plan.spec \in {"none", "manual_review"}
  <2>1. CASE plan.spec = "none"
    <3>1. Guide = {"generate_spec"}
      BY <2>1 DEF Guide
    <3>9. Accepts("generate_spec")
      BY DEF Accepts
    <3> QED BY <3>1, <3>9
  <2>2. CASE plan.spec = "manual_review"
    <3>1. verdict # "approved"
      BY <2>2 DEF Guide, NoCall
    <3>2. Guide = {"approve_spec"}
      BY <2>2, <3>1 DEF Guide
    <3>9. Accepts("approve_spec")
      BY DEF Accepts
    <3> QED BY <3>2, <3>9
  <2> QED BY <1>1, <2>1, <2>2
<1>2. plan.spec \notin {"none", "manual_review"} => plan.spec = "approved"
  BY DEF GuideInv, TypeOK, Plan
<1>3. CASE plan.spec = "approved" /\ plan.context # "ready"
  <2>1. Guide = {"collect_repo_context"}
    BY <1>3 DEF Guide
  <2>9. Accepts("collect_repo_context")
    BY DEF Accepts
  <2> QED BY <2>1, <2>9
<1> DEFINE Planned == plan.spec = "approved" /\ plan.context = "ready"
<1>4. CASE Planned /\ plan.impact = "none"
  <2>1. Guide = {"analyze_impact"}
    BY <1>4 DEF Guide
  <2>9. Accepts("analyze_impact")
    BY DEF Accepts
  <2> QED BY <2>1, <2>9
<1>5. CASE Planned /\ plan.impact = "manual_review"
  <2>1. Guide = {"review_impact"}
    BY <1>5 DEF Guide
  <2> QED BY <2>1 DEF NoCall
<1> DEFINE Analyzed == Planned /\ plan.impact = "ready"
<1>6. Planned => plan.impact = "none" \/ plan.impact = "manual_review" \/ Analyzed
  BY DEF GuideInv, TypeOK, Plan
<1>7. CASE Analyzed /\ task = "none"
  <2>1. Guide = {"create_coding_task"}
    BY <1>7 DEF Guide
  <2>9. Accepts("create_coding_task")
    BY <1>7 DEF Accepts
  <2> QED BY <2>1, <2>9
<1>8. CASE Analyzed /\ task # "none" /\ run.latest # "succeeded"
  <2>1. Guide = GuideExecution
    BY <1>8 DEF Guide
  <2>2. CASE run.latest = "none"
    <3>1. Guide = {"create_execution_run"}
      BY <2>1, <2>2 DEF GuideExecution
    <3>9. Accepts("create_execution_run")
      BY DEF Accepts
    <3> QED BY <3>1, <3>9
  <2>3. CASE run.latest = "queued"
    <3>1. Guide = {"dispatch_execution_run"}
      BY <2>1, <2>3 DEF GuideExecution
    <3>9. Accepts("dispatch_execution_run")
      BY <2>3 DEF Accepts, GuideInv, LatestIsActive
    <3> QED BY <3>1, <3>9
  <2>4. CASE run.latest = "paused"
    <3>1. Guide = {"resume_execution_run"}
      BY <2>1, <2>4 DEF GuideExecution
    <3>9. Accepts("resume_execution_run")
      BY <2>4 DEF Accepts, GuideInv, LatestIsActive
    <3> QED BY <3>1, <3>9
  <2>5. run.latest # "running"
    BY DEF GuideInv, LatestIsActive
  <2>6. CASE run.latest \notin {"none", "queued", "paused", "running"}
    <3>1. Guide = {"auto_repair_task", "retry_task"}
      BY <2>1, <2>6 DEF GuideExecution
    <3>2. task \notin {"none", "running", "draft"}
      BY <1>8, <3>1 DEF Refused, GuideInv, TaskRunsForRun
    <3>3. setting.high => approved
      BY <1>8 DEF GuideInv, SpecNeedsHuman
    <3>4. Accepts("retry_task")
      BY <3>2, <3>3 DEF Accepts, RetryAccepted, Executable
    <3> QED BY <3>1, <3>4
  <2> QED BY <2>2, <2>3, <2>4, <2>5, <2>6
<1>9. CASE Analyzed /\ task # "none" /\ run.latest = "succeeded"
            /\ mr.review # "passed"
  <2>1. Guide = GuideReview
    BY <1>9 DEF Guide
  <2>2. CASE mr.review = "none"
    <3>1. Guide = {"create_merge_request"}
      BY <2>1, <2>2 DEF GuideReview
    <3>2. run.branch
      BY <1>9, <3>1 DEF Refused, GuideInv, SuccessCompletes, CodexHasBranch
    <3>9. Accepts("create_merge_request")
      BY <1>9, <3>2 DEF Accepts, GuideInv, SuccessCompletes
    <3> QED BY <3>1, <3>9
  <2>3. CASE mr.review \in {"blocking", "unexplained", "closed"}
    <3>1. Guide = {"repair_merge_request"}
      BY <2>1, <2>3 DEF GuideReview
    <3>2. ~setting.high /\ mr.review \in {"blocking", "closed"}
      BY <2>3, <3>1 DEF Refused
    <3>3. task = "completed"
      BY <1>9 DEF GuideInv, SuccessCompletes
    <3>9. Accepts("repair_merge_request")
      BY <3>2, <3>3 DEF Accepts, ReviewRepairAccepted, Executable
    <3> QED BY <3>1, <3>9
  <2>4. CASE mr.review \notin {"none", "blocking", "unexplained", "closed"}
    <3>1. CASE setting.remote
      <4>1. Guide = {"sync_remote_review"}
        BY <2>1, <2>4, <3>1 DEF GuideReview
      <4>9. Accepts("sync_remote_review")
        BY <3>1 DEF Accepts
      <4> QED BY <4>1, <4>9
    <3>2. CASE ~setting.remote
      <4>1. Guide = {"record_local_review"}
        BY <2>1, <2>4, <3>2 DEF GuideReview
      <4>9. Accepts("record_local_review")
        BY DEF Accepts
      <4> QED BY <4>1, <4>9
    <3> QED BY <3>1, <3>2
  <2> QED BY <2>2, <2>3, <2>4
<1>10. CASE Analyzed /\ task # "none" /\ run.latest = "succeeded"
             /\ mr.review = "passed"
  <2>1. Guide = GuideDeployment
    BY <1>10 DEF Guide
  <2>2. CASE deploy.status = "none"
    <3>1. Guide = {"create_deployment"}
      BY <2>1, <2>2 DEF GuideDeployment
    <3>9. Accepts("create_deployment")
      BY <1>10 DEF Accepts
    <3> QED BY <3>1, <3>9
  <2>3. CASE deploy.status \in {"pending", "deaf"}
    <3>1. Guide = {"sync_deployment"}
      BY <2>1, <2>3 DEF GuideDeployment
    <3>2. setting.remote /\ deploy.status = "pending"
      BY <2>3, <3>1 DEF Refused, GuideInv, WaitIsRemote
    <3>9. Accepts("sync_deployment")
      BY <3>2 DEF Accepts
    <3> QED BY <3>1, <3>9
  <2>4. CASE deploy.status = "failed"
    <3>1. Guide = {"redeploy"}
      BY <2>1, <2>4 DEF GuideDeployment
    <3>9. Accepts("redeploy")
      BY <1>10, <2>4 DEF Accepts
    <3> QED BY <3>1, <3>9
  <2>5. CASE deploy.status = "deployed"
    <3>1. deploy.verified \in {"none", "passed", "failed"}
      BY DEF GuideInv, TypeOK, Deploy
    <3>2. CASE deploy.verified = "none"
      <4>1. Guide = {"record_verification"}
        BY <2>1, <2>5, <3>2 DEF GuideDeployment
      <4>9. Accepts("record_verification")
        BY DEF Accepts
      <4> QED BY <4>1, <4>9
    <3>3. CASE deploy.verified = "failed"
      <4>1. Guide = {"redeploy"}
        BY <2>1, <2>5, <3>3 DEF GuideDeployment
      <4>9. Accepts("redeploy")
        BY <1>10, <2>5 DEF Accepts
      <4> QED BY <4>1, <4>9
    <3>4. CASE deploy.verified = "passed"
      <4>1. Guide = {"delivery_completed"}
        BY <2>1, <2>5, <3>4 DEF GuideDeployment
      <4>9. Accepts("delivery_completed")
        BY DEF Accepts
      <4> QED BY <4>1, <4>9
    <3> QED BY <3>1, <3>2, <3>3, <3>4
  <2>6. deploy.status \in {"none", "pending", "deaf", "deployed", "failed"}
    BY DEF GuideInv, TypeOK, Deploy
  <2> QED BY <2>2, <2>3, <2>4, <2>5, <2>6
<1> QED BY <1>1, <1>2, <1>3, <1>4, <1>5, <1>6, <1>7, <1>8, <1>9, <1>10

-----------------------------------------------------------------------------
(* Theorems. *)

\* Whatever calls people make in whatever order: every status of the plan,
\* the task, the run, the merge request and the deployment is one the code
\* knows, and a running run has a running task (demand_next_actions and the
\* handlers it sends people to).
THEOREM GuideTypeCorrect == Spec => []TypeOK
<1>1. GuideInv => TypeOK
  BY DEF GuideInv
<1> QED BY <1>1, GuideInvariant, PTL

\* For every number of calls that nobody suggested and of results that are
\* bad: unless a run is under way or the guide is in one of the places that
\* NoCall and Refused name, a call it suggests is accepted by its handler
\* (demand_next_actions).
THEOREM GuideIsAccepted == Spec => []SuggestionIsAccepted
<1> QED BY GuideInvAccepts, GuideInvariant, PTL
=============================================================================
