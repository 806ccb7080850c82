----------------------------- MODULE DeliveryGuide -----------------------------
(***************************************************************************)
(* A delivery from the demand to the verified deployment, as a person goes *)
(* through it who opens the demand, reads next_actions and makes the call  *)
(* suggested there: DeliveryService.demand_next_actions composed with the  *)
(* guards and effects of the handlers it sends people to.                  *)
(*                                                                         *)
(* A call is one step here (DemandPipeline, ExecutionRuns, MergeReview and *)
(* Deployments take the calls apart); a run and the request that waits for *)
(* it are not.  Of every kind of row the guide looks at the one that was   *)
(* updated last, so only that one is kept: an older one is not touched.    *)
(* An operator X_Bug before an operator X is X with a bug: no part of the  *)
(* model.                                                                  *)
(***************************************************************************)
EXTENDS Naturals

CONSTANT
    MaxTroubles   \* bound: calls nobody suggested, and results that are bad

ASSUME GuideAssumption == MaxTroubles \in Nat

VARIABLES
    setting,    \* what does not change: risk, confidence, providers, executor
    verdict,    \* demand.manual_approval_status
    approved,   \* has_manual_execution_approval: once true, true for ever
    plan,       \* the latest spec, repository context and impact analysis
    task,       \* the status of the coding task
    run,        \* see Run
    mr,         \* see MergeRequest
    deploy,     \* the latest deployment and its latest verification
    troubles    \* how many there have been

vars == <<setting, verdict, approved, plan, task, run, mr, deploy, troubles>>

\* local: local_checks and every name that get_execution_executor does not know.
Executors == {"codex", "symphony", "local"}
Setting == [high : BOOLEAN, confident : BOOLEAN, remote : BOOLEAN,
            executor : Executors]
Plan == [spec : {"none", "manual_review", "approved"},
         context : {"none", "insufficient", "ready"},
         impact : {"none", "manual_review", "ready"}]

\* active: the run that is queued, paused or running; latest: the status of
\* the run updated last; refused: the run created last is a blocked one;
\* repairs: the run belongs to a request that will push it to the merge
\* request; good: some run has succeeded; branch: the one that did so last has
\* a source branch.
Run == [active : {"none", "queued", "paused", "running"},
        latest : {"none", "queued", "paused", "running", "blocked", "failed",
                  "unfit", "cancelled", "succeeded"},
        refused : BOOLEAN, repairs : BOOLEAN, good : BOOLEAN,
        branch : BOOLEAN]

\* unexplained: blocked, without a word why; shut: closed at the forge;
\* current: it was created for the latest successful run.
MergeRequest == [review : {"none", "pending", "passed", "blocking",
                           "unexplained", "closed"},
                 shut : BOOLEAN, current : BOOLEAN]

\* deaf: pending, without a status URL to ask.
Deploy == [status : {"none", "pending", "deaf", "deployed", "failed"},
           verified : {"none", "passed", "failed"}]

-----------------------------------------------------------------------------
(* demand_next_actions: the ids of the suggestions. *)

GuideExecution ==
    CASE run.latest = "none" -> {"create_execution_run"}
      [] run.latest = "queued" -> {"dispatch_execution_run"}
      [] run.latest = "paused" -> {"resume_execution_run"}
      [] run.latest = "running" -> {"wait_for_execution"}
      [] OTHER -> {"auto_repair_task", "retry_task"}

GuideReview ==
    CASE mr.review = "none" -> {"create_merge_request"}
      [] mr.review \in {"blocking", "unexplained", "closed"} ->
            {"repair_merge_request"}
      [] OTHER -> IF setting.remote THEN {"sync_remote_review"}
                  ELSE {"record_local_review"}

GuideDeployment ==
    IF deploy.status = "none" THEN {"create_deployment"}
    ELSE IF deploy.status \in {"pending", "deaf"} THEN {"sync_deployment"}
    ELSE IF deploy.status = "failed" THEN {"redeploy"}
    ELSE IF deploy.verified = "none" THEN {"record_verification"}
    ELSE IF deploy.verified = "failed" THEN {"redeploy"}
    ELSE {"delivery_completed"}

\* The first thing that is missing decides (a CASE would leave open which of
\* several does).
Guide ==
    IF plan.spec = "none" THEN {"generate_spec"}
    ELSE IF plan.spec = "manual_review"
         THEN IF verdict # "approved" THEN {"approve_spec"} ELSE {"wait_for_spec"}
    ELSE IF plan.context # "ready" THEN {"collect_repo_context"}
    ELSE IF plan.impact = "none" THEN {"analyze_impact"}
    ELSE IF plan.impact = "manual_review" THEN {"review_impact"}
    ELSE IF task = "none" THEN {"create_coding_task"}
    ELSE IF run.latest # "succeeded" THEN GuideExecution
    ELSE IF mr.review # "passed" THEN GuideReview
    ELSE GuideDeployment

\* A step that serves call id and ends badly or not: calls nobody suggested
\* and bad ends count as troubles.
Serves(id, bad) ==
    /\ troubles' = troubles + (IF id \in Guide THEN 0 ELSE 1)
                            + (IF bad THEN 1 ELSE 0)
    /\ troubles' <= MaxTroubles

-----------------------------------------------------------------------------
(* Planning: specs, contexts, impact analyses, tasks and decisions. *)

GenerateSpec(automatic) ==
    /\ Serves("generate_spec", FALSE)
    /\ plan' = [plan EXCEPT !.spec =
                  IF ~setting.high /\ setting.confident /\ automatic
                  THEN "approved" ELSE "manual_review"]
    /\ UNCHANGED <<setting, verdict, approved, task, run, mr, deploy>>

\* The suggestion does not ask for a refresh: an existing context is returned.
CollectRepoContext(force, found) ==
    /\ Serves("collect_repo_context", force)
    /\ plan' = IF plan.context = "none" \/ force
               THEN [plan EXCEPT !.context = found] ELSE plan
    /\ UNCHANGED <<setting, verdict, approved, task, run, mr, deploy>>

AnalyzeImpact(found) ==
    /\ Serves("analyze_impact", FALSE)
    /\ plan' = [plan EXCEPT !.impact = found]
    /\ UNCHANGED <<setting, verdict, approved, task, run, mr, deploy>>

CreateCodingTask ==
    /\ Serves("create_coding_task", FALSE)
    /\ plan.spec # "none"
    /\ task = "none"
    /\ task' = IF plan.spec = "approved" /\ (~setting.high \/ approved)
               THEN "ready" ELSE "draft"
    /\ UNCHANGED <<setting, verdict, approved, plan, run, mr, deploy>>

Approve ==
    /\ Serves("approve_spec", FALSE)
    /\ verdict' = "approved"
    /\ approved' = TRUE
    /\ plan' = [plan EXCEPT !.spec = IF @ = "none" THEN @ ELSE "approved"]
    /\ task' = IF task = "draft" THEN "ready" ELSE task
    /\ UNCHANGED <<setting, run, mr, deploy>>

Reject ==
    /\ Serves("reject", FALSE)
    /\ verdict' = "rejected"
    /\ task' = IF task \in {"draft", "ready"} THEN "blocked" ELSE task
    /\ UNCHANGED <<setting, approved, plan, run, mr, deploy>>

-----------------------------------------------------------------------------
(* Runs. *)

\* The run that was active becomes status: it is the one updated last.
Active(status) == [run EXCEPT !.active = status, !.latest = status]

\* create_execution_run for a task of this status: the run is refused, or
\* the active one is returned, or a new one is queued and, by a call that
\* goes on to dispatch it, started unless a Symphony worker is to do it.
RunAfterCreate(status, dispatches, repairs) ==
    IF status # "ready" \/ (setting.high /\ ~approved)
    THEN [run EXCEPT !.latest = "blocked", !.refused = TRUE]
    ELSE IF run.active \in {"paused", "running"} THEN run
    ELSE LET queued == IF run.active = "queued" THEN run
                       ELSE [Active("queued") EXCEPT !.refused = FALSE]
         IN IF dispatches /\ setting.executor # "symphony"
            THEN [queued EXCEPT !.active = "running", !.latest = "running",
                                !.repairs = repairs]
            ELSE queued
TaskAfterCreate(status) ==
    IF run'.active = "running" THEN "running" ELSE status

CreateExecutionRun ==
    /\ Serves("create_execution_run", FALSE)
    /\ task # "none"
    /\ run' = RunAfterCreate(task, FALSE, FALSE)
    /\ UNCHANGED <<setting, verdict, approved, plan, task, mr, deploy>>

Dispatch ==
    /\ Serves("dispatch_execution_run", FALSE)
    /\ run.active = "queued"
    /\ run' = Active(IF setting.executor = "symphony" THEN "queued" ELSE "running")
    /\ task' = TaskAfterCreate(task)
    /\ UNCHANGED <<setting, verdict, approved, plan, mr, deploy>>

Pause ==
    /\ Serves("pause", FALSE)
    /\ run.active = "queued"
    /\ run' = Active("paused")
    /\ task' = "ready"
    /\ UNCHANGED <<setting, verdict, approved, plan, mr, deploy>>

Resume ==
    /\ Serves("resume_execution_run", FALSE)
    /\ run.active = "paused"
    /\ run' = Active("queued")
    /\ task' = "ready"
    /\ UNCHANGED <<setting, verdict, approved, plan, mr, deploy>>

Cancel_LeavesTask ==
    /\ Serves("cancel", FALSE)
    /\ run.active # "none"
    /\ run' = [run EXCEPT !.active = "none", !.latest = "cancelled",
                          !.repairs = FALSE]
    /\ UNCHANGED <<setting, verdict, approved, plan, task, mr, deploy>>
Cancel ==
    /\ Serves("cancel", FALSE)
    /\ run.active # "none"
    /\ run' = [run EXCEPT !.active = "none", !.latest = "cancelled",
                          !.repairs = FALSE]
    /\ task' = IF run.active = "running" THEN "blocked" ELSE "ready"
    /\ UNCHANGED <<setting, verdict, approved, plan, mr, deploy>>

\* What the handlers of the three calls that execute a task again ask first.
Executable == task \notin {"none", "running", "draft"}
RetryAccepted == Executable /\ (setting.high => approved)
AutoRepairAccepted ==
    Executable /\ ~setting.high /\ run.latest = "failed" /\ ~run.refused
ReviewRepairAccepted ==
    Executable /\ ~setting.high /\ mr.review \in {"blocking", "closed"}

\* A blocked or completed task is made ready before the run is created.
Executes(repairs) ==
    /\ run' = RunAfterCreate("ready", TRUE, repairs)
    /\ task' = TaskAfterCreate("ready")
    /\ UNCHANGED <<setting, verdict, approved, plan, mr, deploy>>

Retry ==
    /\ Serves("retry_task", FALSE)
    /\ RetryAccepted
    /\ Executes(FALSE)

AutoRepair ==
    /\ Serves("auto_repair_task", FALSE)
    /\ AutoRepairAccepted
    /\ Executes(FALSE)

RepairMergeRequest ==
    /\ Serves("repair_merge_request", FALSE)
    /\ ReviewRepairAccepted
    /\ Executes(TRUE)

\* A Symphony worker claims the run.
Claimed_LeavesTask ==
    /\ setting.executor = "symphony"
    /\ run.active = "queued"
    /\ run' = Active("running")
    /\ UNCHANGED <<setting, verdict, approved, plan, task, mr, deploy, troubles>>
Claimed ==
    /\ setting.executor = "symphony"
    /\ run.active = "queued"
    /\ run' = Active("running")
    /\ task' = "running"
    /\ UNCHANGED <<setting, verdict, approved, plan, mr, deploy, troubles>>

\* A codex run has the branch of its worktree, a local run has none, and the
\* completion of a Symphony run may name one or not.
HasBranch(branch) ==
    IF branch THEN setting.executor # "local" ELSE setting.executor # "codex"

\* The run ends.  The request that repairs a review then pushes the branch,
\* unless the push is refused, and asks for a new review.
\* unfit: failed, and not by a check, or outside the allowed paths.
RunEnds_Unreviewed(outcome, pushed, branch) ==
    /\ run.active = "running"
    /\ HasBranch(branch)
    /\ troubles' = troubles + (IF outcome # "succeeded" \/ ~pushed
                               THEN 1 ELSE 0)
    /\ troubles' <= MaxTroubles
    /\ run' = [run EXCEPT !.active = "none", !.latest = outcome,
                          !.repairs = FALSE,
                          !.good = @ \/ outcome = "succeeded",
                          !.branch = IF outcome = "succeeded" THEN branch ELSE @]
    /\ task' = IF outcome = "succeeded" THEN "completed" ELSE "blocked"
    /\ mr' = IF outcome # "succeeded" THEN mr
             ELSE [mr EXCEPT !.current = FALSE]
    /\ UNCHANGED <<setting, verdict, approved, plan, deploy>>
RunEnds(outcome, pushed, branch) ==
    /\ run.active = "running"
    /\ HasBranch(branch)
    /\ troubles' = troubles + (IF outcome # "succeeded" \/ ~pushed
                               THEN 1 ELSE 0)
    /\ troubles' <= MaxTroubles
    /\ run' = [run EXCEPT !.active = "none", !.latest = outcome,
                          !.repairs = FALSE,
                          !.good = @ \/ outcome = "succeeded",
                          !.branch = IF outcome = "succeeded" THEN branch ELSE @]
    /\ task' = IF outcome = "succeeded" THEN "completed" ELSE "blocked"
    /\ mr' = IF outcome # "succeeded" THEN mr
             ELSE [mr EXCEPT !.current = FALSE,
                             !.review = IF run.repairs /\ pushed
                                        THEN "pending" ELSE @]
    /\ UNCHANGED <<setting, verdict, approved, plan, deploy>>

-----------------------------------------------------------------------------
(* Merge requests and reviews. *)

\* The merge request of this very run is returned unless it is closed; a new
\* one has no deployments.
CreateMergeRequest ==
    /\ Serves("create_merge_request", FALSE)
    /\ task = "completed"
    /\ run.good
    /\ run.branch
    /\ IF mr.review \in {"none", "closed"} \/ ~mr.current
       THEN /\ mr' = [review |-> "pending", shut |-> FALSE, current |-> TRUE]
            /\ deploy' = [status |-> "none", verified |-> "none"]
       ELSE UNCHANGED <<mr, deploy>>
    /\ UNCHANGED <<setting, verdict, approved, plan, task, run>>

\* A person records the review, whatever the provider.
RecordReview(review) ==
    /\ Serves("record_local_review", review # "passed")
    /\ mr.review # "none"
    /\ mr' = [mr EXCEPT !.review = review]
    /\ UNCHANGED <<setting, verdict, approved, plan, task, run, deploy>>

SyncReview(review) ==
    /\ Serves("sync_remote_review", review = "blocking")
    /\ setting.remote
    /\ mr.review # "none"
    /\ mr' = [mr EXCEPT !.review = IF mr.shut THEN "closed" ELSE review]
    /\ UNCHANGED <<setting, verdict, approved, plan, task, run, deploy>>

\* Somebody closes the merge request at the forge, which tells the backend.
ForgeCloses ==
    /\ Serves("close", FALSE)
    /\ setting.remote
    /\ mr.review # "none"
    /\ mr' = [mr EXCEPT !.review = "closed", !.shut = TRUE]
    /\ UNCHANGED <<setting, verdict, approved, plan, task, run, deploy>>

-----------------------------------------------------------------------------
(* Deployments and verifications. *)

Posted(status) ==
    /\ mr.review = "passed"
    /\ setting.remote \/ status = "deployed"
    /\ deploy' = [status |-> status, verified |-> "none"]
    /\ UNCHANGED <<setting, verdict, approved, plan, task, run, mr>>

CreateDeployment(status) ==
    /\ Serves("create_deployment", status \in {"deaf", "failed"})
    /\ Posted(status)

Redeploy(status) ==
    /\ Serves("redeploy", status \in {"deaf", "failed"})
    /\ deploy.status \in {"deployed", "failed"}
    /\ Posted(status)

SyncDeployment(status) ==
    /\ Serves("sync_deployment", status = "failed")
    /\ setting.remote
    /\ deploy.status = "pending"
    /\ deploy' = [deploy EXCEPT !.status = status]
    /\ UNCHANGED <<setting, verdict, approved, plan, task, run, mr>>

\* Any deployment can be verified, a pending or failed one too.
RecordVerification(result) ==
    /\ Serves("record_verification", result = "failed")
    /\ deploy.status # "none"
    /\ deploy' = [deploy EXCEPT !.verified = result]
    /\ UNCHANGED <<setting, verdict, approved, plan, task, run, mr>>

-----------------------------------------------------------------------------

Init ==
    /\ setting \in Setting
    /\ verdict = "none"
    /\ approved = FALSE
    /\ plan = [spec |-> "none", context |-> "none", impact |-> "none"]
    /\ task = "none"
    /\ run = [active |-> "none", latest |-> "none", refused |-> FALSE,
              repairs |-> FALSE, good |-> FALSE, branch |-> FALSE]
    /\ mr = [review |-> "none", shut |-> FALSE, current |-> FALSE]
    /\ deploy = [status |-> "none", verified |-> "none"]
    /\ troubles = 0

Planning ==
    \/ \E automatic \in BOOLEAN : GenerateSpec(automatic)
    \/ \E found \in {"insufficient", "ready"} :
          \E force \in BOOLEAN : CollectRepoContext(force, found)
    \/ \E found \in {"manual_review", "ready"} : AnalyzeImpact(found)
    \/ CreateCodingTask \/ Approve \/ Reject

Execution ==
    \/ CreateExecutionRun \/ Dispatch \/ Pause \/ Resume \/ Cancel
    \/ Retry \/ AutoRepair \/ RepairMergeRequest

Review ==
    \/ CreateMergeRequest
    \/ \E review \in {"passed", "blocking", "unexplained"} :
          RecordReview(review)
    \/ \E review \in {"passed", "blocking"} : SyncReview(review)

Deployment ==
    \/ \E status \in {"pending", "deaf", "deployed", "failed"} :
          CreateDeployment(status) \/ Redeploy(status)
    \/ \E status \in {"deployed", "failed"} : SyncDeployment(status)
    \/ \E result \in {"passed", "failed"} : RecordVerification(result)

People == Planning \/ Execution \/ Review \/ Deployment
Executor ==
    \/ Claimed
    \/ \E outcome \in {"succeeded", "failed", "unfit"} :
          \E pushed, branch \in BOOLEAN : RunEnds(outcome, pushed, branch)

Next == People \/ Executor \/ ForgeCloses

Spec == Init /\ [][Next]_vars

\* Somebody goes on with the delivery as long as the page has a call for them
\* that changes something, and executors and workers do their work.
Fairness == WF_vars(People) /\ WF_vars(Executor)
FairSpec == Spec /\ Fairness

-----------------------------------------------------------------------------
(* Properties. *)

TypeOK ==
    /\ setting \in Setting
    /\ verdict \in {"none", "approved", "rejected"}
    /\ approved \in BOOLEAN
    /\ plan \in Plan
    /\ task \in {"none", "draft", "ready", "running", "blocked", "completed"}
    /\ run \in Run
    /\ run.active = "running" => task = "running"
    /\ mr \in MergeRequest
    /\ deploy \in Deploy
    /\ troubles \in 0 .. MaxTroubles

\* Does the handler of a suggested call accept it?
Accepts(id) ==
    CASE id = "create_coding_task" -> plan.spec # "none"
      [] id = "dispatch_execution_run" -> run.active = "queued"
      [] id = "resume_execution_run" -> run.active = "paused"
      [] id = "auto_repair_task" -> AutoRepairAccepted
      [] id = "retry_task" -> RetryAccepted
      [] id = "create_merge_request" ->
            task = "completed" /\ run.good /\ run.branch
      [] id = "repair_merge_request" -> ReviewRepairAccepted
      [] id = "sync_remote_review" -> setting.remote
      [] id = "create_deployment" -> mr.review = "passed"
      [] id = "sync_deployment" -> setting.remote /\ deploy.status = "pending"
      [] id = "redeploy" -> deploy.status \in {"deployed", "failed"}
                            /\ mr.review = "passed"
      [] id \in {"wait_for_spec", "review_impact"} -> FALSE
      [] OTHER -> TRUE

\* Where the guide leaves people alone.  No call is suggested: the impact is
\* to be reviewed, or a spec after the approval (an old approval is no use).
NoCall == Guide \cap {"review_impact", "wait_for_spec"} # {}
\* The suggested call is refused: a draft task cannot be retried, a run without
\* a source branch, which no codex run is, gets no merge request, a review that blocks is repaired for
\* low risks and with a reason only, and a deployment without a status URL
\* cannot be asked.
Refused ==
    \/ Guide = {"auto_repair_task", "retry_task"} /\ task = "draft"
    \/ Guide = {"create_merge_request"}
       /\ setting.executor # "codex" /\ ~run.branch
    \/ Guide = {"repair_merge_request"}
       /\ (setting.high \/ mr.review = "unexplained")
    \/ Guide = {"sync_deployment"} /\ deploy.status = "deaf"
\* The suggested calls are accepted and lead nowhere: the context that is not
\* good enough is returned again, the merge request stays closed however
\* often it is repaired, a repair that a Symphony worker makes is neither
\* pushed nor noted at the merge request, and a paused run is returned again
\* instead of a new one.
Circles ==
    \/ Guide = {"collect_repo_context"} /\ plan.context = "insufficient"
    \/ mr.shut
    \/ Guide = {"repair_merge_request"} /\ setting.executor = "symphony"
    \/ run.active = "paused" /\ run.latest = "blocked"

\* Unless a run is under way, at least one of the suggested calls is accepted
\* by its handler, after whatever calls other people have made: the guide and
\* the guards of all the handlers agree, except where Refused says they do not.
SuggestionIsAccepted ==
    run.active # "running" /\ ~NoCall /\ ~Refused => \E id \in Guide : Accepts(id)

\* Whoever goes on making the suggested calls gets the demand delivered, or
\* is left in one of the places named above: runs and reviews that fail, a
\* cancelled run or a rejection delay it and never let it go round elsewhere.
GuideCompletes ==
    []<>(Guide = {"delivery_completed"} \/ NoCall \/ Refused \/ Circles)
=============================================================================
