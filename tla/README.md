# AI-PJM: a verification project

AI-PJM turns a demand into a deployed and verified change. A demand is refined
into a spec, the repository context is collected, the impact analysed, a coding
task is cut; the task is executed by a coding agent; its branch becomes a merge
request; the reviewed request is deployed to a test environment and verified.
Every step leaves a gate check (passed, failed, manual review required), and
risky demands need a human approval before anything is executed.

This directory holds TLA+ models of that system, the TLC configurations that
check them on small instances, and theorems about them that TLAPS checks. The
models are translated from the code under `src/backend`; `PROJECT.json` maps
every definition to the lines it stands for, and lists runs, mutants, findings,
hazards and theorems.

Contents: 1 the inventory, 2 the plan, 3 the modules, 4 the runs, 5 what the
code does that its documents deny, 6 fairness, 7 proofs, 8 what is not modelled.

## 1. Inventory

Paths are below `src/backend/app/modules/delivery` unless they start with `src/`.

| Component | State | Operations | Hard because | Correct when |
|---|---|---|---|---|
| Demand pipeline (`service.py`: `create_demand`, `generate_spec`, `collect_repo_context`, `analyze_impact`, `create_coding_task`) | demand, spec, context, analysis, task rows, gate checks | one per stage, each with a provider call | a stage reads "the latest" row of the one before and awaits a provider in between | a task is ready only with an approved spec and, for L2/L3, an approval |
| Gate rules (`gates.py`) | none | pure decisions | rules are combined with looked-up history | a gate is never weaker than the rule it states |
| Manual approval (`record_manual_approval`) | approval columns, gates, task | approve, reject | the execution gate looks at the whole history, the task at the latest decision | nothing risky executes without an approval |
| Execution queue (`create_/retry_/dispatch_/pause_/resume_/cancel_execution_run`) | `delivery_execution_runs`, `delivery_coding_tasks` | as named | check-then-write without locks, an executor that works between two commits | one active run per task, the running limit, outcomes that stay, task and runs agree |
| Symphony bridge (`symphony_bridge.py`, `symphony_router.py`) | the `symphony_bridge` section of a run's evidence (owner, lease) | list, claim, heartbeat, event, complete, recover | external workers that crash, time out or answer late | one worker per claimed run; an abandoned run ends |
| Symphony worker (`src/backend/scripts/symphony_worker.py`) | its process, a status file | poll, claim, run commands, heartbeat, complete | crashes, lost answers, long commands | a worker at work keeps its lease; only complete work succeeds; a claimed run ends |
| Local executor (`executors/local_checks.py`) | worktree and processes | dispatch | runs inside a request, cannot be stopped | a succeeded run is checked, and in scope up to one cut path; every dispatch ends |
| Merge requests (`create_merge_request_record`, reviews, `handle_*_webhook`, `merge_requests/`) | merge request rows, the forge | create, review, sync, webhooks, auto-repair and push | remote effects before the commit; webhooks late, doubled, reordered | a review is passed with a cause; syncs converge to the forge's state |
| Deployments and verification (`create_deploy_record`, `redeploy_`, `sync_`, `record_verification`, `deployments/`, `src/backend/scripts/deployment_sync_worker.py`) | deployment and verification rows | deploy, redeploy, sync, sync all pending, verify | provider answers out of order, partial failure of a batch | only a reviewed change is deployed; a final status stays; a batch is served |
| Workflow providers (`providers/`, `provider_credentials.py`, `_run_provider_operation`) | none | one call per stage | timeouts, retries, fallback | a fallback is recorded as one |
| Next actions (`demand_next_actions`) | none | suggests the next call of a delivery | must agree with the guards of every handler | a suggested call is accepted; following the suggestions delivers |
| Observability, onboarding, traces | none | read only | size | - |
| Authentication and project access (`src/backend/app/modules/auth`) | users, tokens, memberships | login, register, members | revocation | a call sees only its projects |
| Secrets (`src/backend/app/modules/secrets`) | secret rows | create, rotate, disable, resolve | resolution while rotating | the active secret is the one used |
| Audit (`src/backend/app/modules/audit`) | append-only events | append, list | - | - |
| Database session (`src/backend/app/core/db.py`) | identity map of one request | load, flush, commit, rollback | `expire_on_commit=False`: copies live on; only changed columns are written | - |
| Frontend, start scripts, migrations, monitoring | - | clients and tooling | - | - |

How they interact: routers open one session per request and call
`DeliveryService` or the bridge service; these read and write rows through
`repository.py`; nothing else is shared. Workers, the sync worker and the
frontend are HTTP clients; forges call back through webhooks. Several requests
are served at the same time by coroutines and possibly by several backend
processes. The database is the only place they meet, and no handler takes a
row lock; the one conditional update is `claim_execution_run`.

The behaviours that are hard to test follow: an overlap of two requests between
the reads and the commit of each, an executor or a worker that goes on while its
row changes, leases that expire under a worker that is only slow, retries of
what is still at work. `PROJECT.json` lists them as hazards, each at its line.

## 2. Plan

Done, in this order:

1. `RunLifecycle`: the promise of the execution queue, without requests.
2. `ExecutionRuns`: the queue, the bridge and the approval, request by request,
   shown and proved to implement `RunLifecycle` when requests do not overlap;
   proofs of the safety that holds even when they do.
3. `DemandPipeline`: stages, gate rules, approvals and providers of one demand,
   with proofs.
4. `MergeReview`: creation, reviews, sync, webhooks, repair and push, with
   proofs.
5. `Deployments`: deploy, redeploy, sync, the polling worker, with proofs.
6. `ChangedFiles`, `LocalExecutor`: a dispatch of the check executors, with
   proofs.
7. `SymphonyWorker`: the worker's loop and commands in time, with proofs.
8. `DeliveryGuide`: the next-actions guide composed with the guards and effects
   of all the calls it suggests, from the demand to the verification, with
   proofs.

Left, in the order of worth:

- Proofs of what lies behind the liveness properties and is safety: a measure
  that every step of a claimed run's worker, of a polling pass and of the guide
  makes smaller, so that only fairness is left to TLC.
- What holds of `ExecutionRuns` under overlap about a task and its runs, beyond
  approvals, blocked runs and claims.
- `CompletionRules`: the bridge's validation of a completion (required checks,
  expected evidence) as a pure module against a reference definition; it is an
  input of `SymphonyWorker` and `ExecutionRuns`.

## 3. The modules

The MC modules (`MCExecutionRuns`, `MCDemandPipeline`, ...) give the constants
their values; `RunLifecycleProofs`, `ExecutionRunsProofs`,
`SymphonyWorkerProofs`, `DemandPipelineProofs`, `LocalExecutorProofs`,
`MergeReviewProofs`, `DeploymentsProofs` and `DeliveryGuideProofs` hold the
theorems. An operator `X_Bug` in front of `X` is
a wrong version of `X` on which a property is tried (the mutants of
`PROJECT.json`); no specification uses it.

Common to the modules of handlers: a handler is two actions or more. `XLoad` is
what it reads and every check on what it has read; `XCommit` is its flush and
commit. In between other requests run. A session writes a column only if the
new value differs from its copy (`Flushed`). `Abandon` is every other end of a
request: an error after the load, a rollback, the death of the backend. A check
that fails at once changes nothing and is no action. The reads of one handler
are one step; they are separate statements in the code, so this leaves out
interleavings between two reads of one handler. An UPDATE in an open
transaction is taken to be atomic with its commit.

**`RunLifecycle`** has two variables, the status and the task of every run, and
one action per kind of change. It states the three promises of the queue:
`OneActiveRun`, `WithinCapacity`, `FinalIsForever`.

**`ExecutionRuns`** is the execution queue.

| Variable | In the code |
|---|---|
| `run` | the rows of `delivery_execution_runs`: status, task, kind of executor, and of `evidence_json` the owner, the lease and the dispatch result |
| `task` | the status column of `delivery_coding_tasks` |
| `approved` | tasks for whose demand `has_manual_execution_approval` is true |
| `selfTest` | status of the latest `SELF_TEST_PASSED` gate |
| `req` | the requests being served, each with the copies its session has loaded |
| `holding` | which workers are executing which run (the workers' side) |

Retry and local dispatch commit more than once and have more actions:
`RetryLoad`, `RetryCommit`, then creation, then dispatch; `DispatchLoad`,
`DispatchCommit`, the executor, `Refresh`, `FinishCommit`. What the model says
holds under overlap (`NoUnapprovedHighRisk`, `BlockedIsFinal`, `ClaimedOnce`)
does not rely on two reads agreeing: the status of a run is read by one
statement, approvals are only ever added, and a claim is decided by its
conditional update. `Serialized` chooses whether requests overlap; even when it
is TRUE an executor works while other requests are served, leases expire,
workers stop and backends die. `executor_type` is "local" for every type that
executes inside the request and "symphony" for the deferred one; a lease is
"live" or "expired"; each task is the latest task of its demand, so approving a
demand is approving a task.

**`DemandPipeline`** is one demand: `class` (what `classify_risk` and
`estimate_confidence` make of its text, an input), `verdict`, `risk`, the
statuses of all `spec` cards, the latest `context`, status and spec of every
`task`, the passed manual gates (`approvals`), tasks with runs (`queued`,
`active`) and the requests `req`. The stages are `Spec*`, `Context*`, `Impact*`,
`Task*`; decisions `Decision*`, `ApproveCommit`, `RejectCommit`; the start of
a run `Run*`, `Retry*` up to the gate. `ProviderFails` is
`_run_provider_operation` without the wording: retries, then one fallback. What
happens to a run afterwards is `ExecutionMoves`, an open version of
`ExecutionRuns`.

**`MergeReview`** is the merge request of one run: the `provider`, the pair
(status, review status) of its record `mr`, the request at the `forge` (state,
issues, checks of every commit, head) and the requests `req`. Commit 0 is where
the run's branch began, commit 1 what the branch held when the request was
opened, the others are pushed repairs. `recorded` is which of them
`ExecutionRun.commit_sha` is, the commit whose checks a sync asks for
(`RecordedChecks`): for a codex run the HEAD of its worktree before the command,
that is commit 0; for a Symphony run the commit its completion names, or none.
The forge may have checked commit 0 and the branch before the request exists.
`SyncLook` and `SyncChecks` are two calls to the forge, between which it moves.
`HookLoad` takes any event of the past, so webhooks are lost, late, doubled and
reordered without a network variable. `RepairRun` is a run of the repair with
its attempts, `RepairPush` moves the head of the branch.

**`Deployments`** is the deployments of one merge request: the rows `record`,
their order by `updated_at` (`recent`, which the polling list depends on), what
runs at the provider (`remote`), operators' requests `req` and the passes of the
polling worker `scan`, which keep the rows as loaded when the pass began. Answers
are sets of status words for the whole and for the parts (`Body`), read by
`_choose_status_signal`; any answer may be `Garbled`.

**`ChangedFiles`** is what both executors make of `git status --porcelain`,
with the loss of the first path's first character; of what is left of such a
path (`Cut`) nothing is assumed, it may be another path, in scope or not.
**`LocalExecutor`** is one
dispatch of `LocalChecksExecutor` or `WorktreeChecksExecutor`: `step`, the files
(`tree`, `linked`), how preflight, command and checks `ended`, the `reported`
files and the `result`. The command changes files while it is at work, and what a
timed out command leaves behind goes on (`LateWork`).

**`SymphonyWorker`** is worker processes at the bridge, in time: `status`,
`owner`, `age` (of the lease) and `evidence` of the runs and the `worker`
processes, each in a `step` of `run_once`. Calls to the bridge are atomic here
(`ExecutionRuns` has their interleavings); what is lost is the answer. `Tick` is
a unit of time and no step outlasts its `Limit`: the HTTP timeout for calls, the
command timeout for commands.

**`DeliveryGuide`** is a whole delivery with one action per call. `Guide` is
`demand_next_actions`; `setting` fixes the risk, the confidence, whether
providers are remote and the executor of all runs: codex (or
`worktree_checks`), Symphony, or local (for
`local_checks` and every type the factory does not know). A run has a source
branch if codex made it, has none if the local executor did, and a Symphony
completion may name one or not (`HasBranch`). The other
variables are what the guide and the guards read. Of every kind of row it keeps
the one updated last. One task, one type of executor for all its runs, one
attempt per automatic repair (the default setting); one setting covers the merge request and the deployment provider;
no other demand competes for the running limit; the operator's sync of a final
deployment is left to `Deployments`.

## 4. The runs

| Run | Instance | States | Shows |
|---|---|---|---|
| `lifecycle` | 3 runs, 2 tasks | small | the promise has the consequences a user counts on |
| `serial` | 2 runs, 2 tasks (one high risk), 2 workers, both kinds, all calls, serialized | 1.0 million | types; `TaskFollowsRuns`: a task says running exactly while a run of it does; `CompletedIsEarned`; `RunningHasLease`; `ImplementsLifecycle`: the queue implements `RunLifecycle` |
| `overlap` | 1 run, 2 tasks (one high risk), 2 workers, symphony runs, all calls but resume, overlapping | 1.2 million | `NoUnapprovedHighRisk`; `ClaimedOnce`; `BlockedIsFinal` |
| `recovery` | 2 runs, 1 worker, serialized, with fairness | | `AbandonedRunEnds` |
| `pipeline` | 2 specs, 1 task, 2 requests, all calls, fallback on | 4.2 million | `HighRiskIsReviewed`, `DraftNeedsDecision` |
| `worker` | 2 workers, 2 runs, 2 commands, lease 6, steps of 1, fairness | 520 000 | `WorkKeepsLease`, `SuccessIsComplete`, `OutcomeStays`, `ClaimedRunEnds` |
| `local_executor` | 3 files, one in scope, one that is cut to it, 2 checks, every configuration, fairness | 240 000 | `SucceededIsChecked`; `OnlyACutPathEscapes`: a file out of scope of a succeeded run is the first one listed, and was taken for one in scope; `DispatchEnds` |
| `review` | 1 caller, 1 syncing caller, local and GitLab, any recorded commit, 1 check, fairness | 570 000 | `PassHasCause`, `SyncConverges` |
| `deploy` | 2 records, 2 jobs, 1 operator, 1 worker with limit 1, fairness | 140 000 | `FinalIsTold`, `WorkerKeepsFinal`, `PendingIsResolved` |
| `guide` | every setting and executor, 4 troubles, fairness | 150 000 | `SuggestionIsAccepted`, `GuideCompletes` |
| `repair_stale` | GitHub, 1 pushed repair | violation | section 5 |
| `scope` | as `local_executor` | violation | section 5 |

The bounds and why they are enough.

- Two requests at a time: all the overlap hazards are between two requests.
  `MaxConcurrency` is 1, the value of the default settings.
- `ExecutionRuns`: one run suffices where the property is about one row; a second
  row interacts with it only through the task, the limit and the idempotence
  check, and these are what `serial` has two rows for. `overlap` leaves out
  resume, with which `ClaimedOnce` fails (section 5).
- `DemandPipeline`: two specs make "the latest" differ from "the one loaded". One
  task, since the demand-wide facts (risk, approvals) do not depend on the task.
  One attempt per provider: retries repeat a step that changes nothing.
- `MergeReview`: one caller that may be anything overlaps one that syncs.
  `Checked` names, for each commit a run may record, the commits whose checks
  report: here the recorded one, since no sync reads the checks of another, and a
  webhook about another does to the record what one about a merge does.
  With `Providers <- GitHub` both properties hold too, for a run that records the
  base and for one that records the head (620 970 and 592 014 states). Two checks
  add words, no case: signals are read as a set.
- `Deployments`: two records and a limit of 1 make the list longer than a pass.
  Two jobs give mixed statuses. `MaxDeaf` must be below `Limit` (section 5).
- `LocalExecutor`: `.backend/x`, `backend/x` and `docs/x` with `backend` allowed:
  a file that is cut to one in scope, one in scope, one that is cut to nothing.
- `SymphonyWorker`: two commands give a heartbeat between commands; lease 6 is the
  smallest that `WorkerAssumption` admits; the default is 300 seconds longer than
  a command.
- `DeliveryGuide`: four troubles (calls nobody suggested, failed runs, blocked
  reviews, failed deployments) reach every combination of two mishaps in two
  stages; with five and with six the properties hold as well.

`CHECK_DEADLOCK FALSE` stands where the system may really stop: all rows are used
up, all runs have ended, the dispatch has returned, the delivery is complete.

## 5. What the code does that its documents or its purpose deny

Two runs expect a violation; `PROJECT.json` quotes the documents.

| Run | Property | Document says | The code |
|---|---|---|---|
| `repair_stale` | `PassedIsCurrent` | check states can be synced, also after a repair (`README.md:37`) | the sync after a pushed repair fetches the checks of the commit before it and passes a review whose head fails |
| `scope` | `SucceededIsInScope` | out-of-scope changes fail the run (`docs/v2-verification-guide.md:457`) | the first modified path loses its first character, and what is left is compared with the allowed paths: a modified `.backend/x` passes as `backend/x` |

These are known too. Each configuration violates the property it names
(`tlc -config X.cfg M`), and is not among the runs of `PROJECT.json`.

| Configuration | Property | Document says | The code |
|---|---|---|---|
| `LocalExecutorReports` | `ReportsChanges` | `changed_files` includes the files changed by the command (`docs/v2-verification-guide.md:452`) | the path that lost its first character is not reported |
| `ExecutionRunsCreateRace` | `OneActiveRun` | a repeated creation returns the active run (`docs/symphony-bridge-s1-runbook.md:171`) | two overlapping creations insert two |
| `ExecutionRunsStartRace` | `WithinCapacity` | at the limit queued runs remain queued (`docs/v2-verification-guide.md:715`) | two overlapping starts both count below the limit |
| `ExecutionRunsCancelRace` | `CancelledIsFinal` | a late complete is refused after a cancel (`docs/symphony-bridge-s1-runbook.md:170`) | a complete that has passed its check overwrites the cancel |
| `ExecutionRunsDeferRace` | `AbandonedRunEnds` | an expired run is ended, nothing hangs for ever (`docs/symphony-integration-plan.md:278`) | a dispatch that overlaps a claim wipes owner and lease; recovery never finds the run |
| `ExecutionRunsRequeueRace` | `ClaimedOnce` | a claimed run with a live lease cannot be claimed again (`docs/symphony-integration-plan.md:157`) | a pause that read the run as queued commits over the claim; after a resume it is claimed again |
| `ExecutionRunsCancelWorker` | `TaskExecutedOnce` | a task is not executed by several workers (`docs/production-readiness-plan.md:318`) | cancel, retry and claim put a second worker beside the first; no overlap needed |
| `ExecutionRunsCancelLocal` | `ExecutorsWithinCapacity` | local load is limited (`docs/v2-execution-roadmap.md:219`) | a cancel frees the slot while the executor works on; no overlap needed |
| `DeploymentsStarved` | `PendingIsResolved` | pending deployments are polled (`docs/v2-verification-guide.md:919`) | as many records that cannot be told as the limit of a pass starve the others |

So what `lifecycle`, `serial` and `recovery` show of active runs, of the limit, of
outcomes and of abandoned runs is shown of requests one at a time and of nothing
else: it catches none of the races above, and `PROJECT.json` names no property
for these hazards. A second creation of a merge request beside a first
(`service.py:1765`) and a local run whose backend has died (`service.py:2723`)
are hazards of the same kind: no property covers them.

What a sync judges. The run of a codex task records the commit its worktree began
with, and no later handler corrects it; a sync therefore asks for the checks of a
commit of the base branch. Its pipeline may have been successful before the
request was opened, and then the first sync of an approved request passes the
review although nothing has checked the change. No document excludes it
(`README.md:249` speaks of the commit's CI, without saying which commit), so it is no run here;
`PassHasCause` lists it among the causes (`ForgeCause`), and it is a hazard of
`PROJECT.json` at `service.py:2758`.

Where the guide leaves people alone (`NoCall`, `Refused`, `Circles` of
`DeliveryGuide`; `GuideCompletes` shows that there are no other places):

| State | What happens |
|---|---|
| the latest spec needs a review, the demand was approved earlier | "wait for the spec", for ever |
| the impact analysis needs a review | "review the impact": no call exists, and nothing changes its status |
| the repository context is not good enough | "collect it": the call returns the same context unless asked to refresh |
| a draft task with a refused run | repair and retry are both suggested, both are refused |
| a blocking review of a high-risk demand, or one without evidence | the repair is suggested and refused |
| the merge request is closed at the forge | the repair is accepted, and the next sync finds it closed again |
| a review repair that a Symphony worker makes | it is neither pushed nor noted: the repair is suggested again |
| a refused run created beside a paused one | the retry returns the paused run, the guide looks at the refused one |
| a pending deployment without a status URL | the sync is suggested and refused |
| a succeeded run without a source branch (the local executor, or a Symphony completion that names none) | the merge request is suggested and refused |

After a cancelled or blocked run the first of the two suggestions, the automatic
repair, is refused (it is for failed checks); the second, the retry, is accepted.

## 6. Fairness

`FairSpec` adds what the deployment gives and no more.

- `ExecutionRuns`: time passes, so a live lease expires unless it is renewed. A
  request that reads and writes ends, by its commit or by an error; so does an
  executor, whose commands have a timeout (`SF Refresh`: its commit waits for
  other requests when serialized). Workers poll for ever (`run_loop`), and each
  poll first recovers expired runs. Nothing is assumed of clients, heartbeats or
  completions.
- `SymphonyWorker`: `Tick` (time passes), `Works` (a step ends, if only with an
  error; every call and command has a timeout), `Polls` (the loop catches every
  exception and polls again).
- `LocalExecutor`: `Dispatch`, since every command has a timeout.
- `Deployments`: remote jobs end; the polling loop goes on and its process is
  restarted; strong fairness of the answer about each record and of the commit
  that follows it: a provider asked again and again answers properly at last, and
  the process is not killed every time just before that commit. `OperatorsCease`:
  syncs by operators that are answered by nothing take the top of the list from
  the others and do not go on for ever.
- `MergeReview`: syncs are called again and again and commit at some time; other
  calls end. `SyncConverges` says what follows once nothing but syncs goes on.
- `DeliveryGuide`: `People`, somebody goes on as long as there is a call that
  changes something (with the troubles used up these are the suggested ones), and
  `Executor`, runs end. What goes wrong is bounded by `MaxTroubles`: nothing is
  promised to those for whom everything goes wrong for ever.

## 7. Proofs

All theorems hold for every value of the constants, every number of runs, tasks,
workers and requests, under the modules' assumptions only (`LifecycleAssumption`,
`ExecutionAssumption`, `WorkerAssumption`, `PipelineAssumption`,
`FilesAssumption`, `LinkAssumption`, `MergeReviewAssumption`, `DeploymentsAssumption`,
`GuideAssumption`), which TLC evaluates in the runs that extend the modules. Seven
theorems about `ExecutionRuns` have a further hypothesis, written in the theorem:
`Serialized`, or `"resume" \notin Calls`; section 5 shows what happens without.
Every safety property of the passing runs is a theorem. The inductive invariants
`SerialInv`, `HoldingInv`, `ReviewInv`, `DeployInv` and `GuideInv` also hold in TLC on
the instances of the runs.

`RunLifecycleProofs`: `LifecycleOneActiveRun`, `LifecycleWithinCapacity` and
`LifecycleFinalIsForever`. The limit needs that the running runs are a finite
set and that a start adds one element to it, the others none.

`ExecutionRunsProofs`, for overlapping as well as serialized requests:

- `TypeCorrect`. `TypeOK` is inductive once one knows that a claim in flight is
  a worker's (`ClaimHasWorker`); without it a claim could add "no worker" to the
  holders of a run.
- `HighRiskNeedsApproval`: `Spec => []NoUnapprovedHighRisk`. The invariant
  alone is not inductive: a request may have read a run it must not start, or
  carry a gate decision made for another task. `ApprovalInv` adds `Permitted`
  for every request: the runs it has loaded exist, are not blocked and need no
  approval or have it; a gate that has passed has passed for the one task it
  has loaded; a retry or a creation has loaded one task. It is kept because
  approvals are never withdrawn and no handler changes the task of a run
  (`RowsKept`).
- `BlockedStays`: `Spec => BlockedIsFinal`, by the same invariant: no request
  ever has a blocked run among the rows it writes, and a row that exists never
  becomes blocked.
- `ClaimWonOnce`: `Spec => []ClaimedOnce` when nobody resumes. `HoldingInv` adds
  that a waiting run has no worker (`QueuedIsFree`), else the next claim gives it
  a second one, and that a request which is to write "queued" has read "queued"
  (`KeepsQueue`), so that its flush writes no status. A pause may overlap a
  claim and leave a paused run with a worker; it is the resume that queues it.

With requests one at a time (`Serialized`): `TasksFollowRuns`,
`CompletionIsEarned`, `RunningRunsHaveLease`, `QueueImplementsLifecycle`,
`OneActiveRunPerTask` and `RunningWithinLimit`. They rest on one invariant,
`SerialInv`. None of them is inductive: a commit keeps them because of what its
request read earlier. `Sound` says this of every request: its copies agree with
the rows (`Fresh`), its run is in a status the operation starts from (`MayWrite`),
its task is the run's and a creation has seen every active run of its task
(`ItsTask`), and a start has counted less than the limit. `OneAtATime` keeps the
copies fresh. An executor is the exception, since others are served while it
works; of it one knows that it is alone with its run (`ExecutesAlone`) and that
the run is still running or cancelled. For the refinement every load is shown to
be a stutter and every commit a step of `RunLifecycle` (`Mapped`); a recovery
that ends several runs is a step of several of them at once.

`SymphonyWorkerProofs`: `WorkerTypeCorrect`, `LeaseIsKept`, `SuccessComplete` and
`OutcomeIsKept`. What a worker may rely on while it works is three invariants:
`Claimed`, the run of a worker past its claim is not in the queue again; `Counted`, the
numbers of commands done and failed that belong to each step; `Timed`, for every
step a bound on the age of the lease, the sum of what the steps since the last
renewal may have taken. `WorkKeepsLease` follows since the largest of these
bounds, a command with four calls, is below the lease (`WorkerAssumption`).
`SuccessIsComplete` needs `Counted` at the step "complete", the only one that asks
for a success.

`DemandPipelineProofs`: `PipelineTypeCorrect`, `HighRiskWaits` and `DraftWaits`.
`HighRiskIsReviewed` speaks of rows only, but a request may carry a permission
that it decided on before it awaited a provider. The invariant adds `Prepared`,
what a request is about to write, `Startable`, that a task which executes or is
about to be retried is no draft, and `NoPermission`: while nobody has approved a
high-risk demand, no request holds a task decision "ready", a retry or a passed
gate, and `risk` is on record before there is a spec or a task (an empty `risk`
would pass the retry's check). `DraftWaits` follows from the same invariant, one
step for each handler that writes tasks; a new task takes the place of no other
since `Latest` is the highest id in use (`LatestIsHighest`, by well-founded
minima, without recursion).

`LocalExecutorProofs`: `ExecutorTypeCorrect`, `SuccessIsChecked` and
`SuccessIsInScope` (which says `OnlyACutPathEscapes`). `Passed` says what lies behind a dispatch at each step,
`Observed` what lies behind one that has come to its checks. The scope is judged
by reported names of which one may be cut, and a cut name may lie anywhere
(`FilesAssumption` gives types only). So a succeeded run is in scope except for
one file: `ReportedInScope` shows that a file which is listed, lies out of scope
and is not noticed is the first one, is modified and is cut to a path in scope.
That it does happen is the run `scope`.

`MergeReviewProofs`: `MergeReviewTypeCorrect` and `PassedHasCause`. The cause of a
passed review lies before the commit that writes it, and the forge may have
changed since. `ReviewInv` says that a request which is to write "passed" has a
cause that the forge remembers (`Sound`), and that a successful check is one for
ever, of the request's own commits in `passed` and of the base in `green`
(`SuccessIsKept`); a verdict passes on a successful check only
(`VerdictFacts`), which an empty set of checks would break, and such a check is
one of the commit the run records, hence a cause (`RecordedSuccess`). That a
record keeps a status and a review when single columns are written needs that a
request past its load finds a record (`Loaders`).

`DeploymentsProofs`: `DeploymentsTypeCorrect`, `FinalStatusIsTold` and
`WorkerKeepsFinalStatus`. `Told` relates a status to the provider's jobs;
`DeployInv` says it of every record and of what every request and pass is about
to write (`RequestSound`, `PassSound`). A pass writes from a row it loaded as
pending; that it takes back no final status follows since what it was told and
what the record says are both true of the same jobs, which do not change once
they have ended.

`DeliveryGuideProofs`: `GuideTypeCorrect` and `GuideIsAccepted`. The guide reads
other rows than the handlers check. `GuideInv` relates the two: the latest run
is the active one unless it has ended, a task runs for an active run, the spec
of a high-risk demand was approved by a human, a success leaves a completed task
and no active run, a codex run that succeeded has a source branch
(`CodexHasBranch`), and only a remote provider makes a deployment wait. Each
suggested call is then one case.

What the proofs changed in the models. Two definitions of `DeliveryGuide` had
CASE arms that overlap, of which TLA+ may take any; they are chains of IF now,
in the order of the code's `if` statements. `Deployments` states the order of
updates and the rows of a pass by what they are (`Touched`, `IsPage`) instead of
by filtering sequences; its state graph is the same.

Out of the prover's reach and left to TLC: liveness under fairness
(`AbandonedRunEnds`, `ClaimedRunEnds`, `DispatchEnds`, `PendingIsResolved`,
`SyncConverges`, `GuideCompletes`), and ENABLED with it. No module uses a
RECURSIVE operator.

## 8. Not modelled

- Authentication and project access: who may make a call. In the models anybody
  makes any call at any time, so what they show does not rest on it.
- Secrets, provider health, project configuration: a credential that cannot be
  resolved is one more error of a provider or forge, and these are modelled.
- Observability, onboarding, traces, audit: they read, count and format; no
  decision reads what they write.
- File names that git quotes (blanks at the ends, non-ASCII names, a name with
  " -> " in it) and the path a renamed file came from: `Files` are names git
  prints as they are.
- Redaction, prompts, drafts, descriptions, summaries: the contents of strings.
  The one place where redacted text is compared (required checks and command
  results in `_validate_completion`) is an input of the models.
- The completion's validation itself: its answer is an input of `ExecutionRuns`
  and `SymphonyWorker` (planned as `CompletionRules`).
- Processes that outlive a killed shell in `SymphonyWorker`, files a check changes
  after the comparison, residue of earlier runs in a workspace: hazards with
  notes in `PROJECT.json`.
- Migrations, backups, alerts, start scripts, frontend: tooling and clients.
