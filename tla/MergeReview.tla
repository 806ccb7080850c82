---------------------------- MODULE MergeReview ----------------------------
(***************************************************************************)
(* The merge request of one succeeded run and its review (DeliveryService  *)
(* and the clients of merge_requests/): created at a forge, reviewed by    *)
(* people, synced from the forge, moved by the forge's webhooks, repaired  *)
(* by further runs that are pushed to its branch.                          *)
(*                                                                         *)
(* A request loads the record, awaits the forge, a repository or a run,    *)
(* and commits; it writes a column only if the new value differs from the  *)
(* one it has loaded.  The record of a second creation is not followed.    *)
(* An operator X_Bug before an operator X is X with a bug: no part of the  *)
(* model.                                                                  *)
(***************************************************************************)
EXTENDS Naturals, FiniteSets

CONSTANTS
    Callers,     \* bound: calls served at a time
    Syncers,     \* bound: further calls served at a time that only sync
    Providers,   \* the providers the task may use
    Recorded,    \* the commits the task's run may record
    Webhooks,    \* whether the webhook secrets are configured
    Checks,      \* the checks of a commit
    Checked,     \* bound: Checked[r]: if the run records r, the commits whose
                 \* checks report anything
    Outcomes,    \* bound: what they may report
    Attempts,    \* attempts of a repair, at most 3
    MaxPushes    \* bound: repairs pushed

ASSUME MergeReviewAssumption ==
    /\ Providers \subseteq {"local", "gitlab", "github"}
    /\ Recorded \subseteq {"base", "head", "none"}
    /\ Webhooks \in BOOLEAN
    /\ Outcomes \subseteq {"pending", "success", "failed"}
    /\ Attempts \in 1 .. 3
    /\ MaxPushes \in Nat

\* 0: the commit the run's branch began with; 1: what the branch held when the
\* request was opened; then what repairs have pushed.
Commits == 0 .. MaxPushes + 1
Requests == Callers \cup Syncers

VARIABLES
    provider,   \* MergeRequestRecord.provider
    recorded,   \* which commit ExecutionRun.commit_sha is
    mr,         \* the record's status and review_status
    forge,      \* the merge request as it is at the forge
    req         \* what each slot does

vars == <<provider, recorded, mr, forge, req>>

-----------------------------------------------------------------------------

Statuses == {"none", "created", "reviewing", "review_passed",
             "review_blocked", "closed"}
Reviews == {"none", "pending", "passed", "blocking"}
Pair == [status : Statuses, review : Reviews]

NoPair == [status |-> "none", review |-> "none"]
Passed == [status |-> "review_passed", review |-> "passed"]
Blocked == [status |-> "review_blocked", review |-> "blocking"]
Closed == [status |-> "closed", review |-> "blocking"]
Open == [status |-> "reviewing", review |-> "pending"]

States == {"none", "open", "closed", "merged"}

\* issues: an unresolved thread (GitLab), a request for changes (GitHub);
\* waits: a draft, or reviewed and approved by nobody (GitHub); passed: it was
\* merged or a check of a commit of its own has once been successful; green: a
\* check of commit 0 has.
Forge == [state : States, issues : BOOLEAN, waits : BOOLEAN,
          passed : BOOLEAN, green : BOOLEAN,
          checks : [Commits -> [Checks -> Outcomes \cup {"none"}]], head : Commits]

Ops == {"idle", "create", "posted", "sync", "looked", "told", "review",
        "hook", "repair", "push", "mark"}

\* old: the pair as loaded; new: what is to be written, "none" for a column
\* that stays; page: what the request, its threads and its reviews have shown.
Pages == {"none", "closed", "issues", "waits", "ready"}
Request == [op : Ops, old : Pair, new : Pair, page : Pages, attempt : 0 .. Attempts]
Idle == [op |-> "idle", old |-> NoPair, new |-> NoPair, page |-> "none", attempt |-> 0]

Begin(op) == [Idle EXCEPT !.op = op, !.old = mr]
EndRequest(q) == req' = [req EXCEPT ![q] = Idle]

\* The columns of new that differ from those loaded, and their flush.
Changed(old, new) ==
    [status |-> IF new.status = old.status THEN "none" ELSE new.status,
     review |-> IF new.review = old.review THEN "none" ELSE new.review]
Flushed(new) ==
    [status |-> IF new.status = "none" THEN mr.status ELSE new.status,
     review |-> IF new.review = "none" THEN mr.review ELSE new.review]

\* The checks of _merge_request_commit_sha: of the commit the run records, which
\* is where a codex run's worktree began, before the command committed anything,
\* or what a symphony worker's branch held when it completed, if its completion
\* says so at all; latest_repair_commit_sha is not read.
NoChecks == [k \in Checks |-> "none"]
RecordedChecks ==
    CASE recorded = "base" -> forge.checks[0]
      [] recorded = "head" -> forge.checks[1]
      [] recorded = "none" -> NoChecks

-----------------------------------------------------------------------------
(* What a sync makes of the forge's answers: _blocking_issues and           *)
(* _normalized_review_state of the two clients.                             *)

Signals(checks) == {checks[k] : k \in Checks} \ {"none"}

\* Draft requests of GitLab and merged requests are judged by their checks.
PageOf(f) ==
    CASE f.state = "closed" -> "closed"
      [] f.state # "closed" /\ f.issues -> "issues"
      [] OTHER -> IF f.waits THEN "waits" ELSE "ready"

Verdict_Vacuous(page, checks) ==
    IF page = "closed" THEN Closed
    ELSE IF page = "issues" \/ "failed" \in Signals(checks) THEN Blocked
    ELSE IF page = "ready" /\ Signals(checks) \subseteq {"success"}
         THEN Passed ELSE Open
Verdict(page, checks) ==
    IF page = "closed" THEN Closed
    ELSE IF page = "issues" \/ "failed" \in Signals(checks) THEN Blocked
    ELSE IF page = "ready" /\ Signals(checks) = {"success"}
         THEN Passed ELSE Open

-----------------------------------------------------------------------------
(* create_merge_request_record *)

CreateLoad(q) ==
    /\ req[q].op = "idle"
    /\ mr = NoPair
    /\ req' = [req EXCEPT ![q] = Begin("create")]
    /\ UNCHANGED <<provider, recorded, mr, forge>>

\* The branch is pushed and the request opened.  GitHub may then refuse the
\* labels: the call fails and the pull request stays, without a record.
CreatePost(q, labelled) ==
    /\ req[q].op = "create"
    /\ forge.state = "none"
    /\ (~labelled => provider = "github")
    /\ forge' = [forge EXCEPT !.state = IF provider = "local" THEN @ ELSE "open"]
    /\ req' = [req EXCEPT ![q] = IF labelled THEN [@ EXCEPT !.op = "posted"] ELSE Idle]
    /\ UNCHANGED <<provider, recorded, mr>>

CreateCommit_Again(q) ==
    /\ req[q].op = "posted"
    /\ mr' = [status |-> "created", review |-> "none"]
    /\ EndRequest(q)
    /\ UNCHANGED <<provider, recorded, forge>>
CreateCommit(q) ==
    /\ req[q].op = "posted"
    /\ mr' = IF mr = NoPair THEN [status |-> "created", review |-> "pending"] ELSE mr
    /\ EndRequest(q)
    /\ UNCHANGED <<provider, recorded, forge>>

-----------------------------------------------------------------------------
(* sync_merge_request_remote_review *)

SyncLoad(q) ==
    /\ req[q].op = "idle"
    /\ mr # NoPair
    /\ provider # "local"
    /\ req' = [req EXCEPT ![q] = Begin("sync")]
    /\ UNCHANGED <<provider, recorded, mr, forge>>

\* The checks are fetched after the request, its threads and its reviews.
SyncLook(q) ==
    /\ req[q].op = "sync"
    /\ req' = [req EXCEPT ![q].op = "looked", ![q].page = PageOf(forge)]
    /\ UNCHANGED <<provider, recorded, mr, forge>>

SyncChecks(q) ==
    /\ req[q].op = "looked"
    /\ req' = [req EXCEPT ![q] = [Idle EXCEPT !.op = "told",
                    !.new = Changed(req[q].old, Verdict(req[q].page, RecordedChecks))]]
    /\ UNCHANGED <<provider, recorded, mr, forge>>

SyncCommit_KeepsPassed(q) ==
    /\ req[q].op = "told"
    /\ mr' = IF mr = Passed THEN mr ELSE Flushed(req[q].new)
    /\ EndRequest(q)
    /\ UNCHANGED <<provider, recorded, forge>>
SyncCommit(q) ==
    /\ req[q].op = "told"
    /\ mr' = Flushed(req[q].new)
    /\ EndRequest(q)
    /\ UNCHANGED <<provider, recorded, forge>>

-----------------------------------------------------------------------------
(* record_merge_request_review *)

ReviewLoad(q) ==
    /\ req[q].op = "idle"
    /\ mr # NoPair
    /\ req' = [req EXCEPT ![q] = Begin("review")]
    /\ UNCHANGED <<provider, recorded, mr, forge>>

\* Blocking issues make any review a blocking one; what is not passed blocks
\* the request, pending reviews too.
ReviewCommit(q, said, blockers) ==
    /\ req[q].op = "review"
    /\ said \in {"pending", "passed", "blocking"}
    /\ LET review == IF blockers THEN "blocking" ELSE said
           new == IF review = "passed" THEN Passed ELSE [Blocked EXCEPT !.review = review]
       IN mr' = Flushed(Changed(req[q].old, new))
    /\ EndRequest(q)
    /\ UNCHANGED <<provider, recorded, forge>>

-----------------------------------------------------------------------------
(* handle_gitlab_webhook and handle_github_webhook *)

\* An event of any earlier moment, late or once more: merged or a successful
\* check; closed; an issue or a failed check; anything else.
HookLoad(q, event) ==
    /\ Webhooks
    /\ req[q].op = "idle"
    /\ mr # NoPair
    /\ event = Passed => forge.passed
    /\ forge.state # "none"
    /\ req' = [req EXCEPT ![q] = [Idle EXCEPT !.op = "hook", !.new = Changed(mr, event)]]
    /\ UNCHANGED <<provider, recorded, mr, forge>>

HookCommit(q) ==
    /\ req[q].op = "hook"
    /\ mr' = Flushed(req[q].new)
    /\ EndRequest(q)
    /\ UNCHANGED <<provider, recorded, forge>>

-----------------------------------------------------------------------------
(* auto_repair_merge_request_review *)

RepairLoad(q) ==
    /\ req[q].op = "idle"
    /\ mr.review = "blocking" \/ mr.status = "review_blocked"
    /\ req' = [req EXCEPT ![q] = [Idle EXCEPT !.op = "repair", !.new = Changed(mr, Open)]]
    /\ UNCHANGED <<provider, recorded, mr, forge>>

\* Only a run that failed with evidence of failed checks is repaired again.
RepairRun(q, outcome) ==
    /\ req[q].op = "repair"
    /\ LET attempt == req[q].attempt + 1
       IN req' = [req EXCEPT ![q] =
            CASE outcome = "succeeded" -> [@ EXCEPT !.op = "push", !.attempt = 0]
              [] outcome = "failed" /\ attempt < Attempts -> [@ EXCEPT !.attempt = attempt]
              [] OTHER -> Idle]
    /\ UNCHANGED <<provider, recorded, mr, forge>>

\* MERGE_REQUEST_AUTO_PUSH_ENABLED; nothing is pushed for a local request.
RepairPush(q, enabled) ==
    /\ req[q].op = "push"
    /\ enabled => forge.state # "none" /\ forge.head <= MaxPushes
    /\ forge' = IF enabled THEN [forge EXCEPT !.head = @ + 1] ELSE forge
    /\ req' = [req EXCEPT ![q].op = "mark"]
    /\ UNCHANGED <<provider, recorded, mr>>

RepairMark(q) ==
    /\ req[q].op = "mark"
    /\ mr' = Flushed(req[q].new)
    /\ EndRequest(q)
    /\ UNCHANGED <<provider, recorded, forge>>

\* An error of the forge, the push or the database, or the backend dies.
Abandon(q) ==
    /\ req[q].op # "idle"
    /\ EndRequest(q)
    /\ UNCHANGED <<provider, recorded, mr, forge>>

-----------------------------------------------------------------------------
(* The forge: people close, open and merge; threads and checks go on. *)

ForgeState(state) ==
    /\ forge.state \in {"open", "closed"}
    /\ state \in {"open", "closed", "merged"} \ {forge.state}
    /\ forge' = [forge EXCEPT !.state = state, !.passed = @ \/ state = "merged"]
    /\ UNCHANGED <<provider, recorded, mr, req>>

\* GitHub lists a request for changes for ever.
ForgeReview(issues, waits) ==
    /\ forge.state # "none"
    /\ waits => provider = "github"
    /\ forge.issues /\ provider = "github" => issues
    /\ forge' = [forge EXCEPT !.issues = issues, !.waits = waits]
    /\ forge' # forge
    /\ UNCHANGED <<provider, recorded, mr, req>>

\* Checks of the commit the branch began with are the base's, and those of the
\* branch may be there before the request is.
ForgeCheck(c, k, outcome) ==
    /\ provider # "local"
    /\ c \in Checked[recorded] \cap {0, forge.head}
    /\ outcome # forge.checks[c][k]
    /\ forge' = [forge EXCEPT !.checks[c][k] = outcome,
                              !.passed = @ \/ (c # 0 /\ outcome = "success"),
                              !.green = @ \/ (c = 0 /\ outcome = "success")]
    /\ UNCHANGED <<provider, recorded, mr, req>>

-----------------------------------------------------------------------------

Init ==
    /\ provider \in Providers
    /\ recorded \in Recorded
    /\ mr = NoPair
    /\ forge = [state |-> "none", issues |-> FALSE, waits |-> FALSE,
                passed |-> FALSE, green |-> FALSE,
                checks |-> [c \in Commits |-> NoChecks], head |-> 1]
    /\ req = [q \in Requests |-> Idle]

Sync(q) == SyncLoad(q) \/ SyncLook(q) \/ SyncChecks(q) \/ SyncCommit(q)

Person(q) ==
    \/ CreateLoad(q) \/ CreateCommit(q)
    \/ \E labelled \in BOOLEAN : CreatePost(q, labelled)
    \/ ReviewLoad(q)
    \/ \E said \in Reviews, blockers \in BOOLEAN : ReviewCommit(q, said, blockers)

Repair(q) ==
    \/ RepairLoad(q) \/ RepairMark(q)
    \/ \E outcome \in {"succeeded", "failed", "other"} : RepairRun(q, outcome)
    \/ \E enabled \in BOOLEAN : RepairPush(q, enabled)

Hook(q) ==
    \/ HookCommit(q)
    \/ \E event \in {Passed, Blocked, Closed, Open} : HookLoad(q, event)

ForgeMoves ==
    \/ \E state \in States : ForgeState(state)
    \/ \E issues, waits \in BOOLEAN : ForgeReview(issues, waits)
    \/ \E c \in Commits, k \in Checks, outcome \in Outcomes : ForgeCheck(c, k, outcome)

Next ==
    \/ \E q \in Callers : Person(q) \/ Repair(q) \/ Hook(q)
    \/ \E q \in Requests : Sync(q) \/ Abandon(q)
    \/ ForgeMoves

Spec == Init /\ [][Next]_vars

\* Syncs are called again and again and are not abandoned for ever; any other
\* call ends, if only with a timeout of the forge, the push or the run.
Fairness ==
    \A q \in Requests :
        /\ WF_vars(SyncLoad(q)) /\ WF_vars(SyncLook(q)) /\ WF_vars(SyncChecks(q))
        /\ SF_vars(SyncCommit(q))
        /\ WF_vars(req[q].op \in Ops \ {"idle", "sync", "looked", "told"} /\ Abandon(q))

FairSpec == Spec /\ Fairness

-----------------------------------------------------------------------------
(* Properties. *)

TypeOK ==
    /\ provider \in Providers
    /\ recorded \in Recorded
    /\ mr \in {NoPair} \cup [status : Statuses \ {"none"}, review : Reviews \ {"none"}]
    /\ forge \in Forge
    /\ req \in [Requests -> Request]

\* What the forge has once said or done for which a review may pass.
ForgeCause == forge.passed \/ (recorded = "base" /\ forge.green)

\* A review becomes passed only when a person records so, or after the forge
\* has merged the request or reported a successful check of a commit of its
\* own, or of the commit its run's branch began with when that is the one the
\* run records: requests that overlap and write single columns never make up a
\* passed review, and no sync takes the absence of checks for their success
\* (_normalized_review_state, _merge_request_commit_sha).
PassHasCause ==
    [][mr.review # "passed" /\ mr'.review = "passed" =>
          \/ ForgeCause
          \/ \E q \in Callers : ReviewCommit(q, "passed", FALSE)]_vars

\* When nothing but syncs goes on and the forge stands still, the record ends
\* with the pair the request's state and the checks of the recorded commit call
\* for, both columns of it, whatever pair the requests before have left
\* (sync_merge_request_remote_review).
OnlySyncs ==
    [][\/ \E q \in Requests : Sync(q)
       \/ UNCHANGED vars]_vars
SyncConverges ==
    (<>OnlySyncs /\ <>(mr # NoPair) /\ provider # "local") =>
        <>[](mr = Verdict(PageOf(forge), RecordedChecks))

\* A sync that passes a review has not left out a failed check of what the
\* branch of the request now holds: after a repair the review "should be
\* synced again" (_mark_merge_request_repair_pushed).
PassedIsCurrent ==
    [][\A q \in Requests :
          SyncChecks(q) /\ Verdict(req[q].page, RecordedChecks) = Passed =>
              "failed" \notin Signals(forge.checks[forge.head])]_vars
=============================================================================
