---------------------------- MODULE Deployments ----------------------------
(***************************************************************************)
(* Test deployments of one reviewed merge request (DeliveryService,        *)
(* WebhookDeployClient) and the worker that polls the pending ones         *)
(* (deployment_sync_worker).                                               *)
(*                                                                         *)
(* A request loads its rows, awaits the provider, and commits.  The worker *)
(* loads all pending records of a pass at once and keeps them, as loaded,  *)
(* until the pass ends (expire_on_commit = False).  A session writes a     *)
(* column only if the new value differs from the one it has loaded.        *)
(* An operator X_Bug before an operator X is X with a bug: no part of the  *)
(* model.                                                                  *)
(***************************************************************************)
EXTENDS Naturals, Sequences, FiniteSets

CONSTANTS
    MaxRecords,  \* bound: deployments asked of the provider or recorded
    Jobs,        \* the jobs of a remote deployment
    Operators,   \* bound: API requests served at a time
    Scanners,    \* workers, and API calls of sync-pending
    Limit,       \* records a pass looks at
    MaxDeaf      \* bound: pending records whose remote status stays unknown

ASSUME DeploymentsAssumption ==
    /\ MaxRecords \in Nat
    /\ Limit \in Nat \ {0}
    /\ MaxDeaf \in Nat
    /\ Jobs # {}

Records == 1 .. MaxRecords

VARIABLES
    record,    \* the deploy records
    recent,    \* ids of records, the most recently updated first
    remote,    \* what runs at the provider for each record
    req,       \* the request each operator's slot serves
    scan       \* the pass each scanner is in

vars == <<record, recent, remote, req, scan>>

-----------------------------------------------------------------------------
(* What the provider reports, and what the client makes of it.              *)

Outcome == {"pending", "deployed", "failed"}

\* summary: the answers have a status of the whole; items: only the statuses
\* of jobs; silent: no status at all; local: nothing runs.
Kinds == {"none", "local", "summary", "items", "silent"}

Remote == [kind : Kinds, jobs : [Jobs -> Outcome]]
Body == [whole : SUBSET Outcome, items : SUBSET Outcome]

Statuses(d) == {d.jobs[j] : j \in Jobs}

Whole(d) == IF "pending" \in Statuses(d) THEN "pending"
            ELSE IF "failed" \in Statuses(d) THEN "failed" ELSE "deployed"

Garbled == [whole |-> {}, items |-> {}]
BodyOf(d) ==
    CASE d.kind = "summary" -> [whole |-> {Whole(d)}, items |-> Statuses(d)]
      [] d.kind = "items" -> [whole |-> {}, items |-> Statuses(d)]
      [] OTHER -> Garbled

\* _choose_status_signal, with the status words already normalised.
Chosen_Optimist(signals) ==
    IF "deployed" \in signals THEN "deployed"
    ELSE IF "failed" \in signals THEN "failed" ELSE "pending"
Chosen(signals) ==
    IF "failed" \in signals THEN "failed"
    ELSE IF "pending" \in signals THEN "pending" ELSE "deployed"

\* _raw_status: a status of the whole goes before those of its parts.
RawStatus(body) ==
    IF body.whole # {} THEN Chosen(body.whole)
    ELSE IF body.items # {} THEN Chosen(body.items) ELSE "none"

\* An answer without a status: after the POST a status URL is a promise of
\* one, and without the URL the deployment counts as done.
StatusAfterPost(body, pollable) ==
    IF RawStatus(body) # "none" THEN RawStatus(body)
    ELSE IF pollable THEN "pending" ELSE "deployed"

StatusAfterGet_Raw(body) == RawStatus(body)
StatusAfterGet(body) ==
    IF RawStatus(body) # "none" THEN RawStatus(body) ELSE "pending"

-----------------------------------------------------------------------------

Record == [status : Outcome \cup {"none"}, pollable : BOOLEAN]

Ops == {"idle", "create", "answered", "mark", "sync", "told"}

\* r: the record, or the one redeployed; status: as loaded; out: to be written.
Request == [op : Ops, local : BOOLEAN, again : BOOLEAN, r : 0 .. MaxRecords,
            pollable : BOOLEAN, status : Outcome \cup {"none"},
            out : Outcome \cup {"none"}]
Idle == [op |-> "idle", local |-> FALSE, again |-> FALSE, r |-> 0,
         pollable |-> FALSE, status |-> "none", out |-> "none"]

Pass == [queue : Seq(Records), out : Outcome \cup {"none"}]
NoPass == [queue |-> <<>>, out |-> "none"]

Flushed_Always(current, loaded, new) == new
Flushed(current, loaded, new) == IF new = loaded THEN current ELSE new

\* updated_at moves with every commit that writes the record: it is at the top
\* then, and those that were before it move down.
Listed(r) == \E i \in DOMAIN recent : recent[i] = r
Place(r) == CHOOSE i \in DOMAIN recent : recent[i] = r
Touched(r) ==
    LET place == IF Listed(r) THEN Place(r) ELSE Len(recent) + 1
    IN  [i \in DOMAIN recent \cup {place} |->
            IF i = 1 THEN r ELSE recent[IF i <= place THEN i - 1 ELSE i]]

Exists(r) == record[r].status # "none"

\* Pending, but never to be told anything else: no status URL, or no status.
IsDeaf(status, pollable, kind) ==
    status = "pending" /\ (~pollable \/ kind = "silent")
Deaf(r) == IsDeaf(record[r].status, record[r].pollable, remote[r].kind)
AllDeaf ==
    {r \in Records :
        \/ Deaf(r)
        \/ \E q \in Operators :
              /\ req[q].r = r
              /\ IsDeaf(req[q].out, req[q].pollable, remote[r].kind)}

Rows == <<record, recent, remote>>

EndRequest(q) == req' = [req EXCEPT ![q] = Idle]

-----------------------------------------------------------------------------
(* create_deploy_record and redeploy_deploy_record *)

\* The check that the review is passed reads a column that reviews, webhooks
\* and repairs move at any time: whether a call passes it is left open here.
CreateLoad(q, local) ==
    /\ req[q].op = "idle"
    /\ req' = [req EXCEPT ![q] = [Idle EXCEPT !.op = "create", !.local = local]]
    /\ UNCHANGED <<Rows, scan>>

RedeployLoad(q, r) ==
    /\ req[q].op = "idle"
    /\ Exists(r)
    /\ record[r].status # "pending"
    /\ req' = [req EXCEPT ![q] = [Idle EXCEPT !.op = "create", !.again = TRUE,
                                      !.local = remote[r].kind = "local"]]
    /\ UNCHANGED <<Rows, scan>>

\* The provider accepts: deployment r runs from now on, recorded or not.
Post(q, r, kind, jobs, pollable) ==
    /\ req[q].op = "create"
    /\ remote[r].kind = "none"
    /\ \A lower \in Records : lower < r => remote[lower].kind # "none"
    /\ kind # "none" /\ (kind = "local" <=> req[q].local)
    /\ (kind = "local" => ~pollable)
    /\ LET d == [kind |-> kind, jobs |-> jobs]
           out == StatusAfterPost(BodyOf(d), pollable)
       IN /\ remote' = [remote EXCEPT ![r] = d]
          /\ IsDeaf(out, pollable, kind) => Cardinality(AllDeaf) < MaxDeaf
          /\ req' = [req EXCEPT ![q].op = "answered", ![q].r = r,
                                ![q].pollable = pollable, ![q].out = out]
    /\ UNCHANGED <<record, recent, scan>>

\* Whatever has happened to the review meanwhile, the record is written.
CreateCommit(q) ==
    /\ req[q].op = "answered"
    /\ record' = [record EXCEPT ![req[q].r] =
                    [status |-> req[q].out, pollable |-> req[q].pollable]]
    /\ recent' = Touched(req[q].r)
    /\ IF req[q].again
       THEN req' = [req EXCEPT ![q] = [Idle EXCEPT !.op = "mark", !.r = req[q].r]]
       ELSE EndRequest(q)
    /\ UNCHANGED <<remote, scan>>

\* A redeployment names its source in a commit of its own.
RedeployMark(q) ==
    /\ req[q].op = "mark"
    /\ recent' = Touched(req[q].r)
    /\ EndRequest(q)
    /\ UNCHANGED <<record, remote, scan>>

-----------------------------------------------------------------------------
(* sync_deploy_record_status, called for one record of any status. *)

SyncLoad(q, r) ==
    /\ req[q].op = "idle"
    /\ Exists(r)
    /\ record[r].pollable
    /\ req' = [req EXCEPT ![q] = [Idle EXCEPT !.op = "sync", !.r = r,
                                      !.status = record[r].status]]
    /\ UNCHANGED <<Rows, scan>>

SyncAnswer(q, body) ==
    /\ req[q].op = "sync"
    /\ body \in {BodyOf(remote[req[q].r]), Garbled}
    /\ req' = [req EXCEPT ![q].op = "told", ![q].out = StatusAfterGet(body)]
    /\ UNCHANGED <<Rows, scan>>

SyncCommit(q) ==
    /\ req[q].op = "told"
    /\ record' = [record EXCEPT ![req[q].r].status =
                    Flushed(@, req[q].status, req[q].out)]
    /\ recent' = Touched(req[q].r)
    /\ EndRequest(q)
    /\ UNCHANGED <<remote, scan>>

\* An error of the provider or the database, or the backend dies.
Abandon(q) ==
    /\ req[q].op # "idle"
    /\ EndRequest(q)
    /\ UNCHANGED <<Rows, scan>>

-----------------------------------------------------------------------------
(* sync_pending_deploy_records, in the loop of deployment_sync_worker. *)

Pending_Any == {r \in Records : Exists(r)}
Pending == {r \in Records : record[r].status = "pending"}

\* The pending records, the most recently updated first, up to the limit.
PageSize == IF Cardinality(Pending) < Limit THEN Cardinality(Pending) ELSE Limit
IsPage(queue) ==
    /\ \A i, j \in DOMAIN queue : i < j => Place(queue[i]) < Place(queue[j])
    /\ \A r \in Pending \ {queue[i] : i \in DOMAIN queue} :
          \A i \in DOMAIN queue : Place(queue[i]) < Place(r)

ScanList(w) ==
    /\ scan[w] = NoPass
    /\ Pending # {}
    /\ \E queue \in [1 .. PageSize -> Pending] :
          /\ IsPage(queue)
          /\ scan' = [scan EXCEPT ![w].queue = queue]
    /\ UNCHANGED <<Rows, req>>

Next1(w) == [queue |-> Tail(scan[w].queue), out |-> "none"]

\* A refusal (no status URL, an HTTP error) is listed; the pass goes on.
ScanRefused(w) ==
    /\ scan[w].queue # <<>>
    /\ scan[w].out = "none"
    /\ scan' = [scan EXCEPT ![w] = Next1(w)]
    /\ UNCHANGED <<Rows, req>>

ScanAnswer(w, body) ==
    /\ scan[w].queue # <<>>
    /\ scan[w].out = "none"
    /\ LET r == Head(scan[w].queue)
       IN /\ record[r].pollable
          /\ body \in {BodyOf(remote[r]), Garbled}
    /\ scan' = [scan EXCEPT ![w].out = StatusAfterGet(body)]
    /\ UNCHANGED <<Rows, req>>

\* The status was loaded as pending when the pass began.
ScanCommit(w) ==
    /\ scan[w].out # "none"
    /\ LET r == Head(scan[w].queue)
       IN /\ record' = [record EXCEPT ![r].status =
                            Flushed(@, "pending", scan[w].out)]
          /\ recent' = Touched(r)
    /\ scan' = [scan EXCEPT ![w] = Next1(w)]
    /\ UNCHANGED <<remote, req>>

\* Any other error ends the process; it is restarted and lists again.
ScanCrash(w) ==
    /\ scan[w] # NoPass
    /\ scan' = [scan EXCEPT ![w] = NoPass]
    /\ UNCHANGED <<Rows, req>>

-----------------------------------------------------------------------------
(* The environment. *)

JobEnds(r, j, outcome) ==
    /\ remote[r].kind \in {"summary", "items"}
    /\ remote[r].jobs[j] = "pending"
    /\ outcome # "pending"
    /\ remote' = [remote EXCEPT ![r].jobs[j] = outcome]
    /\ UNCHANGED <<record, recent, req, scan>>

Init ==
    /\ record = [r \in Records |-> [status |-> "none", pollable |-> FALSE]]
    /\ recent = <<>>
    /\ remote = [r \in Records |-> [kind |-> "none",
                                    jobs |-> [j \in Jobs |-> "pending"]]]
    /\ req = [q \in Operators |-> Idle]
    /\ scan = [w \in Scanners |-> NoPass]

Starts == [j \in Jobs |-> "pending"]

Operator(q) ==
    \/ \E local \in BOOLEAN : CreateLoad(q, local)
    \/ \E r \in Records : RedeployLoad(q, r) \/ SyncLoad(q, r)
    \/ \E r \in Records, kind \in Kinds, pollable \in BOOLEAN :
          Post(q, r, kind, Starts, pollable)
    \/ \E body \in Body : SyncAnswer(q, body)
    \/ CreateCommit(q) \/ RedeployMark(q) \/ SyncCommit(q) \/ Abandon(q)

Scanner(w) ==
    \/ ScanList(w) \/ ScanRefused(w) \/ ScanCommit(w) \/ ScanCrash(w)
    \/ \E body \in Body : ScanAnswer(w, body)

Environment ==
    \E r \in Records, j \in Jobs, outcome \in Outcome : JobEnds(r, j, outcome)

Next ==
    \/ \E q \in Operators : Operator(q)
    \/ \E w \in Scanners : Scanner(w)
    \/ Environment

Spec == Init /\ [][Next]_vars

\* Remote jobs end; the worker's loop goes on and its process is restarted;
\* a provider that is asked about a record again and again answers properly,
\* and the process is not killed before each of the commits that follow.
Fairness ==
    /\ \A r \in Records, j \in Jobs :
          WF_vars(\E outcome \in Outcome : JobEnds(r, j, outcome))
    /\ \A w \in Scanners :
          /\ WF_vars(ScanList(w))
          /\ WF_vars(ScanRefused(w))
          /\ WF_vars(ScanCommit(w))
          /\ \A r \in Records :
                /\ SF_vars(/\ scan[w].queue # <<>>
                           /\ Head(scan[w].queue) = r
                           /\ ScanAnswer(w, BodyOf(remote[r])))
                /\ SF_vars(/\ scan[w].out \in {"deployed", "failed"}
                           /\ Head(scan[w].queue) = r
                           /\ ScanCommit(w))

\* Operators do not for ever re-open records with syncs answered by nothing:
\* each of those takes the top of the list from the others.
OperatorsCease == \A q \in Operators : <>[][~SyncAnswer(q, Garbled)]_vars

FairSpec == Spec /\ Fairness /\ OperatorsCease

-----------------------------------------------------------------------------
(* Properties. *)

TypeOK ==
    /\ record \in [Records -> Record]
    /\ recent \in Seq(Records)
    /\ {recent[i] : i \in DOMAIN recent} = {r \in Records : Exists(r)}
    /\ \A i, j \in DOMAIN recent : recent[i] = recent[j] => i = j
    /\ remote \in [Records -> Remote]
    /\ req \in [Operators -> Request]
    /\ scan \in [Scanners -> Pass]

\* A record whose provider reports statuses says deployed only when every job
\* of it is, and failed only when some job has failed: whatever answers are
\* garbled or late and whatever syncs overlap (_choose_status_signal,
\* sync_deploy_record_status).
FinalIsTold ==
    \A r \in Records : remote[r].kind \in {"summary", "items"} =>
        /\ record[r].status = "deployed" => Statuses(remote[r]) = {"deployed"}
        /\ record[r].status = "failed" => "failed" \in Statuses(remote[r])

\* The worker, with rows as old as its pass, never takes a final status that
\* an operator's sync has recorded meanwhile back, nor changes it.
WorkerKeepsFinal ==
    [][(\E w \in Scanners : ScanCommit(w)) =>
          \A r \in Records : record[r].status \in {"deployed", "failed"} =>
              record'[r].status = record[r].status]_vars

\* A pending record whose provider reports statuses does not stay pending:
\* the loop comes to it, also when Limit is smaller than the number of pending
\* records and passes fail, as long as fewer than Limit records are deaf.
PendingIsResolved ==
    \A r \in Records :
        record[r].status = "pending" /\ ~Deaf(r) ~> record[r].status # "pending"
=============================================================================
