--------------------------- MODULE SymphonyWorker ---------------------------
(***************************************************************************)
(* The command-line worker (scripts/symphony_worker.py) at the internal    *)
(* bridge API, in time: poll, claim, load the package, run each command    *)
(* between two heartbeats, complete.  Calls to the bridge are atomic here  *)
(* (ExecutionRuns has their interleavings); what is lost is the answer.    *)
(* An operator X_Bug before an operator X is X with a bug: no part of the  *)
(* model.                                                                  *)
(***************************************************************************)
EXTENDS Naturals, FiniteSets

CONSTANTS
    Workers,     \* worker processes, each with its own worker_id
    Runs,        \* the symphony runs in the queue
    Commands,    \* commands of a run: the runner command and its checks
    Lease,       \* --lease-seconds
    Timeout,     \* --command-timeout-seconds
    Http,        \* the time a call to the bridge may take
    MaxConcurrency,  \* settings.execution_max_concurrency
    NoRun, NoWorker

\* The default lease is 300 seconds longer than a command may take, a call
\* takes 30 seconds at most.
ASSUME WorkerAssumption ==
    /\ Commands \in Nat \ {0}
    /\ Lease \in Nat /\ Timeout \in Nat /\ Http \in Nat
    /\ MaxConcurrency \in Nat
    /\ Lease > Timeout + 4 * Http
    /\ NoRun \notin Runs
    /\ NoWorker \notin Workers

VARIABLES
    status,      \* ExecutionRun.status
    owner,       \* symphony_bridge.worker_id of the run's evidence
    age,         \* the time since the run's lease was granted
    evidence,    \* what the worker has reported when the run was completed
    worker       \* what each worker process is doing

vars == <<status, owner, age, evidence, worker>>

Final == {"succeeded", "failed", "cancelled"}
Statuses == {"queued", "running"} \cup Final

\* "giveup" is the call of _safe_complete_failed.
Steps == {"poll", "claim", "package", "loaded", "before", "start", "command",
          "end", "after", "complete", "giveup"}

\* done: commands that have ended; failed: of these; spent: time in this step.
Worker == [step : Steps, run : Runs \cup {NoRun}, done : 0 .. Commands,
           failed : 0 .. Commands, spent : Nat]
At(step, r, done, failed, spent) ==
    [step |-> step, run |-> r, done |-> done, failed |-> failed, spent |-> spent]
AtPoll == At("poll", NoRun, 0, 0, 0)

NoEvidence == [done |-> 0, failed |-> 0]

\* How long a step lasts at most.  The answer to a call that has granted or
\* renewed the lease counts as part of the step after it.
AfterGrant(w) ==
    \/ worker[w].step \in {"package", "start", "complete"}
    \/ worker[w].step = "before" /\ worker[w].done > 0
Limit(w) == IF worker[w].step = "command" THEN Timeout
            ELSE IF AfterGrant(w) THEN 2 * Http ELSE Http

Goes(w, step) ==
    [worker EXCEPT ![w] = At(step, worker[w].run, worker[w].done, worker[w].failed, 0)]

\* _get_owned_running_run
Owns_AnyStatus(w, r) == owner[r] = w
Owns(w, r) == status[r] = "running" /\ owner[r] = w

-----------------------------------------------------------------------------
(* run_once up to the commands.  An error here ends it, and the run stays  *)
(* claimed if it was.                                                       *)

\* Listing recovers the runs whose lease has expired, in the same call.
Expired == {r \in Runs : status[r] = "running" /\ age[r] >= Lease}
StatusAfterList_NoCommit == status
StatusAfterList ==
    [r \in Runs |-> IF r \in Expired THEN "failed" ELSE status[r]]

Poll(w, r) ==
    /\ worker[w].step = "poll"
    /\ status' = StatusAfterList
    /\ status[r] = "queued"
    /\ worker' = [worker EXCEPT ![w] = At("claim", r, 0, 0, 0)]
    /\ UNCHANGED <<owner, age, evidence>>

\* The queue is empty, or the answer is lost; the worker sleeps and polls.
PollsNothing(w) ==
    /\ worker[w].step = "poll"
    /\ Expired # {}
    /\ status' = StatusAfterList
    /\ UNCHANGED <<owner, age, evidence, worker>>

Running == {r \in Runs : status[r] = "running"}

Claim(w, answered) ==
    /\ worker[w].step = "claim"
    /\ LET r == worker[w].run
       IN IF status[r] = "queued" /\ Cardinality(Running) < MaxConcurrency
          THEN /\ status' = [status EXCEPT ![r] = "running"]
               /\ owner' = [owner EXCEPT ![r] = w]
               /\ age' = [age EXCEPT ![r] = 0]
               /\ worker' = IF answered THEN Goes(w, "package")
                            ELSE [worker EXCEPT ![w] = AtPoll]
          ELSE /\ worker' = [worker EXCEPT ![w] = AtPoll]
               /\ UNCHANGED <<status, owner, age>>
    /\ UNCHANGED evidence

\* get_task_package asks for no owner.
Package(w) ==
    /\ worker[w].step = "package"
    /\ worker' = Goes(w, "loaded")
    /\ UNCHANGED <<status, owner, age, evidence>>

\* The first event, still outside the try block.
Loaded(w) ==
    /\ worker[w].step = "loaded"
    /\ worker' = IF Owns(w, worker[w].run) THEN Goes(w, "before")
                 ELSE [worker EXCEPT ![w] = AtPoll]
    /\ UNCHANGED <<status, owner, age, evidence>>

-----------------------------------------------------------------------------
(* _run_command: heartbeat, event, command, event, heartbeat.               *)

\* The bridge takes the call; a refused or a lost answer is an exception.
Heartbeat_Endless(w, answered) ==
    /\ worker[w].step \in {"before", "after"}
    /\ LET r == worker[w].run
           next == IF worker[w].step = "before" THEN "start" ELSE "before"
       IN IF Owns(w, r)
          THEN /\ age' = [age EXCEPT ![r] = 0]
               /\ worker' = Goes(w, IF answered THEN next ELSE "giveup")
          ELSE /\ worker' = Goes(w, "giveup")
               /\ UNCHANGED age
    /\ UNCHANGED <<status, owner, evidence>>
Heartbeat_Once(w, answered) ==
    /\ worker[w].step \in {"before", "after"}
    /\ LET r == worker[w].run
           next == IF worker[w].step = "before" THEN "start"
                   ELSE IF worker[w].done < Commands THEN "before" ELSE "complete"
       IN IF Owns(w, r)
          THEN /\ age' = IF worker[w].step = "before" /\ worker[w].done = 0
                         THEN [age EXCEPT ![r] = 0] ELSE age
               /\ worker' = Goes(w, IF answered THEN next ELSE "giveup")
          ELSE /\ worker' = Goes(w, "giveup")
               /\ UNCHANGED age
    /\ UNCHANGED <<status, owner, evidence>>
Heartbeat(w, answered) ==
    /\ worker[w].step \in {"before", "after"}
    /\ LET r == worker[w].run
           next == IF worker[w].step = "before" THEN "start"
                   ELSE IF worker[w].done < Commands THEN "before" ELSE "complete"
       IN IF Owns(w, r)
          THEN /\ age' = [age EXCEPT ![r] = 0]
               /\ worker' = Goes(w, IF answered THEN next ELSE "giveup")
          ELSE /\ worker' = Goes(w, "giveup")
               /\ UNCHANGED age
    /\ UNCHANGED <<status, owner, evidence>>

Event(w, answered) ==
    /\ worker[w].step \in {"start", "end"}
    /\ LET next == IF worker[w].step = "start" THEN "command" ELSE "after"
       IN worker' = Goes(w, IF Owns(w, worker[w].run) /\ answered THEN next ELSE "giveup")
    /\ UNCHANGED <<status, owner, age, evidence>>

\* A command that times out has failed.
CommandEnds(w, passed) ==
    /\ worker[w].step = "command"
    /\ worker' = [worker EXCEPT ![w] =
          At("end", worker[w].run, worker[w].done + 1,
             worker[w].failed + IF passed THEN 0 ELSE 1, 0)]
    /\ UNCHANGED <<status, owner, age, evidence>>

-----------------------------------------------------------------------------

\* The bridge's own validation (changed files, required checks).
FinalStatus(requested, validated) ==
    IF requested = "succeeded" /\ validated THEN "succeeded" ELSE "failed"

Completed(w, requested, validated) ==
    LET r == worker[w].run
    IN IF Owns(w, r)
       THEN /\ status' = [status EXCEPT ![r] = FinalStatus(requested, validated)]
            /\ evidence' = [evidence EXCEPT ![r] =
                  [done |-> worker[w].done, failed |-> worker[w].failed]]
       ELSE UNCHANGED <<status, evidence>>

Complete(w, validated, answered) ==
    /\ worker[w].step = "complete"
    /\ LET r == worker[w].run
       IN /\ Completed(w, IF worker[w].failed = 0 THEN "succeeded" ELSE "failed", validated)
          /\ worker' = IF answered /\ Owns(w, r) THEN [worker EXCEPT ![w] = AtPoll]
                       ELSE Goes(w, "giveup")
    /\ UNCHANGED <<owner, age>>

GiveUp_SoFar(w, delivered) ==
    /\ worker[w].step = "giveup"
    /\ IF delivered
       THEN Completed(w, IF worker[w].failed = 0 THEN "succeeded" ELSE "failed", TRUE)
       ELSE UNCHANGED <<status, evidence>>
    /\ worker' = [worker EXCEPT ![w] = AtPoll]
    /\ UNCHANGED <<owner, age>>
\* _safe_complete_failed, also after a complete whose answer was lost.  delivered: the call arrives.
GiveUp(w, delivered) ==
    /\ worker[w].step = "giveup"
    /\ IF delivered THEN Completed(w, "failed", FALSE) ELSE UNCHANGED <<status, evidence>>
    /\ worker' = [worker EXCEPT ![w] = AtPoll]
    /\ UNCHANGED <<owner, age>>

\* A call fails before the bridge has it, or the bridge refuses it for a
\* reason that is not modelled, or the shell cannot be started.
Fails(w) ==
    /\ worker[w].step \notin {"poll", "giveup"}
    /\ worker' = IF worker[w].step \in {"claim", "package", "loaded"}
                 THEN [worker EXCEPT ![w] = AtPoll] ELSE Goes(w, "giveup")
    /\ UNCHANGED <<status, owner, age, evidence>>

\* The process is killed and started again.
Crash(w) ==
    /\ worker[w].step # "poll"
    /\ worker' = [worker EXCEPT ![w] = AtPoll]
    /\ UNCHANGED <<status, owner, age, evidence>>

\* An operator cancels the run (or queues it no longer).
Cancel(r) ==
    /\ status[r] \in {"queued", "running"}
    /\ status' = [status EXCEPT ![r] = "cancelled"]
    /\ UNCHANGED <<owner, age, evidence, worker>>

\* A unit of time passes; no step outlasts its limit.  Ages beyond the lease
\* are all the same.
Tick ==
    /\ \A w \in Workers :
          worker[w].step # "poll" => worker[w].spent < Limit(w)
    /\ \E r \in Runs : status[r] = "running" /\ age[r] < Lease
    /\ age' = [r \in Runs |->
                 IF status[r] = "running" /\ age[r] < Lease THEN age[r] + 1 ELSE age[r]]
    /\ worker' = [w \in Workers |->
                    IF worker[w].step = "poll" THEN worker[w]
                    ELSE At(worker[w].step, worker[w].run, worker[w].done,
                            worker[w].failed, worker[w].spent + 1)]
    /\ UNCHANGED <<status, owner, evidence>>

-----------------------------------------------------------------------------

Init ==
    /\ status = [r \in Runs |-> "queued"]
    /\ owner = [r \in Runs |-> NoWorker]
    /\ age = [r \in Runs |-> 0]
    /\ evidence = [r \in Runs |-> NoEvidence]
    /\ worker = [w \in Workers |-> AtPoll]

Polls(w) == PollsNothing(w) \/ \E r \in Runs : Poll(w, r)

Works(w) ==
    \/ Package(w) \/ Loaded(w) \/ Fails(w)
    \/ \E answered \in BOOLEAN :
          \/ Claim(w, answered) \/ Heartbeat(w, answered) \/ Event(w, answered)
          \/ CommandEnds(w, answered) \/ GiveUp(w, answered)
          \/ \E validated \in BOOLEAN : Complete(w, validated, answered)

Next ==
    \/ \E w \in Workers : Polls(w) \/ Works(w) \/ Crash(w)
    \/ \E r \in Runs : Cancel(r)
    \/ Tick

Spec == Init /\ [][Next]_vars

\* Time passes, a step ends, and the loop goes on to poll.
Fairness ==
    /\ WF_vars(Tick)
    /\ \A w \in Workers : WF_vars(Works(w)) /\ WF_vars(Polls(w))

FairSpec == Spec /\ Fairness

-----------------------------------------------------------------------------
(* Properties. *)

TypeOK ==
    /\ status \in [Runs -> Statuses]
    /\ owner \in [Runs -> Workers \cup {NoWorker}]
    /\ age \in [Runs -> 0 .. Lease]
    /\ evidence \in [Runs -> [done : 0 .. Commands, failed : 0 .. Commands]]
    /\ worker \in [Workers -> Worker]
    /\ \A w \in Workers : worker[w].step # "poll" => worker[w].run \in Runs

\* The run a worker is at work on, with all its calls answered, is never
\* taken for abandoned: the two heartbeats around each command renew the
\* lease in time, whichever step takes how long (run_once, _run_command, the
\* defaults of --lease-seconds and --command-timeout-seconds).
WorkKeepsLease ==
    \A w \in Workers : \A r \in Runs :
        /\ worker[w].run = r
        /\ worker[w].step \notin {"poll", "claim", "giveup"}
        /\ status[r] = "running"
        => age[r] < Lease

\* A succeeded run has had all its commands run, by one worker after one
\* claim, and all of them passed: no loss of answers, no late failure report
\* and no crash between the commands turns less into a success.
SuccessIsComplete ==
    \A r \in Runs :
        status[r] = "succeeded" => evidence[r] = [done |-> Commands, failed |-> 0]

\* The report a worker sends after its complete was not answered, or after
\* the run was cancelled or recovered, changes no outcome.
OutcomeStays ==
    [][\A r \in Runs : status[r] \in Final => status'[r] = status[r]]_vars

\* A claimed run ends whatever becomes of its worker: an error between the
\* claim and the try block of run_once and a crash are made good by the lease.
ClaimedRunEnds ==
    \A r \in Runs : status[r] = "running" ~> status[r] \in Final
=============================================================================
