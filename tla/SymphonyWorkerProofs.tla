------------------------ MODULE SymphonyWorkerProofs ------------------------
(***************************************************************************)
(* What holds of SymphonyWorker for every number of workers, runs and      *)
(* commands and for every lease longer than a command and four calls: the  *)
(* lease of a worker at work does not expire, a success is complete, and   *)
(* an outcome stays.                                                       *)
(***************************************************************************)
EXTENDS SymphonyWorker, TLAPS

Working(w) == worker[w].step \notin {"poll", "claim", "giveup"}

\* A worker at work has claimed its run, and no run is queued again.
Claimed == \A w \in Workers : Working(w) => status[worker[w].run] # "queued"

\* What a worker has counted, step by step.
Counted ==
    \A w \in Workers :
        /\ worker[w].failed <= worker[w].done
        /\ worker[w].step \in {"claim", "package", "loaded"} => worker[w].done = 0
        /\ worker[w].step \in {"before", "start", "command"} => worker[w].done < Commands
        /\ worker[w].step \in {"end", "after"} => worker[w].done > 0
        /\ worker[w].step = "complete" => worker[w].done = Commands

\* The time from the last grant of the lease to the present step, at most.
Elapsed(w) ==
    LET step == worker[w].step
    IN IF step = "loaded" \/ step = "command" THEN 2 * Http
       ELSE IF step = "before" /\ worker[w].done = 0 THEN 3 * Http
       ELSE IF step = "end" THEN 2 * Http + Timeout
       ELSE IF step = "after" THEN 3 * Http + Timeout
       ELSE 0

Timed ==
    \A w \in Workers :
        /\ worker[w].step # "poll" => worker[w].spent <= Limit(w)
        /\ Working(w) /\ status[worker[w].run] = "running" =>
              age[worker[w].run] <= Elapsed(w) + worker[w].spent

IInv == TypeOK /\ Claimed /\ Counted /\ Timed /\ SuccessIsComplete

-----------------------------------------------------------------------------

LEMMA InitIInv == ASSUME Init PROVE IInv
BY WorkerAssumption DEF Init, IInv, TypeOK, Claimed, Counted, Timed, SuccessIsComplete,
   At, AtPoll, NoEvidence, Worker, Working, Statuses, Final, Steps

\* The time is within the limit of the last step, and that within the lease.
LEMMA IInvKeepsLease == ASSUME IInv PROVE WorkKeepsLease
<1> SUFFICES ASSUME NEW w \in Workers, Working(w), status[worker[w].run] = "running"
             PROVE  age[worker[w].run] < Lease
    BY DEF WorkKeepsLease, Working
<1>1. worker[w] \in Worker /\ worker[w].run \in Runs
    BY DEF IInv, TypeOK, Working
<1>2. age[worker[w].run] <= Elapsed(w) + worker[w].spent /\ worker[w].spent <= Limit(w)
    BY DEF IInv, Timed, Working
<1>3. Elapsed(w) + Limit(w) <= Timeout + 4 * Http
    BY <1>1, WorkerAssumption DEF Elapsed, Limit, AfterGrant, Working, Worker, Steps
<1>4. age[worker[w].run] \in Nat
    BY <1>1, WorkerAssumption DEF IInv, TypeOK
<1>5. Elapsed(w) \in Nat /\ Limit(w) \in Nat /\ worker[w].spent \in Nat
    BY <1>1, WorkerAssumption DEF Elapsed, Limit, Worker
<1> QED BY <1>2, <1>3, <1>4, <1>5, WorkerAssumption

-----------------------------------------------------------------------------
(* Every step keeps IInv. *)

LEMMA PollKeeps ==
    ASSUME IInv, NEW w \in Workers, NEW r \in Runs, Poll(w, r)
    PROVE  IInv'
BY WorkerAssumption DEF Poll, StatusAfterList, Expired, IInv, TypeOK, Claimed, Counted,
   Timed, SuccessIsComplete, At, AtPoll, Worker, Working, Statuses, Final, Steps, Limit,
   AfterGrant, Elapsed

LEMMA ClaimKeeps ==
    ASSUME IInv, NEW w \in Workers, NEW answered \in BOOLEAN, Claim(w, answered)
    PROVE  IInv'
<1> DEFINE r == worker[w].run
           granted == status[r] = "queued" /\ Cardinality(Running) < MaxConcurrency
<1> USE WorkerAssumption DEF IInv, At, AtPoll, Claim, Goes
<1>1. worker[w] \in Worker /\ r \in Runs /\ worker[w].step = "claim"
    BY DEF TypeOK
<1>2. CASE granted
    <2>1. /\ status' \in [Runs -> Statuses]
          /\ owner' \in [Runs -> Workers \cup {NoWorker}]
          /\ age' \in [Runs -> 0 .. Lease]
          /\ evidence' \in [Runs -> [done : 0 .. Commands, failed : 0 .. Commands]]
        BY <1>1, <1>2 DEF TypeOK, Statuses, Final
    <2>2. worker' \in [Workers -> Worker]
        BY <1>1, <1>2 DEF TypeOK, Worker, Steps
    <2>3. \A x \in Workers : worker'[x].step # "poll" => worker'[x].run \in Runs
        BY <1>1, <1>2 DEF TypeOK
    <2>4. TypeOK'
        BY <2>1, <2>2, <2>3 DEF TypeOK
    <2>5. Claimed'
        BY <1>1, <1>2 DEF Claimed, Working, TypeOK
    <2>6. Counted'
        <3>1. worker[w].done = 0 /\ worker[w].failed <= 0
            BY <1>1 DEF Counted
        <3> QED BY <1>1, <1>2, <3>1 DEF Counted, TypeOK
    <2>7. Timed'
        <3> SUFFICES ASSUME NEW x \in Workers
                     PROVE  /\ (worker[x].step # "poll" => worker[x].spent <= Limit(x))'
                            /\ (Working(x) /\ status[worker[x].run] = "running" =>
                                   age[worker[x].run] <= Elapsed(x) + worker[x].spent)'
            BY DEF Timed
        <3>1. CASE x = w
            BY <1>1, <1>2, <3>1 DEF TypeOK, Worker, Working, Limit, AfterGrant, Elapsed
        <3>2. CASE x # w
            <4>1. worker'[x] = worker[x] /\ worker[x] \in Worker
                BY <1>2, <3>2 DEF TypeOK
            <4>2. (Limit(x)' = Limit(x)) /\ (Elapsed(x)' = Elapsed(x)) /\ (Working(x)' <=> Working(x))
                BY <4>1 DEF Limit, AfterGrant, Elapsed, Working
            <4>3. Working(x) => /\ worker[x].run \in Runs \ {r}
                                /\ status'[worker[x].run] = status[worker[x].run]
                                /\ age'[worker[x].run] = age[worker[x].run]
                BY <1>1, <1>2 DEF Claimed, Working, TypeOK
            <4> QED BY <4>1, <4>2, <4>3 DEF Timed
        <3> QED BY <3>1, <3>2
    <2>8. SuccessIsComplete'
        BY <1>1, <1>2 DEF SuccessIsComplete, TypeOK
    <2> QED BY <2>4, <2>5, <2>6, <2>7, <2>8
<1>3. CASE ~granted
    <2>1. /\ status' \in [Runs -> Statuses]
          /\ owner' \in [Runs -> Workers \cup {NoWorker}]
          /\ age' \in [Runs -> 0 .. Lease]
          /\ evidence' \in [Runs -> [done : 0 .. Commands, failed : 0 .. Commands]]
        BY <1>1, <1>3 DEF TypeOK, Statuses, Final
    <2>2. worker' \in [Workers -> Worker]
        BY <1>1, <1>3 DEF TypeOK, Worker, Steps
    <2>3. \A x \in Workers : worker'[x].step # "poll" => worker'[x].run \in Runs
        BY <1>1, <1>3 DEF TypeOK
    <2>4. TypeOK'
        BY <2>1, <2>2, <2>3 DEF TypeOK
    <2>5. Claimed'
        BY <1>1, <1>3 DEF Claimed, Working, TypeOK
    <2>6. Counted'
        BY <1>1, <1>3 DEF Counted, TypeOK, Worker
    <2>7. Timed'
        BY <1>1, <1>3 DEF Timed, Claimed, TypeOK, Worker, Working, Limit, AfterGrant, Elapsed
    <2>8. SuccessIsComplete'
        BY <1>1, <1>3 DEF SuccessIsComplete, TypeOK
    <2> QED BY <2>4, <2>5, <2>6, <2>7, <2>8
<1> QED BY <1>2, <1>3

LEMMA PackageKeeps ==
    ASSUME IInv, NEW w \in Workers, Package(w)
    PROVE  IInv'
<1> USE WorkerAssumption DEF IInv, At, AtPoll, Package, Goes
<1>1. TypeOK'
    BY DEF TypeOK, Worker, Statuses, Final, Steps
<1>2. Claimed'
    BY DEF Claimed, Working, TypeOK, Worker
<1>3. Counted'
    BY DEF Counted, TypeOK, Worker
<1>4. Timed'
    BY DEF Timed, Claimed, TypeOK, Worker, Working, Limit, AfterGrant, Elapsed, Counted
<1>5. SuccessIsComplete'
    BY DEF SuccessIsComplete
<1> QED BY <1>1, <1>2, <1>3, <1>4, <1>5

LEMMA LoadedKeeps ==
    ASSUME IInv, NEW w \in Workers, Loaded(w)
    PROVE  IInv'
<1> USE WorkerAssumption DEF IInv, At, AtPoll, Loaded, Goes, Owns
<1>1. TypeOK'
    BY DEF TypeOK, Worker, Statuses, Final, Steps
<1>2. Claimed'
    BY DEF Claimed, Working, TypeOK, Worker
<1>3. Counted'
    BY DEF Counted, TypeOK, Worker
<1>4. Timed'
    BY DEF Timed, Claimed, TypeOK, Worker, Working, Limit, AfterGrant, Elapsed, Counted
<1>5. SuccessIsComplete'
    BY DEF SuccessIsComplete
<1> QED BY <1>1, <1>2, <1>3, <1>4, <1>5

LEMMA HeartbeatKeeps ==
    ASSUME IInv, NEW w \in Workers, NEW answered \in BOOLEAN, Heartbeat(w, answered)
    PROVE  IInv'
<1> USE WorkerAssumption DEF IInv, At, AtPoll, Heartbeat, Goes, Owns
<1> DEFINE r == worker[w].run
<1>0. /\ worker[w] \in Worker /\ r \in Runs
      /\ UNCHANGED <<status, owner, evidence>>
      /\ \E s \in {"start", "before", "complete", "giveup"} :
            /\ worker' = [worker EXCEPT ![w] = At(s, r, worker[w].done, worker[w].failed, 0)]
            /\ s \in {"start", "before"} => worker[w].done < Commands
            /\ s = "before" => worker[w].done > 0
            /\ s = "complete" => worker[w].done = Commands
            /\ s # "giveup" => age' = [age EXCEPT ![r] = 0]
            /\ s = "giveup" => age' = age \/ age' = [age EXCEPT ![r] = 0]
    <2>1. worker[w] \in Worker /\ r \in Runs /\ worker[w].step \in {"before", "after"}
        BY DEF TypeOK
    <2>2. worker[w].done \in 0 .. Commands /\ Commands \in Nat \ {0}
        BY <2>1 DEF Worker
    <2>3. CASE ~(Owns(w, r) /\ answered)
        BY <2>1, <2>3
    <2>4. CASE Owns(w, r) /\ answered /\ worker[w].step = "before"
        BY <2>1, <2>4 DEF Counted
    <2>5. CASE Owns(w, r) /\ answered /\ worker[w].step = "after" /\ worker[w].done < Commands
        BY <2>1, <2>2, <2>5 DEF Counted
    <2>6. CASE Owns(w, r) /\ answered /\ worker[w].step = "after" /\ ~(worker[w].done < Commands)
        <3>1. worker[w].done = Commands
            BY <2>2, <2>6
        <3>2. worker' = [worker EXCEPT ![w] =
                           At("complete", r, worker[w].done, worker[w].failed, 0)]
            BY <2>1, <2>6
        <3> QED BY <2>1, <2>6, <3>1, <3>2
    <2> QED BY <2>1, <2>3, <2>4, <2>5, <2>6
<1>1. TypeOK'
    <2>1. worker[w] \in Worker /\ worker[w].run \in Runs
        BY DEF TypeOK
    <2>2. /\ status' \in [Runs -> Statuses]
          /\ owner' \in [Runs -> Workers \cup {NoWorker}]
          /\ age' \in [Runs -> 0 .. Lease]
        BY <2>1 DEF TypeOK, Statuses, Final
    <2>3. evidence' \in [Runs -> [done : 0 .. Commands, failed : 0 .. Commands]]
        BY <2>1 DEF TypeOK, Worker
    <2>4. worker' \in [Workers -> Worker]
        BY <2>1 DEF TypeOK, Worker, Steps
    <2>5. \A x \in Workers : worker'[x].step # "poll" => worker'[x].run \in Runs
        BY <2>1 DEF TypeOK
    <2> QED BY <2>2, <2>3, <2>4, <2>5 DEF TypeOK
<1>2. Claimed'
    BY DEF Claimed, Working, TypeOK, Worker
<1>3. Counted'
    BY <1>0 DEF Counted, TypeOK, Worker
<1>4. Timed'
    BY <1>0 DEF Timed, TypeOK, Worker, Working, Limit, AfterGrant, Elapsed
<1>5. SuccessIsComplete'
    BY DEF SuccessIsComplete
<1> QED BY <1>1, <1>2, <1>3, <1>4, <1>5

LEMMA EventKeeps ==
    ASSUME IInv, NEW w \in Workers, NEW answered \in BOOLEAN, Event(w, answered)
    PROVE  IInv'
<1> USE WorkerAssumption DEF IInv, At, AtPoll, Event, Goes, Owns
<1>1. TypeOK'
    BY DEF TypeOK, Worker, Statuses, Final, Steps
<1>2. Claimed'
    BY DEF Claimed, Working, TypeOK, Worker
<1>3. Counted'
    BY DEF Counted, TypeOK, Worker
<1>4. Timed'
    BY DEF Timed, Claimed, TypeOK, Worker, Working, Limit, AfterGrant, Elapsed, Counted
<1>5. SuccessIsComplete'
    BY DEF SuccessIsComplete
<1> QED BY <1>1, <1>2, <1>3, <1>4, <1>5

LEMMA CommandEndsKeeps ==
    ASSUME IInv, NEW w \in Workers, NEW passed \in BOOLEAN, CommandEnds(w, passed)
    PROVE  IInv'
<1> USE WorkerAssumption DEF IInv, At, AtPoll, CommandEnds
<1>1. TypeOK'
    <2>1. worker[w] \in Worker /\ worker[w].run \in Runs
        BY DEF TypeOK
    <2>2. /\ status' \in [Runs -> Statuses]
          /\ owner' \in [Runs -> Workers \cup {NoWorker}]
          /\ age' \in [Runs -> 0 .. Lease]
        BY <2>1 DEF TypeOK, Statuses, Final
    <2>3. evidence' \in [Runs -> [done : 0 .. Commands, failed : 0 .. Commands]]
        BY <2>1 DEF TypeOK, Worker
    <2>4. worker' \in [Workers -> Worker]
        BY <2>1 DEF TypeOK, Worker, Steps, Counted
    <2>5. \A x \in Workers : worker'[x].step # "poll" => worker'[x].run \in Runs
        BY <2>1 DEF TypeOK
    <2> QED BY <2>2, <2>3, <2>4, <2>5 DEF TypeOK
<1>2. Claimed'
    BY DEF Claimed, Working, TypeOK, Worker
<1>3. Counted'
    BY DEF Counted, TypeOK, Worker
<1>4. Timed'
    BY DEF Timed, Claimed, TypeOK, Worker, Working, Limit, AfterGrant, Elapsed, Counted
<1>5. SuccessIsComplete'
    BY DEF SuccessIsComplete
<1> QED BY <1>1, <1>2, <1>3, <1>4, <1>5

LEMMA CompleteKeeps ==
    ASSUME IInv, NEW w \in Workers, NEW validated \in BOOLEAN, NEW answered \in BOOLEAN, Complete(w, validated, answered)
    PROVE  IInv'
<1> USE WorkerAssumption DEF IInv, At, AtPoll, Complete, Completed, FinalStatus, Goes, Owns
<1>1. TypeOK'
    BY DEF TypeOK, Worker, Statuses, Final, Steps
<1>2. Claimed'
    BY DEF Claimed, Working, TypeOK, Worker
<1>3. Counted'
    BY DEF Counted, TypeOK, Worker
<1>4. Timed'
    BY DEF Timed, Claimed, TypeOK, Worker, Working, Limit, AfterGrant, Elapsed, Counted
<1>5. SuccessIsComplete'
    BY DEF SuccessIsComplete, Counted, TypeOK, Worker
<1> QED BY <1>1, <1>2, <1>3, <1>4, <1>5

LEMMA GiveUpKeeps ==
    ASSUME IInv, NEW w \in Workers, NEW delivered \in BOOLEAN, GiveUp(w, delivered)
    PROVE  IInv'
<1> USE WorkerAssumption DEF IInv, At, AtPoll, GiveUp, Completed, FinalStatus, Owns
<1>1. TypeOK'
    <2>1. worker[w] \in Worker /\ worker[w].run \in Runs
        BY DEF TypeOK
    <2>2. /\ status' \in [Runs -> Statuses]
          /\ owner' \in [Runs -> Workers \cup {NoWorker}]
          /\ age' \in [Runs -> 0 .. Lease]
        BY <2>1 DEF TypeOK, Statuses, Final
    <2>3. evidence' \in [Runs -> [done : 0 .. Commands, failed : 0 .. Commands]]
        BY <2>1 DEF TypeOK, Worker
    <2>4. worker' \in [Workers -> Worker]
        BY <2>1 DEF TypeOK, Worker, Steps
    <2>5. \A x \in Workers : worker'[x].step # "poll" => worker'[x].run \in Runs
        BY <2>1 DEF TypeOK
    <2> QED BY <2>2, <2>3, <2>4, <2>5 DEF TypeOK
<1>2. Claimed'
    BY DEF Claimed, Working, TypeOK, Worker
<1>3. Counted'
    BY DEF Counted, TypeOK, Worker
<1>4. Timed'
    BY DEF Timed, Claimed, TypeOK, Worker, Working, Limit, AfterGrant, Elapsed, Counted
<1>5. SuccessIsComplete'
    BY DEF SuccessIsComplete, Counted, TypeOK, Worker
<1> QED BY <1>1, <1>2, <1>3, <1>4, <1>5

LEMMA FailsKeeps ==
    ASSUME IInv, NEW w \in Workers, Fails(w)
    PROVE  IInv'
<1> USE WorkerAssumption DEF IInv, At, AtPoll, Fails, Goes
<1>1. TypeOK'
    BY DEF TypeOK, Worker, Statuses, Final, Steps
<1>2. Claimed'
    BY DEF Claimed, Working, TypeOK, Worker
<1>3. Counted'
    BY DEF Counted, TypeOK, Worker
<1>4. Timed'
    BY DEF Timed, Claimed, TypeOK, Worker, Working, Limit, AfterGrant, Elapsed, Counted
<1>5. SuccessIsComplete'
    BY DEF SuccessIsComplete
<1> QED BY <1>1, <1>2, <1>3, <1>4, <1>5

LEMMA CrashKeeps ==
    ASSUME IInv, NEW w \in Workers, Crash(w)
    PROVE  IInv'
<1> USE WorkerAssumption DEF IInv, At, AtPoll, Crash
<1>1. TypeOK'
    BY DEF TypeOK, Worker, Statuses, Final, Steps
<1>2. Claimed'
    BY DEF Claimed, Working, TypeOK, Worker
<1>3. Counted'
    BY DEF Counted, TypeOK, Worker
<1>4. Timed'
    BY DEF Timed, Claimed, TypeOK, Worker, Working, Limit, AfterGrant, Elapsed, Counted
<1>5. SuccessIsComplete'
    BY DEF SuccessIsComplete
<1> QED BY <1>1, <1>2, <1>3, <1>4, <1>5

LEMMA CancelKeeps ==
    ASSUME IInv, NEW r \in Runs, Cancel(r)
    PROVE  IInv'
<1> USE WorkerAssumption DEF IInv, At, AtPoll, Cancel
<1>1. TypeOK'
    BY DEF TypeOK, Worker, Statuses, Final, Steps
<1>2. Claimed'
    BY DEF Claimed, Working, TypeOK, Worker
<1>3. Counted'
    BY DEF Counted, TypeOK, Worker
<1>4. Timed'
    BY DEF Timed, Claimed, TypeOK, Worker, Working, Limit, AfterGrant, Elapsed, Counted
<1>5. SuccessIsComplete'
    BY DEF SuccessIsComplete
<1> QED BY <1>1, <1>2, <1>3, <1>4, <1>5

LEMMA TickKeeps ==
    ASSUME IInv, Tick
    PROVE  IInv'
BY WorkerAssumption DEF Tick, IInv, TypeOK, Claimed, Counted,
   Timed, SuccessIsComplete, At, AtPoll, Worker, Working, Statuses, Final, Steps, Limit,
   AfterGrant, Elapsed

LEMMA PollsNothingKeeps ==
    ASSUME IInv, NEW w \in Workers, PollsNothing(w)
    PROVE  IInv'
BY WorkerAssumption DEF PollsNothing, StatusAfterList, Expired, IInv, TypeOK, Claimed,
   Counted, Timed, SuccessIsComplete, At, AtPoll, Worker, Working, Statuses, Final, Steps,
   Limit, AfterGrant, Elapsed

LEMMA StutterKeeps == ASSUME IInv, UNCHANGED vars PROVE IInv'
BY DEF vars, IInv, TypeOK, Claimed, Counted, Timed, SuccessIsComplete, Working, Limit,
   AfterGrant, Elapsed

LEMMA NextKeeps == ASSUME IInv, [Next]_vars PROVE IInv'
<1>1. ASSUME NEW w \in Workers, Polls(w) PROVE IInv'
    BY <1>1, PollKeeps, PollsNothingKeeps DEF Polls
<1>2. ASSUME NEW w \in Workers, Works(w) PROVE IInv'
    BY <1>2, PackageKeeps, LoadedKeeps, FailsKeeps, ClaimKeeps, HeartbeatKeeps, EventKeeps,
       CommandEndsKeeps, GiveUpKeeps, CompleteKeeps DEF Works
<1> QED BY <1>1, <1>2, CrashKeeps, CancelKeeps, TickKeeps, StutterKeeps DEF Next

LEMMA Invariance == Spec => []IInv
<1>1. IInv /\ [Next]_vars => IInv'
    BY NextKeeps
<1> QED BY InitIInv, <1>1, PTL DEF Spec

-----------------------------------------------------------------------------

\* The types of rows and workers: among others, a worker at work has a run,
\* it never counts more commands than the package has (run_once), and no
\* lease grows older than it can.
THEOREM WorkerTypeCorrect == Spec => []TypeOK
<1>1. IInv => TypeOK
    BY DEF IInv
<1> QED BY Invariance, <1>1, PTL

\* However many commands a run has: with a lease longer than a command and
\* four calls to the bridge (WorkerAssumption), the run of a worker at work
\* never counts as abandoned (run_once, _run_command, _lease_expired).
THEOREM LeaseIsKept == Spec => []WorkKeepsLease
<1> QED BY Invariance, IInvKeepsLease, PTL

\* Whatever calls are lost and whoever gives up when, a succeeded run has had
\* all its commands run and passed (run_once, _safe_complete_failed).
THEOREM SuccessComplete == Spec => []SuccessIsComplete
<1>1. IInv => SuccessIsComplete
    BY DEF IInv
<1> QED BY Invariance, <1>1, PTL

\* No report, lease expiry or cancellation changes an outcome
\* (_get_owned_running_run asks for a running run).
THEOREM OutcomeIsKept == Spec => OutcomeStays
<1>1. ASSUME IInv, [Next]_vars, NEW r \in Runs, status[r] \in Final
      PROVE  status'[r] = status[r]
    <2> USE DEF IInv, TypeOK, Final
    <2>1. CASE UNCHANGED vars
        BY <1>1, <2>1 DEF vars
    <2>2. ASSUME NEW w \in Workers, Polls(w) PROVE status'[r] = status[r]
        BY <1>1, <2>2 DEF Polls, Poll, PollsNothing, StatusAfterList, Expired
    <2>3. ASSUME NEW w \in Workers, Works(w) PROVE status'[r] = status[r]
        BY <1>1, <2>3 DEF Works, Package, Loaded, Fails, Claim, Heartbeat, Event,
           CommandEnds, GiveUp, Complete, Completed, Owns
    <2>4. ASSUME NEW w \in Workers, Crash(w) PROVE status'[r] = status[r]
        BY <2>4 DEF Crash
    <2>5. ASSUME NEW s \in Runs, Cancel(s) PROVE status'[r] = status[r]
        BY <1>1, <2>5 DEF Cancel
    <2>6. CASE Tick
        BY <2>6 DEF Tick
    <2> QED BY <1>1, <2>1, <2>2, <2>3, <2>4, <2>5, <2>6 DEF Next
<1>2. IInv /\ [Next]_vars =>
        [\A r \in Runs : status[r] \in Final => status'[r] = status[r]]_vars
    BY <1>1
<1> QED BY Invariance, <1>2, PTL DEF Spec, OutcomeStays
=============================================================================
