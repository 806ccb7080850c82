-------------------------- MODULE DeploymentsProofs --------------------------
(***************************************************************************)
(* Proofs about Deployments, for every number of records, jobs, operators  *)
(* and workers and every limit of a pass.                                  *)
(***************************************************************************)
EXTENDS Deployments, FiniteSetTheorems, TLAPS

-----------------------------------------------------------------------------
(* What the records say is true is not inductive: what a request or a pass  *)
(* is about to write is.                                                    *)

\* What the provider's deployment d allows anybody to say of it.
Told(d, status) ==
  d.kind \in {"summary", "items"} =>
    /\ status = "deployed" => Statuses(d) = {"deployed"}
    /\ status = "failed" => "failed" \in Statuses(d)

\* A record has been posted, and says what is true.
Recorded ==
  \A r \in Records :
    /\ Exists(r) => remote[r].kind # "none"
    /\ Told(remote[r], record[r].status)

\* A request that is past the call of the provider has a record, or makes one,
\* and what it is to write is true.
RequestSound(x, rows, deployments) ==
  /\ x.op \in {"answered", "mark", "sync", "told"} =>
       /\ x.r \in Records
       /\ deployments[x.r].kind # "none"
  /\ x.op \in {"mark", "sync", "told"} => rows[x.r].status # "none"
  /\ x.op \in {"answered", "told"} =>
       /\ x.out \in Outcome
       /\ Told(deployments[x.r], x.out)

\* The records of a pass exist; what it is to write to the first of them is
\* true, and is final only if the provider reports statuses.
PassSound(x, rows, deployments) ==
  /\ \A i \in DOMAIN x.queue : rows[x.queue[i]].status # "none"
  /\ x.out # "none" =>
       /\ x.queue # <<>>
       /\ Told(deployments[Head(x.queue)], x.out)
       /\ x.out # "pending" =>
            deployments[Head(x.queue)].kind \in {"summary", "items"}

DeployInv ==
  /\ TypeOK
  /\ Recorded
  /\ \A q \in Operators : RequestSound(req[q], record, remote)
  /\ \A w \in Scanners : PassSound(scan[w], record, remote)

-----------------------------------------------------------------------------
(* What the client makes of the provider's answers. *)

\* The status of the whole is that of the jobs.
LEMMA WholeTold ==
  ASSUME NEW d \in Remote
  PROVE  /\ Statuses(d) \subseteq Outcome /\ Statuses(d) # {}
         /\ Whole(d) \in Outcome
         /\ Whole(d) = "deployed" => Statuses(d) = {"deployed"}
         /\ Whole(d) = "failed" => "failed" \in Statuses(d)
<1>1. Statuses(d) \subseteq Outcome
  BY DEF Statuses, Remote
<1>2. Statuses(d) # {}
  BY DeploymentsAssumption DEF Statuses, DeploymentsAssumption
<1> QED BY <1>1, <1>2 DEF Whole, Outcome

\* A signal is chosen as deployed only when there is no other.
LEMMA ChosenTold ==
  ASSUME NEW signals \in SUBSET Outcome, signals # {}
  PROVE  /\ Chosen(signals) \in Outcome
         /\ Chosen(signals) = "deployed" => signals = {"deployed"}
         /\ Chosen(signals) = "failed" => "failed" \in signals
         /\ \A s \in Outcome : signals = {s} => Chosen(signals) = s
  BY DEF Chosen, Outcome

\* What an answer about a deployment says is true, and no answer that says
\* nothing is taken for the end.
LEMMA RawTold ==
  ASSUME NEW d \in Remote, NEW body, body \in {BodyOf(d), Garbled}
  PROVE  /\ RawStatus(body) \in Outcome \cup {"none"}
         /\ Told(d, RawStatus(body))
         /\ RawStatus(body) # "none" => d.kind \in {"summary", "items"}
<1>1. CASE body = Garbled \/ d.kind \notin {"summary", "items"}
  <2>1. body.whole = {} /\ body.items = {}
    BY <1>1 DEF Garbled, BodyOf
  <2>2. RawStatus(body) = "none"
    BY <2>1 DEF RawStatus
  <2> QED BY <2>2 DEF Told
<1>2. CASE body = BodyOf(d) /\ d.kind = "summary"
  <2>1. body.whole = {Whole(d)}
    BY <1>2 DEF BodyOf
  <2>2. RawStatus(body) = Chosen({Whole(d)})
    BY <2>1 DEF RawStatus
  <2>3. RawStatus(body) = Whole(d)
    BY <2>2, WholeTold, ChosenTold, {Whole(d)} \in SUBSET Outcome
  <2> QED BY <1>2, <2>3, WholeTold DEF Told
<1>3. CASE body = BodyOf(d) /\ d.kind = "items"
  <2>1. body.whole = {} /\ body.items = Statuses(d)
    BY <1>3 DEF BodyOf
  <2>2. RawStatus(body) = Chosen(Statuses(d))
    BY <2>1, WholeTold DEF RawStatus
  <2> QED BY <1>3, <2>2, WholeTold, ChosenTold DEF Told
<1> QED BY <1>1, <1>2, <1>3

\* A status that is asked for is one of the three, true, and final only if
\* the provider reports statuses.
LEMMA GetTold ==
  ASSUME NEW d \in Remote, NEW body, body \in {BodyOf(d), Garbled}
  PROVE  /\ StatusAfterGet(body) \in Outcome
         /\ Told(d, StatusAfterGet(body))
         /\ StatusAfterGet(body) # "pending" => d.kind \in {"summary", "items"}
<1>1. CASE RawStatus(body) = "none"
  <2>1. StatusAfterGet(body) = "pending"
    BY <1>1 DEF StatusAfterGet
  <2> QED BY <2>1 DEF Told, Outcome
<1>2. CASE RawStatus(body) # "none"
  <2>1. StatusAfterGet(body) = RawStatus(body)
    BY <1>2 DEF StatusAfterGet
  <2> QED BY <1>2, <2>1, RawTold
<1> QED BY <1>1, <1>2

\* So is the status after the POST, though an answer without any counts as
\* deployed when there is no status URL.
LEMMA PostTold ==
  ASSUME NEW d \in Remote, NEW pollable
  PROVE  /\ StatusAfterPost(BodyOf(d), pollable) \in Outcome
         /\ Told(d, StatusAfterPost(BodyOf(d), pollable))
<1> DEFINE status == StatusAfterPost(BodyOf(d), pollable)
<1>1. CASE RawStatus(BodyOf(d)) # "none"
  <2>1. status = RawStatus(BodyOf(d))
    BY <1>1 DEF StatusAfterPost
  <2> QED BY <1>1, <2>1, RawTold
<1>2. CASE RawStatus(BodyOf(d)) = "none"
  <2>1. status \in {"pending", "deployed"}
    BY <1>2 DEF StatusAfterPost
  <2>2. d.kind \notin {"summary", "items"}
    <3>1. CASE d.kind = "summary"
      <4>1. BodyOf(d).whole = {Whole(d)}
        BY <3>1 DEF BodyOf
      <4>2. RawStatus(BodyOf(d)) = Chosen({Whole(d)})
        BY <4>1 DEF RawStatus
      <4> QED BY <1>2, <4>2, ChosenTold, WholeTold,
                 {Whole(d)} \in SUBSET Outcome DEF Outcome
    <3>2. CASE d.kind = "items"
      <4>1. BodyOf(d).whole = {} /\ BodyOf(d).items = Statuses(d)
        BY <3>2 DEF BodyOf
      <4>2. RawStatus(BodyOf(d)) = Chosen(Statuses(d))
        BY <4>1, WholeTold DEF RawStatus
      <4> QED BY <1>2, <4>2, ChosenTold, WholeTold DEF Outcome
    <3> QED BY <3>1, <3>2
  <2> QED BY <2>1, <2>2 DEF Told, Outcome
<1> QED BY <1>1, <1>2

\* A job that ends makes nothing false that was said before.
LEMMA EndTold ==
  ASSUME NEW d \in Remote, NEW j \in Jobs, d.jobs[j] = "pending",
         NEW outcome \in Outcome, NEW new,
         new = [d EXCEPT !.jobs[j] = outcome], NEW status, Told(d, status)
  PROVE  /\ new \in Remote
         /\ new.kind = d.kind
         /\ Told(new, status)
<1>1. /\ new \in Remote /\ new.kind = d.kind
      /\ new.jobs = [d.jobs EXCEPT ![j] = outcome]
  BY DEF Remote
<1>2. \A k \in Jobs : k # j => new.jobs[k] = d.jobs[k]
  BY <1>1 DEF Remote
<1>3. Statuses(d) # {"deployed"}
  BY DEF Statuses
<1>4. "failed" \in Statuses(d) => "failed" \in Statuses(new)
  BY <1>2 DEF Statuses
<1> QED BY <1>1, <1>3, <1>4 DEF Told

-----------------------------------------------------------------------------
(* The order of the records. *)

RecentOf(seq, S) ==
  /\ seq \in Seq(Records)
  /\ {seq[i] : i \in DOMAIN seq} = S
  /\ \A i, j \in DOMAIN seq : seq[i] = seq[j] => i = j

\* Whatever record is touched: it is in the order once, as are all others
\* that were.
LEMMA TouchedOrder ==
  ASSUME NEW S, RecentOf(recent, S), NEW r \in Records
  PROVE  RecentOf(Touched(r), S \cup {r})
<1> USE DEF RecentOf
<1> DEFINE n == Len(recent)
<1>1. /\ n \in Nat /\ DOMAIN recent = 1 .. n
      /\ \A i \in 1 .. n : recent[i] \in Records
  OBVIOUS
<1> DEFINE Once == \A i, j \in 1 .. n : recent[i] = recent[j] => i = j
<1>4. Once
  BY <1>1
<1>2. CASE Listed(r)
  <2> DEFINE p == Place(r)
  <2>1. p \in 1 .. n /\ recent[p] = r
    BY <1>1, <1>2 DEF Listed, Place
  <2>2. Touched(r) = [i \in 1 .. n |->
           IF i = 1 THEN r ELSE recent[IF i <= p THEN i - 1 ELSE i]]
    BY <1>1, <1>2, <2>1 DEF Touched
  <2> HIDE DEF p, n
  <2>3. /\ DOMAIN Touched(r) = 1 .. n
        /\ Touched(r)[1] = r
        /\ \A i \in 2 .. p : Touched(r)[i] = recent[i - 1]
        /\ \A i \in 1 .. n : i > p => Touched(r)[i] = recent[i]
    BY <2>1, <2>2, <1>1
  <2>4. \A i \in 1 .. n : i = 1 \/ i \in 2 .. p \/ i > p
    BY <2>1, <1>1
  <2>5. \A i \in 1 .. n : Touched(r)[i] \in Records
    BY <1>1, <2>1, <2>3, <2>4
  <2>6. Touched(r) \in Seq(Records)
    BY <1>1, <2>2, <2>5, <2>3
  <2>7. ASSUME NEW i \in 1 .. n, NEW j \in 1 .. n, Touched(r)[i] = Touched(r)[j]
        PROVE  i = j
    <3>1. ASSUME NEW k \in 2 .. p
          PROVE  k - 1 \in 1 .. n /\ k - 1 # p /\ Touched(r)[k] = recent[k - 1]
      BY <1>1, <2>1, <2>3
    <3>2. \A k \in 2 .. p : Touched(r)[k] # r
      BY <1>4, <2>1, <3>1
    <3>3. \A k \in 1 .. n : k > p => Touched(r)[k] # r
      BY <1>1, <1>4, <2>1, <2>3
    <3>4. CASE i = 1 \/ j = 1
      BY <2>3, <2>4, <2>7, <3>2, <3>3, <3>4
    <3>5. CASE i \in 2 .. p /\ j \in 2 .. p
      <4>1. recent[i - 1] = recent[j - 1]
        BY <2>3, <2>7, <3>5
      <4>2. i - 1 = j - 1
        BY <1>4, <3>1, <3>5, <4>1
      <4> QED BY <1>1, <2>1, <3>5, <4>2
    <3>6. CASE i \in 2 .. p /\ j > p
      <4>1. recent[i - 1] = recent[j]
        BY <2>3, <2>7, <3>6
      <4>2. i - 1 = j
        BY <1>4, <3>1, <3>6, <4>1
      <4> QED BY <1>1, <2>1, <3>6, <4>2
    <3>7. CASE i > p /\ j \in 2 .. p
      <4>1. recent[i] = recent[j - 1]
        BY <2>3, <2>7, <3>7
      <4>2. i = j - 1
        BY <1>4, <3>1, <3>7, <4>1
      <4> QED BY <1>1, <2>1, <3>7, <4>2
    <3>8. CASE i > p /\ j > p
      BY <1>4, <2>3, <2>7, <3>8
    <3> QED BY <2>4, <3>4, <3>5, <3>6, <3>7, <3>8
  <2>8. ASSUME NEW x \in S
        PROVE  \E i \in 1 .. n : Touched(r)[i] = x
    <3>1. PICK i \in 1 .. n : recent[i] = x
      BY <1>1
    <3>2. CASE i = p
      BY <1>1, <2>1, <2>3, <3>1, <3>2
    <3>3. CASE i > p
      BY <2>3, <3>1, <3>3
    <3>4. CASE i < p
      <4>1. i + 1 \in 2 .. p /\ i + 1 \in 1 .. n /\ (i + 1) - 1 = i
        BY <1>1, <2>1, <3>4
      <4> QED BY <2>3, <3>1, <4>1
    <3> QED BY <1>1, <2>1, <3>2, <3>3, <3>4
  <2>9. \A i \in 1 .. n : Touched(r)[i] \in S \cup {r}
    BY <1>1, <2>1, <2>3, <2>4
  <2>10. r \in S
    BY <1>1, <2>1
  <2>11. \E i \in 1 .. n : Touched(r)[i] = r
    BY <2>8, <2>10
  <2>12. {Touched(r)[i] : i \in 1 .. n} = S \cup {r}
    BY <2>8, <2>9, <2>11
  <2> QED BY <2>3, <2>6, <2>7, <2>12
<1>3. CASE ~Listed(r)
  <2>1. Touched(r) = [i \in 1 .. n + 1 |-> IF i = 1 THEN r ELSE recent[i - 1]]
    <3>1. DOMAIN recent \cup {n + 1} = 1 .. n + 1
      BY <1>1
    <3>2. Touched(r) = [i \in DOMAIN recent \cup {n + 1} |->
            IF i = 1 THEN r ELSE recent[IF i <= n + 1 THEN i - 1 ELSE i]]
      BY <1>3 DEF Touched
    <3> QED BY <1>1, <3>1, <3>2
  <2> HIDE DEF n
  <2>2. /\ DOMAIN Touched(r) = 1 .. n + 1
        /\ Touched(r)[1] = r
        /\ \A i \in 2 .. n + 1 : Touched(r)[i] = recent[i - 1]
    BY <1>1, <2>1
  <2>3. \A i \in 1 .. n + 1 : i = 1 \/ i \in 2 .. n + 1
    BY <1>1
  <2>4. \A i \in 2 .. n + 1 : i - 1 \in 1 .. n
    BY <1>1
  <2>5. \A i \in 1 .. n + 1 : Touched(r)[i] \in Records
    BY <1>1, <2>2, <2>3, <2>4
  <2>6. Touched(r) \in Seq(Records)
    BY <1>1, <2>1, <2>2, <2>5
  <2>7. \A i \in 1 .. n : recent[i] # r
    BY <1>1, <1>3 DEF Listed
  <2>8. ASSUME NEW i \in 1 .. n + 1, NEW j \in 1 .. n + 1,
               Touched(r)[i] = Touched(r)[j]
        PROVE  i = j
    <3>1. \A k \in 2 .. n + 1 : Touched(r)[k] # r
      BY <2>2, <2>4, <2>7
    <3>2. CASE i = 1 \/ j = 1
      BY <2>2, <2>3, <2>8, <3>1, <3>2
    <3>3. CASE i \in 2 .. n + 1 /\ j \in 2 .. n + 1
      <4>1. recent[i - 1] = recent[j - 1]
        BY <2>2, <2>8, <3>3
      <4>2. i - 1 = j - 1
        BY <1>4, <2>4, <3>3, <4>1
      <4> QED BY <1>1, <3>3, <4>2
    <3> QED BY <2>3, <3>2, <3>3
  <2>9. ASSUME NEW x \in S
        PROVE  \E i \in 1 .. n + 1 : Touched(r)[i] = x
    <3>1. PICK i \in 1 .. n : recent[i] = x
      BY <1>1
    <3>2. i + 1 \in 2 .. n + 1 /\ i + 1 \in 1 .. n + 1 /\ (i + 1) - 1 = i
      BY <1>1
    <3> QED BY <2>2, <3>1, <3>2
  <2>10. \A i \in 1 .. n + 1 : Touched(r)[i] \in S \cup {r}
    BY <1>1, <2>2, <2>3, <2>4
  <2>11. 1 \in 1 .. n + 1
    BY <1>1
  <2>12. {Touched(r)[i] : i \in 1 .. n + 1} = S \cup {r}
    BY <2>2, <2>9, <2>10, <2>11
  <2> QED BY <2>2, <2>6, <2>8, <2>12
<1> QED BY <1>2, <1>3

-----------------------------------------------------------------------------
(* What a step does not touch stays sound. *)

\* Records are not deleted, and a deployment that was posted stays what it is
\* while its jobs end.
Grown ==
  \A r \in Records :
    /\ Exists(r) => Exists(r)'
    /\ remote[r].kind # "none" =>
         /\ remote'[r].kind = remote[r].kind
         /\ \A status : Told(remote[r], status) => Told(remote'[r], status)

\* Requests stay sound, and the one that a step writes is to be shown so.
LEMMA RequestsStay ==
  ASSUME DeployInv, Grown, NEW q, NEW new \in Request,
         RequestSound(new, record', remote'),
         req' = [req EXCEPT ![q] = new]
  PROVE  /\ req' \in [Operators -> Request]
         /\ \A p \in Operators : RequestSound(req'[p], record', remote')
<1>1. \A p \in Operators : req'[p] = new \/ req'[p] = req[p]
  BY DEF DeployInv, TypeOK
<1>2. ASSUME NEW p \in Operators PROVE RequestSound(req[p], record', remote')
  <2>1. RequestSound(req[p], record, remote)
    BY DEF DeployInv
  <2> QED BY <2>1 DEF RequestSound, Grown, Exists
<1>3. \A p \in Operators : RequestSound(req'[p], record', remote')
  BY <1>1, <1>2
<1> QED BY <1>3 DEF DeployInv, TypeOK

\* The same when no request changes.
LEMMA RequestsSame ==
  ASSUME DeployInv, Grown, UNCHANGED req
  PROVE  /\ req' \in [Operators -> Request]
         /\ \A p \in Operators : RequestSound(req'[p], record', remote')
<1>1. ASSUME NEW p \in Operators PROVE RequestSound(req[p], record', remote')
  <2>1. RequestSound(req[p], record, remote)
    BY DEF DeployInv
  <2> QED BY <2>1 DEF RequestSound, Grown, Exists
<1> QED BY <1>1 DEF DeployInv, TypeOK

\* A pass that a step does not touch.
LEMMA PassStays ==
  ASSUME DeployInv, Grown, NEW w \in Scanners
  PROVE  PassSound(scan[w], record', remote')
<1>1. /\ PassSound(scan[w], record, remote)
      /\ scan[w].queue \in Seq(Records)
  BY DEF DeployInv, TypeOK, Pass
<1>2. \A i \in DOMAIN scan[w].queue :
         /\ scan[w].queue[i] \in Records
         /\ Exists(scan[w].queue[i])
  BY <1>1 DEF PassSound, Exists
<1>3. scan[w].out # "none" =>
         Head(scan[w].queue) \in Records /\ Exists(Head(scan[w].queue))
  BY <1>1, <1>2 DEF PassSound
<1>4. scan[w].out # "none" => remote[Head(scan[w].queue)].kind # "none"
  BY <1>3 DEF DeployInv, Recorded
<1> QED BY <1>1, <1>2, <1>3, <1>4 DEF PassSound, Grown, Exists

LEMMA PassesStay ==
  ASSUME DeployInv, Grown, NEW w, NEW new \in Pass,
         PassSound(new, record', remote'),
         scan' = [scan EXCEPT ![w] = new]
  PROVE  /\ scan' \in [Scanners -> Pass]
         /\ \A v \in Scanners : PassSound(scan'[v], record', remote')
<1>1. \A v \in Scanners : scan'[v] = new \/ scan'[v] = scan[v]
  BY DEF DeployInv, TypeOK
<1>2. \A v \in Scanners : PassSound(scan'[v], record', remote')
  BY <1>1, PassStays
<1> QED BY <1>2 DEF DeployInv, TypeOK

LEMMA PassesSame ==
  ASSUME DeployInv, Grown, UNCHANGED scan
  PROVE  /\ scan' \in [Scanners -> Pass]
         /\ \A v \in Scanners : PassSound(scan'[v], record', remote')
  BY PassStays DEF DeployInv, TypeOK

\* A step that touches no row.
LEMMA RowsSame ==
  ASSUME DeployInv, UNCHANGED Rows
  PROVE  /\ Grown /\ Recorded'
         /\ record' \in [Records -> Record]
         /\ RecentOf(recent', {r \in Records : Exists(r)'})
         /\ remote' \in [Records -> Remote]
<1>1. record' = record /\ recent' = recent /\ remote' = remote
  BY DEF Rows
<1>2. Grown /\ Recorded'
  BY <1>1 DEF Grown, Recorded, DeployInv, Exists
<1> QED BY <1>1, <1>2 DEF DeployInv, TypeOK, RecentOf, Exists

\* The parts of the invariant.
LEMMA InvByParts ==
  ASSUME record' \in [Records -> Record],
         RecentOf(recent', {r \in Records : Exists(r)'}),
         remote' \in [Records -> Remote],
         req' \in [Operators -> Request],
         scan' \in [Scanners -> Pass],
         Recorded',
         \A q \in Operators : RequestSound(req'[q], record', remote'),
         \A w \in Scanners : PassSound(scan'[w], record', remote')
  PROVE  DeployInv'
  BY DEF DeployInv, TypeOK, RecentOf

\* A record is written: what it says is true of a deployment that was posted,
\* and it is the most recent one.
LEMMA RecordWritten ==
  ASSUME DeployInv, NEW r \in Records, NEW new \in Record,
         new.status # "none", remote[r].kind # "none",
         Told(remote[r], new.status),
         record' = [record EXCEPT ![r] = new],
         recent' = Touched(r), UNCHANGED remote
  PROVE  /\ Grown /\ Recorded'
         /\ record' \in [Records -> Record]
         /\ RecentOf(recent', {x \in Records : Exists(x)'})
         /\ remote' \in [Records -> Remote]
<1>1. /\ record' \in [Records -> Record]
      /\ record'[r] = new
      /\ \A x \in Records : x # r => record'[x] = record[x]
  BY DEF DeployInv, TypeOK
<1>2. Grown /\ Recorded'
  BY <1>1 DEF Grown, Recorded, DeployInv, Exists
<1>3. {x \in Records : Exists(x)'} = {x \in Records : Exists(x)} \cup {r}
  BY <1>1 DEF Exists
<1>4. RecentOf(recent, {x \in Records : Exists(x)})
  BY DEF DeployInv, TypeOK, RecentOf
<1>5. RecentOf(Touched(r), {x \in Records : Exists(x)} \cup {r})
  BY <1>4, TouchedOrder
<1> QED BY <1>1, <1>2, <1>3, <1>5 DEF DeployInv, TypeOK

-----------------------------------------------------------------------------
(* The steps of operators. *)

LEMMA IdleSound ==
  ASSUME NEW rows, NEW deployments
  PROVE  Idle \in Request /\ RequestSound(Idle, rows, deployments)
  BY DeploymentsAssumption
     DEF DeploymentsAssumption, Idle, Request, Ops, Outcome, RequestSound

\* Requests begin by reading rows.
LEMMA LoadDeploy ==
  ASSUME DeployInv, NEW q \in Operators,
         \/ \E local \in BOOLEAN : CreateLoad(q, local)
         \/ \E r \in Records : RedeployLoad(q, r) \/ SyncLoad(q, r)
  PROVE  DeployInv'
<1>1. UNCHANGED Rows /\ UNCHANGED scan
  BY DEF CreateLoad, RedeployLoad, SyncLoad
<1>2. PICK new \in Request : /\ RequestSound(new, record', remote')
                             /\ req' = [req EXCEPT ![q] = new]
  <2>1. ASSUME NEW local \in BOOLEAN, CreateLoad(q, local)
        PROVE  \E new \in Request : /\ RequestSound(new, record', remote')
                                    /\ req' = [req EXCEPT ![q] = new]
    <3> DEFINE new == [Idle EXCEPT !.op = "create", !.local = local]
    <3>1. new \in Request /\ new.op = "create"
      BY IdleSound DEF Request, Ops
    <3>2. RequestSound(new, record', remote')
      BY <3>1 DEF RequestSound
    <3>3. req' = [req EXCEPT ![q] = new]
      BY <2>1 DEF CreateLoad
    <3> QED BY <3>1, <3>2, <3>3
  <2>2. ASSUME NEW r \in Records, RedeployLoad(q, r)
        PROVE  \E new \in Request : /\ RequestSound(new, record', remote')
                                    /\ req' = [req EXCEPT ![q] = new]
    <3> DEFINE new == [Idle EXCEPT !.op = "create", !.again = TRUE,
                                   !.local = (remote[r].kind = "local")]
    <3>1. new \in Request /\ new.op = "create"
      BY IdleSound DEF Request, Ops
    <3>2. RequestSound(new, record', remote')
      BY <3>1 DEF RequestSound
    <3>3. req' = [req EXCEPT ![q] = new]
      BY <2>2 DEF RedeployLoad
    <3> QED BY <3>1, <3>2, <3>3
  <2>3. ASSUME NEW r \in Records, SyncLoad(q, r)
        PROVE  \E new \in Request : /\ RequestSound(new, record', remote')
                                    /\ req' = [req EXCEPT ![q] = new]
    <3> DEFINE new == [Idle EXCEPT !.op = "sync", !.r = r,
                                   !.status = record[r].status]
    <3>1. /\ record[r].status \in Outcome \cup {"none"}
          /\ r \in 0 .. MaxRecords
      BY DeploymentsAssumption
         DEF DeployInv, TypeOK, Record, Records, DeploymentsAssumption
    <3>2. new \in Request /\ new.op = "sync" /\ new.r = r
      BY <3>1, IdleSound DEF Request, Ops
    <3>3. Exists(r) /\ remote[r].kind # "none"
      BY <2>3 DEF SyncLoad, DeployInv, Recorded
    <3>4. RequestSound(new, record', remote')
      BY <1>1, <3>2, <3>3 DEF RequestSound, Rows, Exists
    <3>5. req' = [req EXCEPT ![q] = new]
      BY <2>3 DEF SyncLoad
    <3> QED BY <3>2, <3>4, <3>5
  <2> QED BY <2>1, <2>2, <2>3
<1> QED BY <1>1, <1>2, RowsSame, RequestsStay, PassesSame, InvByParts

\* The provider accepts a deployment: there is no record of it yet, and no
\* request and no pass is about it.
LEMMA PostDeploy ==
  ASSUME DeployInv, NEW q \in Operators, NEW r \in Records, NEW kind \in Kinds,
         NEW pollable \in BOOLEAN, Post(q, r, kind, Starts, pollable)
  PROVE  DeployInv'
<1> DEFINE d == [kind |-> kind, jobs |-> Starts]
           out == StatusAfterPost(BodyOf(d), pollable)
<1>1. d \in Remote
  BY DEF Remote, Starts, Outcome
<1>2. out \in Outcome /\ Told(d, out)
  BY <1>1, PostTold
<1>3. /\ remote[r].kind = "none" /\ kind # "none"
      /\ remote' = [remote EXCEPT ![r] = d]
      /\ record' = record /\ recent' = recent /\ scan' = scan
  BY DEF Post
<1>4. /\ remote' \in [Records -> Remote]
      /\ remote'[r] = d
      /\ \A x \in Records : x # r => remote'[x] = remote[x]
  BY <1>1, <1>3 DEF DeployInv, TypeOK
<1>5. Grown
  BY <1>3, <1>4 DEF Grown, Exists
<1>6. Recorded'
  <2> SUFFICES ASSUME NEW x \in Records
               PROVE  /\ Exists(x) => remote'[x].kind # "none"
                      /\ Told(remote'[x], record[x].status)
    BY <1>3 DEF Recorded, Exists
  <2>1. CASE x = r
    <3>1. record[x].status = "none"
      BY <1>3, <2>1 DEF DeployInv, Recorded, Exists
    <3> QED BY <3>1 DEF Told, Exists
  <2>2. CASE x # r
    BY <1>4, <2>2 DEF DeployInv, Recorded
  <2> QED BY <2>1, <2>2
<1> DEFINE new == [req[q] EXCEPT !.op = "answered", !.r = r,
                                 !.pollable = pollable, !.out = out]
<1>7. req' = [req EXCEPT ![q] = new]
  BY DEF Post
<1>8. /\ new \in Request
      /\ new.op = "answered" /\ new.r = r /\ new.out = out
  <2>1. r \in 0 .. MaxRecords /\ req[q] \in Request
    BY DeploymentsAssumption
       DEF Records, DeploymentsAssumption, DeployInv, TypeOK
  <2> HIDE DEF out, d
  <2> QED BY <1>2, <2>1 DEF Request, Ops
<1> HIDE DEF new, out, d
<1>9. RequestSound(new, record', remote')
  <2>1. d.kind = kind
    BY DEF d
  <2> QED BY <1>2, <1>3, <1>4, <1>8, <2>1 DEF RequestSound
<1>10. RecentOf(recent', {x \in Records : Exists(x)'})
  BY <1>3 DEF DeployInv, TypeOK, RecentOf, Exists
<1>11. record' \in [Records -> Record]
  BY <1>3 DEF DeployInv, TypeOK
<1> QED
  BY <1>3, <1>4, <1>5, <1>6, <1>7, <1>8, <1>9, <1>10, <1>11, RequestsStay,
     PassesSame, InvByParts

\* The record of a deployment, and of one that another is deployed again as.
LEMMA CreateCommitDeploy ==
  ASSUME DeployInv, NEW q \in Operators, CreateCommit(q)
  PROVE  DeployInv'
<1> DEFINE x == req[q]
           row == [status |-> x.out, pollable |-> x.pollable]
<1>1. /\ x \in Request /\ x.op = "answered" /\ RequestSound(x, record, remote)
  BY DEF DeployInv, TypeOK, CreateCommit
<1>2. /\ x.r \in Records /\ remote[x.r].kind # "none"
      /\ x.out \in Outcome /\ Told(remote[x.r], x.out)
  BY <1>1 DEF RequestSound
<1>3. row \in Record /\ row.status = x.out /\ row.status # "none"
  BY <1>1, <1>2 DEF Record, Request, Outcome
<1>4. /\ record' = [record EXCEPT ![x.r] = row]
      /\ recent' = Touched(x.r) /\ remote' = remote /\ scan' = scan
  BY DEF CreateCommit
<1>5. /\ Grown /\ Recorded'
      /\ record' \in [Records -> Record]
      /\ RecentOf(recent', {y \in Records : Exists(y)'})
      /\ remote' \in [Records -> Remote]
  <2> HIDE DEF row, x
  <2> QED BY <1>2, <1>3, <1>4, RecordWritten
<1>6. PICK new \in Request : /\ RequestSound(new, record', remote')
                             /\ req' = [req EXCEPT ![q] = new]
  <2>1. CASE x.again
    <3> DEFINE new == [Idle EXCEPT !.op = "mark", !.r = x.r]
    <3>1. new \in Request /\ new.op = "mark" /\ new.r = x.r
      BY <1>1, IdleSound DEF Request, Ops
    <3>2. record'[x.r].status # "none"
      BY <1>2, <1>3, <1>4 DEF DeployInv, TypeOK
    <3>3. RequestSound(new, record', remote')
      BY <1>2, <1>4, <3>1, <3>2 DEF RequestSound
    <3>4. req' = [req EXCEPT ![q] = new]
      BY <2>1 DEF CreateCommit
    <3> QED BY <3>1, <3>3, <3>4
  <2>2. CASE ~x.again
    BY <2>2, IdleSound DEF CreateCommit, EndRequest
  <2> QED BY <2>1, <2>2
<1> QED BY <1>4, <1>5, <1>6, RequestsStay, PassesSame, InvByParts

\* The source is named: the record moves to the top of the order.
LEMMA RedeployMarkDeploy ==
  ASSUME DeployInv, NEW q \in Operators, RedeployMark(q)
  PROVE  DeployInv'
<1> DEFINE r == req[q].r
<1>1. r \in Records /\ Exists(r)
  BY DEF DeployInv, RequestSound, RedeployMark, Exists
<1>2. /\ recent' = Touched(r) /\ record' = record /\ remote' = remote
      /\ scan' = scan /\ req' = [req EXCEPT ![q] = Idle]
  BY DEF RedeployMark, EndRequest
<1> HIDE DEF r
<1>3. Grown /\ Recorded'
  BY <1>2 DEF Grown, Recorded, DeployInv, Exists
<1>4. RecentOf(recent, {y \in Records : Exists(y)})
  BY DEF DeployInv, TypeOK, RecentOf
<1>5. RecentOf(Touched(r), {y \in Records : Exists(y)} \cup {r})
  BY <1>1, <1>4, TouchedOrder
<1>6. {y \in Records : Exists(y)'} = {y \in Records : Exists(y)} \cup {r}
  BY <1>1, <1>2 DEF Exists
<1>7. RecentOf(recent', {y \in Records : Exists(y)'})
  BY <1>2, <1>5, <1>6
<1>8. record' \in [Records -> Record] /\ remote' \in [Records -> Remote]
  BY <1>2 DEF DeployInv, TypeOK
<1> QED
  BY <1>2, <1>3, <1>7, <1>8, IdleSound, RequestsStay, PassesSame, InvByParts

\* An answer is told to the request that asked.
LEMMA SyncAnswerDeploy ==
  ASSUME DeployInv, NEW q \in Operators, NEW body, SyncAnswer(q, body)
  PROVE  DeployInv'
<1> DEFINE x == req[q]
           new == [x EXCEPT !.op = "told", !.out = StatusAfterGet(body)]
<1>1. /\ x \in Request /\ x.op = "sync" /\ RequestSound(x, record, remote)
  BY DEF DeployInv, TypeOK, SyncAnswer
<1>2. x.r \in Records /\ remote[x.r].kind # "none" /\ Exists(x.r)
  BY <1>1 DEF RequestSound, Exists
<1>3. remote[x.r] \in Remote /\ body \in {BodyOf(remote[x.r]), Garbled}
  BY <1>2 DEF DeployInv, TypeOK, SyncAnswer
<1>4. /\ StatusAfterGet(body) \in Outcome
      /\ Told(remote[x.r], StatusAfterGet(body))
  BY <1>3, GetTold
<1>5. /\ new \in Request
      /\ new.op = "told" /\ new.r = x.r /\ new.out = StatusAfterGet(body)
  BY <1>1, <1>4 DEF Request, Ops
<1>6. UNCHANGED Rows /\ UNCHANGED scan /\ req' = [req EXCEPT ![q] = new]
  BY DEF SyncAnswer
<1> HIDE DEF new
<1>7. RequestSound(new, record', remote')
  BY <1>2, <1>4, <1>5, <1>6 DEF RequestSound, Rows, Exists
<1> QED BY <1>5, <1>6, <1>7, RowsSame, RequestsStay, PassesSame, InvByParts

\* A status is written, or not, if it is the one loaded: what the record then
\* says is true in both cases.
LEMMA StatusWritten ==
  ASSUME DeployInv, NEW r \in Records, Exists(r), NEW loaded,
         NEW out \in Outcome, Told(remote[r], out),
         record' = [record EXCEPT ![r].status = Flushed(@, loaded, out)],
         recent' = Touched(r), UNCHANGED remote
  PROVE  /\ Grown /\ Recorded'
         /\ record' \in [Records -> Record]
         /\ RecentOf(recent', {x \in Records : Exists(x)'})
         /\ remote' \in [Records -> Remote]
<1> DEFINE status == Flushed(record[r].status, loaded, out)
           new == [record[r] EXCEPT !.status = status]
<1>1. record[r] \in Record /\ remote[r].kind # "none"
  BY DEF DeployInv, TypeOK, Recorded
<1>2. status = out \/ status = record[r].status
  BY DEF Flushed
<1>3. status \in Outcome /\ Told(remote[r], status)
  BY <1>1, <1>2 DEF Record, Exists, DeployInv, Recorded
<1>4. record' = [record EXCEPT ![r] = new]
  OBVIOUS
<1> HIDE DEF status
<1>5. new \in Record /\ new.status = status /\ new.status # "none"
  BY <1>1, <1>3 DEF Record, Outcome
<1> HIDE DEF new
<1> QED BY <1>1, <1>3, <1>4, <1>5, RecordWritten

LEMMA SyncCommitDeploy ==
  ASSUME DeployInv, NEW q \in Operators, SyncCommit(q)
  PROVE  DeployInv'
<1> DEFINE r == req[q].r
           out == req[q].out
<1>1. /\ r \in Records /\ Exists(r) /\ out \in Outcome /\ Told(remote[r], out)
  BY DEF DeployInv, RequestSound, SyncCommit, Exists
<1>2. /\ record' = [record EXCEPT ![r].status = Flushed(@, req[q].status, out)]
      /\ recent' = Touched(r) /\ remote' = remote /\ scan' = scan
      /\ req' = [req EXCEPT ![q] = Idle]
  BY DEF SyncCommit, EndRequest
<1> HIDE DEF r, out
<1>3. /\ Grown /\ Recorded'
      /\ record' \in [Records -> Record]
      /\ RecentOf(recent', {x \in Records : Exists(x)'})
      /\ remote' \in [Records -> Remote]
  BY <1>1, <1>2, StatusWritten
<1> QED BY <1>2, <1>3, IdleSound, RequestsStay, PassesSame, InvByParts

LEMMA AbandonDeploy ==
  ASSUME DeployInv, NEW q \in Operators, Abandon(q)
  PROVE  DeployInv'
<1>1. UNCHANGED Rows /\ UNCHANGED scan /\ req' = [req EXCEPT ![q] = Idle]
  BY DEF Abandon, EndRequest
<1> QED BY <1>1, IdleSound, RowsSame, RequestsStay, PassesSame, InvByParts

-----------------------------------------------------------------------------
(* The steps of workers. *)

\* A step of a pass that touches no row.
LEMMA PassMoves ==
  ASSUME DeployInv, NEW w \in Scanners, NEW new \in Pass,
         PassSound(new, record, remote), UNCHANGED <<Rows, req>>,
         scan' = [scan EXCEPT ![w] = new]
  PROVE  DeployInv'
<1>1. UNCHANGED Rows /\ UNCHANGED req
  OBVIOUS
<1>2. PassSound(new, record', remote')
  BY DEF Rows
<1> QED BY <1>1, <1>2, RowsSame, RequestsSame, PassesStay, InvByParts

\* A page of pending records is a queue of existing ones.
LEMMA ScanListDeploy ==
  ASSUME DeployInv, NEW w \in Scanners, ScanList(w)
  PROVE  DeployInv'
<1>1. PICK queue \in [1 .. PageSize -> Pending] :
         scan' = [scan EXCEPT ![w].queue = queue]
  BY DEF ScanList
<1>2. Cardinality(Pending) \in Nat
  <2>1. IsFiniteSet(Records)
    BY DeploymentsAssumption, FS_Interval DEF Records, DeploymentsAssumption
  <2>2. IsFiniteSet(Pending)
    BY <2>1, FS_Subset DEF Pending
  <2> QED BY <2>2, FS_CardinalityType
<1>3. PageSize \in Nat
  BY <1>2, DeploymentsAssumption DEF PageSize, DeploymentsAssumption
<1>4. queue \in Seq(Records) /\ DOMAIN queue = 1 .. PageSize
  BY <1>3 DEF Pending
<1>5. \A i \in DOMAIN queue : record[queue[i]].status # "none"
  BY <1>4 DEF Pending
<1> DEFINE new == [scan[w] EXCEPT !.queue = queue]
<1>6. new \in Pass /\ new.queue = queue /\ new.out = "none"
  BY <1>4 DEF DeployInv, TypeOK, Pass, ScanList, NoPass
<1>7. scan' = [scan EXCEPT ![w] = new] /\ UNCHANGED <<Rows, req>>
  BY <1>1 DEF ScanList
<1> HIDE DEF new
<1>8. PassSound(new, record, remote)
  BY <1>5, <1>6 DEF PassSound
<1> QED BY <1>6, <1>7, <1>8, PassMoves

\* The rest of a pass.
LEMMA NextOfPass ==
  ASSUME DeployInv, NEW w \in Scanners, scan[w].queue # <<>>
  PROVE  /\ Next1(w) \in Pass
         /\ PassSound(Next1(w), record, remote)
<1> DEFINE queue == scan[w].queue
<1>1. /\ queue \in Seq(Records) /\ queue # <<>>
      /\ PassSound(scan[w], record, remote)
  BY DEF DeployInv, TypeOK, Pass
<1>2. /\ Tail(queue) \in Seq(Records)
      /\ \A i \in DOMAIN Tail(queue) :
            i + 1 \in DOMAIN queue /\ Tail(queue)[i] = queue[i + 1]
  BY <1>1
<1>3. Next1(w).queue = Tail(queue) /\ Next1(w).out = "none"
  BY DEF Next1
<1>4. Next1(w) \in Pass
  BY <1>2 DEF Next1, Pass
<1> QED BY <1>1, <1>2, <1>3, <1>4 DEF PassSound

LEMMA ScanRefusedDeploy ==
  ASSUME DeployInv, NEW w \in Scanners, ScanRefused(w)
  PROVE  DeployInv'
  BY NextOfPass, PassMoves DEF ScanRefused

LEMMA ScanCrashDeploy ==
  ASSUME DeployInv, NEW w \in Scanners, ScanCrash(w)
  PROVE  DeployInv'
<1>1. NoPass \in Pass /\ PassSound(NoPass, record, remote)
  BY DEF NoPass, Pass, PassSound
<1> QED BY <1>1, PassMoves DEF ScanCrash

LEMMA ScanAnswerDeploy ==
  ASSUME DeployInv, NEW w \in Scanners, NEW body, ScanAnswer(w, body)
  PROVE  DeployInv'
<1> DEFINE r == Head(scan[w].queue)
           new == [scan[w] EXCEPT !.out = StatusAfterGet(body)]
<1>1. /\ scan[w] \in Pass /\ scan[w].queue \in Seq(Records)
      /\ scan[w].queue # <<>> /\ PassSound(scan[w], record, remote)
  BY DEF DeployInv, TypeOK, Pass, ScanAnswer
<1>2. r \in Records
  BY <1>1
<1>3. remote[r] \in Remote /\ body \in {BodyOf(remote[r]), Garbled}
  BY <1>2 DEF DeployInv, TypeOK, ScanAnswer
<1>4. /\ StatusAfterGet(body) \in Outcome
      /\ Told(remote[r], StatusAfterGet(body))
      /\ StatusAfterGet(body) # "pending" => remote[r].kind \in {"summary", "items"}
  BY <1>3, GetTold
<1>5. /\ new \in Pass
      /\ new.queue = scan[w].queue /\ new.out = StatusAfterGet(body)
  BY <1>1, <1>4 DEF Pass
<1>6. scan' = [scan EXCEPT ![w] = new] /\ UNCHANGED <<Rows, req>>
  BY DEF ScanAnswer
<1> HIDE DEF new
<1>7. PassSound(new, record, remote)
  BY <1>1, <1>4, <1>5 DEF PassSound
<1> QED BY <1>5, <1>6, <1>7, PassMoves

LEMMA ScanCommitDeploy ==
  ASSUME DeployInv, NEW w \in Scanners, ScanCommit(w)
  PROVE  DeployInv'
<1> DEFINE r == Head(scan[w].queue)
           out == scan[w].out
<1>1. /\ scan[w] \in Pass /\ scan[w].queue \in Seq(Records)
      /\ scan[w].queue # <<>> /\ PassSound(scan[w], record, remote)
  BY DEF DeployInv, TypeOK, Pass, PassSound, ScanCommit
<1>2. /\ r \in Records /\ Exists(r) /\ out \in Outcome /\ Told(remote[r], out)
  BY <1>1 DEF PassSound, Exists, Pass, ScanCommit
<1>3. /\ record' = [record EXCEPT ![r].status = Flushed(@, "pending", out)]
      /\ recent' = Touched(r) /\ remote' = remote /\ req' = req
      /\ scan' = [scan EXCEPT ![w] = Next1(w)]
  BY DEF ScanCommit
<1> HIDE DEF r, out
<1>4. /\ Grown /\ Recorded'
      /\ record' \in [Records -> Record]
      /\ RecentOf(recent', {x \in Records : Exists(x)'})
      /\ remote' \in [Records -> Remote]
  BY <1>2, <1>3, StatusWritten
<1>5. Next1(w) \in Pass /\ PassSound(Next1(w), record, remote)
  BY <1>1, NextOfPass
<1>6. PassSound(Next1(w), record', remote')
  <2>1. \A i \in DOMAIN Next1(w).queue :
           Next1(w).queue[i] \in Records /\ Next1(w).out = "none"
    BY <1>5 DEF Pass, Next1
  <2>2. Next1(w).out = "none"
    BY DEF Next1
  <2> QED BY <1>4, <1>5, <2>1, <2>2 DEF PassSound, Grown, Exists
<1> QED BY <1>3, <1>4, <1>5, <1>6, RequestsSame, PassesStay, InvByParts

-----------------------------------------------------------------------------

\* A job of a deployment that reports statuses ends.
LEMMA JobEndsDeploy ==
  ASSUME DeployInv, NEW r \in Records, NEW j \in Jobs, NEW outcome \in Outcome,
         JobEnds(r, j, outcome)
  PROVE  DeployInv'
<1> DEFINE new == [remote[r] EXCEPT !.jobs[j] = outcome]
<1>1. /\ remote[r] \in Remote /\ remote[r].jobs[j] = "pending"
      /\ remote' = [remote EXCEPT ![r] = new]
      /\ record' = record /\ recent' = recent /\ req' = req /\ scan' = scan
  BY DEF JobEnds, DeployInv, TypeOK
<1>2. /\ new \in Remote /\ new.kind = remote[r].kind
      /\ \A status : Told(remote[r], status) => Told(new, status)
  <2>1. ASSUME NEW status, Told(remote[r], status)
        PROVE  Told(new, status)
    BY <1>1, <2>1, EndTold
  <2>2. new \in Remote /\ new.kind = remote[r].kind
    BY <1>1 DEF Remote
  <2> QED BY <2>1, <2>2
<1> HIDE DEF new
<1>3. /\ remote' \in [Records -> Remote]
      /\ remote'[r] = new
      /\ \A x \in Records : x # r => remote'[x] = remote[x]
  BY <1>1, <1>2 DEF DeployInv, TypeOK
<1>4. Grown
  BY <1>1, <1>2, <1>3 DEF Grown, Exists
<1>5. Recorded'
  BY <1>1, <1>2, <1>3 DEF Recorded, DeployInv, Exists
<1>6. record' \in [Records -> Record]
  BY <1>1 DEF DeployInv, TypeOK
<1>7. RecentOf(recent', {x \in Records : Exists(x)'})
  BY <1>1 DEF DeployInv, TypeOK, RecentOf, Exists
<1> QED BY <1>1, <1>3, <1>4, <1>5, <1>6, <1>7, RequestsSame, PassesSame, InvByParts

LEMMA InitDeploy == Init => DeployInv
<1> SUFFICES ASSUME Init PROVE DeployInv
  OBVIOUS
<1>1. record \in [Records -> Record] /\ \A r \in Records : ~Exists(r)
  BY DEF Init, Record, Exists
<1>2. /\ recent = <<>> /\ recent \in Seq(Records) /\ DOMAIN recent = {}
  BY DEF Init
<1>3. {r \in Records : Exists(r)} = {}
  BY <1>1
<1>4. {recent[i] : i \in DOMAIN recent} = {}
  BY <1>2
<1>5. remote \in [Records -> Remote]
  BY DEF Init, Remote, Kinds, Outcome
<1>6. req \in [Operators -> Request] /\ \A q \in Operators : req[q] = Idle
  BY IdleSound DEF Init
<1>7. scan \in [Scanners -> Pass] /\ \A w \in Scanners : scan[w] = NoPass
  BY DEF Init, NoPass, Pass
<1>8. TypeOK
  BY <1>1, <1>2, <1>3, <1>4, <1>5, <1>6, <1>7 DEF TypeOK
<1>9. Recorded
  BY <1>1 DEF Recorded, Told, Exists
<1>10. \A w \in Scanners : PassSound(scan[w], record, remote)
  BY <1>7 DEF PassSound, NoPass
<1> QED BY <1>6, <1>8, <1>9, <1>10, IdleSound DEF DeployInv

LEMMA NextDeploy == ASSUME DeployInv, [Next]_vars PROVE DeployInv'
<1>1. ASSUME NEW q \in Operators, Operator(q) PROVE DeployInv'
  BY <1>1, LoadDeploy, PostDeploy, CreateCommitDeploy, RedeployMarkDeploy,
     SyncAnswerDeploy, SyncCommitDeploy, AbandonDeploy DEF Operator
<1>2. ASSUME NEW w \in Scanners, Scanner(w) PROVE DeployInv'
  BY <1>2, ScanListDeploy, ScanRefusedDeploy, ScanAnswerDeploy,
     ScanCommitDeploy, ScanCrashDeploy DEF Scanner
<1>3. CASE Environment
  BY <1>3, JobEndsDeploy DEF Environment
<1>4. CASE UNCHANGED vars
  <2>1. UNCHANGED Rows /\ UNCHANGED req /\ UNCHANGED scan
    BY <1>4 DEF vars, Rows
  <2> QED BY <2>1, RowsSame, RequestsSame, PassesSame, InvByParts
<1> QED BY <1>1, <1>2, <1>3, <1>4 DEF Next

LEMMA DeployInvariant == Spec => []DeployInv
<1>1. Init => DeployInv
  BY InitDeploy
<1>2. DeployInv /\ [Next]_vars => DeployInv'
  BY NextDeploy
<1> QED BY <1>1, <1>2, PTL DEF Spec

-----------------------------------------------------------------------------
(* Theorems. *)

\* Whatever requests and passes overlap: every record has one place in the
\* order of updates, and a pass holds records only
\* (sync_deploy_record_status, sync_pending_deploy_records).
THEOREM DeploymentsTypeCorrect == Spec => []TypeOK
<1>1. DeployInv => TypeOK
  BY DEF DeployInv
<1> QED BY <1>1, DeployInvariant, PTL

\* For every number of jobs, records, operators and workers: a record is
\* deployed only when every job the provider reports is, and failed only when
\* one has failed, however late or garbled the answers are
\* (_choose_status_signal, sync_deploy_record_status).
THEOREM FinalStatusIsTold == Spec => []FinalIsTold
<1>1. DeployInv => FinalIsTold
  BY DEF DeployInv, Recorded, Told, FinalIsTold
<1> QED BY <1>1, DeployInvariant, PTL

\* No pass of a worker takes a final status back, or turns one into the other,
\* however old the rows are that it goes by (sync_pending_deploy_records).
THEOREM WorkerKeepsFinalStatus == Spec => WorkerKeepsFinal
<1> DEFINE Kept ==
      (\E w \in Scanners : ScanCommit(w)) =>
        \A r \in Records : record[r].status \in {"deployed", "failed"} =>
            record'[r].status = record[r].status
<1>1. ASSUME DeployInv, NEW w \in Scanners, ScanCommit(w), NEW r \in Records,
             record[r].status \in {"deployed", "failed"}
      PROVE  record'[r].status = record[r].status
  <2> DEFINE h == Head(scan[w].queue)
             out == scan[w].out
  <2>1. /\ scan[w] \in Pass /\ scan[w].queue \in Seq(Records)
        /\ scan[w].queue # <<>> /\ PassSound(scan[w], record, remote)
    BY <1>1 DEF DeployInv, TypeOK, Pass, PassSound, ScanCommit
  <2>2. h \in Records /\ out \in Outcome /\ Told(remote[h], out)
    BY <1>1, <2>1 DEF PassSound, Pass, ScanCommit
  <2>3. out # "pending" => remote[h].kind \in {"summary", "items"}
    BY <1>1, <2>1 DEF PassSound, ScanCommit
  <2>4. record' = [record EXCEPT ![h].status = Flushed(@, "pending", out)]
    BY <1>1 DEF ScanCommit
  <2> HIDE DEF h, out
  <2>5. CASE r # h
    BY <1>1, <2>4, <2>5 DEF DeployInv, TypeOK
  <2>6. CASE r = h
    <3>1. record'[r].status = Flushed(record[r].status, "pending", out)
      BY <1>1, <2>2, <2>4, <2>6 DEF DeployInv, TypeOK, Record
    <3>2. Told(remote[r], record[r].status)
      BY <1>1 DEF DeployInv, Recorded
    <3>3. out # "pending" => out = record[r].status
      BY <1>1, <2>2, <2>3, <2>6, <3>2 DEF Told, Outcome
    <3> QED BY <3>1, <3>3 DEF Flushed
  <2> QED BY <2>5, <2>6
<1>2. DeployInv => Kept
  BY <1>1
<1>3. DeployInv /\ [Next]_vars => [Kept]_vars
  BY <1>2
<1> QED BY <1>3, DeployInvariant, PTL DEF Spec, WorkerKeepsFinal
=============================================================================
