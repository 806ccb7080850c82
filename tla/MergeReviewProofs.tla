--------------------------- MODULE MergeReviewProofs ---------------------------
(***************************************************************************)
(* Proofs about MergeReview, for every number of calls served at a time,   *)
(* every set of providers and checks, with webhooks or without.            *)
(***************************************************************************)
EXTENDS MergeReview, TLAPS

USE DEF Statuses, Reviews, States, Ops, Pages

-----------------------------------------------------------------------------
(* The inductive invariant.                                                *)
(*                                                                         *)
(* That a review passes for a cause is said of the commit, but the cause   *)
(* lies earlier: what a request is about to write was worked out from the  *)
(* checks a sync has read or from the event of a webhook, and the forge    *)
(* may have changed since.  So the invariant says that whatever a request  *)
(* is about to write as passed had a cause at the forge, that a successful *)
(* check is remembered for ever, and, for the type, that a request that    *)
(* has loaded a record finds one.                                          *)

Records == [status : Statuses \ {"none"}, review : Reviews \ {"none"}]

\* Requests that have loaded the record.
Loaders == {"sync", "looked", "told", "review", "hook", "repair", "push", "mark"}

Sound(x) ==
  /\ x \in Request
  /\ x.op \in Loaders => mr # NoPair
  /\ x.new.review = "passed" => ForgeCause

SuccessIsKept ==
  \A c \in Commits, k \in Checks :
     forge.checks[c][k] = "success" =>
        IF c = 0 THEN forge.green ELSE forge.passed

ReviewInv ==
  /\ TypeOK
  /\ SuccessIsKept
  /\ \A q \in Requests : Sound(req[q])

-----------------------------------------------------------------------------
(* What the helpers return. *)

LEMMA PairFacts ==
  /\ NoPair \in Pair /\ Passed \in Records /\ Blocked \in Records
  /\ Closed \in Records /\ Open \in Records /\ Records \subseteq Pair
  /\ NoPair \notin Records
  /\ Passed.review = "passed" /\ NoPair.review # "passed"
  /\ Blocked.review # "passed" /\ Closed.review # "passed"
  /\ Open.review # "passed"
BY DEF NoPair, Passed, Blocked, Closed, Open, Pair, Records

\* Only what was to be written is, and only a pass passes.
LEMMA ChangedFacts ==
  ASSUME NEW old \in Pair, NEW new \in Pair
  PROVE  /\ Changed(old, new) \in Pair
         /\ Changed(old, new).review = "passed" => new.review = "passed"
BY DEF Changed, Pair

LEMMA FlushedFacts ==
  ASSUME mr \in Records, NEW new \in Pair
  PROVE  /\ Flushed(new) \in Records
         /\ Flushed(new).review = "passed" =>
              mr.review = "passed" \/ new.review = "passed"
BY DEF Flushed, Pair, Records

\* A verdict is a record's pair; it passes on successful checks only.
LEMMA VerdictFacts ==
  ASSUME NEW page, NEW checks
  PROVE  /\ Verdict(page, checks) \in Records
         /\ Verdict(page, checks).review = "passed" =>
              \E k \in Checks : checks[k] = "success"
<1>1. Verdict(page, checks) \in {Closed, Blocked, Passed, Open}
  BY DEF Verdict
<1>2. Verdict(page, checks) = Passed => Signals(checks) = {"success"}
  BY DEF Verdict, Passed, Closed, Blocked, Open
<1>3. Signals(checks) = {"success"} => \E k \in Checks : checks[k] = "success"
  BY DEF Signals
<1> QED BY <1>1, <1>2, <1>3, PairFacts

LEMMA IdleFacts ==
  /\ Idle \in Request
  /\ Idle.op = "idle" /\ Idle.old = NoPair /\ Idle.new = NoPair
  /\ Idle.page = "none" /\ Idle.attempt = 0
BY MergeReviewAssumption, PairFacts DEF Idle, Request

LEMMA IdleSound == Sound(Idle)
BY IdleFacts, PairFacts DEF Sound, Loaders

\* The fields of a request are independent.
LEMMA RequestFacts ==
  ASSUME NEW x \in Request
  PROVE  /\ x.op \in Ops /\ x.old \in Pair /\ x.new \in Pair
         /\ x.page \in Pages /\ x.attempt \in 0 .. Attempts
         /\ x = [op |-> x.op, old |-> x.old, new |-> x.new,
                 page |-> x.page, attempt |-> x.attempt]
BY DEF Request

\* A request that begins.
LEMMA BeginSound ==
  ASSUME TypeOK, NEW op \in Ops, op \in Loaders => mr # NoPair
  PROVE  Sound(Begin(op))
<1> DEFINE x == [Idle EXCEPT !.op = op]
           y == [x EXCEPT !.old = mr]
<1>1. mr \in Pair
  BY PairFacts DEF TypeOK, Records
<1>2. x \in Request /\ x.op = op /\ x.new = NoPair
  BY IdleFacts DEF Request
<1> HIDE DEF x
<1>3. y \in Request /\ y.op = op /\ y.new = NoPair
  BY <1>1, <1>2 DEF Request
<1>4. Begin(op) = y
  BY DEF Begin, x
<1> QED BY <1>3, <1>4, PairFacts DEF Sound

\* A request that knows what it is about to write.
LEMMA WriterSound ==
  ASSUME NEW op \in {"told", "hook", "repair"}, NEW new \in Pair,
         mr # NoPair, new.review = "passed" => ForgeCause
  PROVE  Sound([Idle EXCEPT !.op = op, !.new = new])
<1> DEFINE x == [Idle EXCEPT !.op = op]
           y == [x EXCEPT !.new = new]
<1>1. x \in Request /\ x.op = op
  BY IdleFacts DEF Request
<1> HIDE DEF x
<1>2. y \in Request /\ y.op = op /\ y.new = new
  BY <1>1 DEF Request
<1>3. Sound(y)
  BY <1>2 DEF Sound, Loaders
<1> QED BY <1>3 DEF x

\* A request that goes on keeps what it is about to write.
LEMMA GoesOnSound ==
  ASSUME NEW x \in Request, Sound(x), NEW y \in Request,
         y.new = x.new, y.op \in Loaders => x.op \in Loaders
  PROVE  Sound(y)
BY DEF Sound

-----------------------------------------------------------------------------
(* One lemma for all steps: at most one request changes, to a sound one;   *)
(* a record stays one; the forge does not forget.                          *)

LEMMA StepKeepsInv ==
  ASSUME ReviewInv,
         \/ req' = req
         \/ \E q \in Requests : \E x : Sound(x) /\ req' = [req EXCEPT ![q] = x],
         UNCHANGED <<provider, recorded>>,
         mr' = mr \/ mr' \in Records,
         forge' \in Forge,
         forge.passed => forge'.passed, forge.green => forge'.green,
         SuccessIsKept'
  PROVE  ReviewInv'
<1>1. \A q \in Requests : req'[q] = req[q] \/ Sound(req'[q])
  BY DEF ReviewInv, TypeOK
<1>2. \A q \in Requests : Sound(req'[q])
  BY <1>1 DEF ReviewInv
<1>3. req' \in [Requests -> Request]
  BY <1>2 DEF ReviewInv, TypeOK, Sound
<1>4. mr # NoPair => mr' # NoPair
  BY PairFacts
<1>5. TypeOK'
  BY <1>3 DEF ReviewInv, TypeOK, Records
<1>6. \A q \in Requests : Sound(req[q])'
  BY <1>2, <1>4 DEF Sound, ForgeCause
<1> QED BY <1>5, <1>6 DEF ReviewInv

\* Nothing but a request moves.
LEMMA RequestStep ==
  ASSUME ReviewInv, NEW q \in Requests, NEW x, Sound(x),
         req' = [req EXCEPT ![q] = x], UNCHANGED <<provider, recorded, mr, forge>>
  PROVE  ReviewInv'
<1>1. forge' \in Forge /\ SuccessIsKept'
  BY DEF ReviewInv, TypeOK, SuccessIsKept
<1> QED BY <1>1, StepKeepsInv

\* A request ends with a commit.
LEMMA CommitStep ==
  ASSUME ReviewInv, NEW q \in Requests, EndRequest(q), mr' = mr \/ mr' \in Records,
         UNCHANGED <<provider, recorded, forge>>
  PROVE  ReviewInv'
<1>1. forge' \in Forge /\ SuccessIsKept'
  BY DEF ReviewInv, TypeOK, SuccessIsKept
<1> QED BY <1>1, IdleSound, StepKeepsInv DEF EndRequest

\* A request that has loaded the record finds one.
LEMMA LoaderHasRecord ==
  ASSUME ReviewInv, NEW q \in Requests, req[q].op \in Loaders
  PROVE  mr \in Records
BY DEF ReviewInv, TypeOK, Sound, Records

-----------------------------------------------------------------------------
LEMMA InitHolds == Init => ReviewInv
<1> SUFFICES ASSUME Init PROVE ReviewInv
  OBVIOUS
<1>1. 1 \in Commits
  BY MergeReviewAssumption DEF Commits
<1>2. forge \in Forge /\ SuccessIsKept
  BY <1>1 DEF Init, Forge, SuccessIsKept, NoChecks
<1>3. TypeOK
  BY <1>2, IdleFacts DEF Init, TypeOK
<1>4. \A q \in Requests : Sound(req[q])
  BY IdleSound DEF Init
<1> QED BY <1>2, <1>3, <1>4 DEF ReviewInv

LEMMA CallersAreRequests == Callers \subseteq Requests
BY DEF Requests

\* The steps of create_merge_request_record.
LEMMA CreateKeeps ==
  ASSUME ReviewInv, NEW q \in Requests,
         \/ CreateLoad(q) \/ CreateCommit(q)
         \/ \E labelled \in BOOLEAN : CreatePost(q, labelled)
  PROVE  ReviewInv'
<1>1. CASE CreateLoad(q)
  BY <1>1, BeginSound, RequestStep DEF CreateLoad, ReviewInv, Loaders
<1>2. ASSUME NEW labelled \in BOOLEAN, CreatePost(q, labelled)
      PROVE  ReviewInv'
  <2>1. /\ forge' = [forge EXCEPT !.state = forge'.state]
        /\ forge'.state \in States
    BY <1>2 DEF CreatePost, ReviewInv, TypeOK, Forge
  <2>2. /\ forge' \in Forge
        /\ forge'.checks = forge.checks
        /\ forge'.passed = forge.passed
        /\ forge'.green = forge.green
    BY <2>1 DEF ReviewInv, TypeOK, Forge
  <2>3. SuccessIsKept'
    BY <2>2 DEF ReviewInv, SuccessIsKept
  <2> DEFINE x == [req[q] EXCEPT !.op = "posted"]
  <2>4. req[q] \in Request /\ Sound(req[q])
    BY DEF ReviewInv, TypeOK
  <2>5. x \in Request /\ x.new = req[q].new /\ x.op = "posted"
    BY <2>4, RequestFacts DEF Request
  <2>6. req' = [req EXCEPT ![q] = x] \/ req' = [req EXCEPT ![q] = Idle]
    BY <1>2 DEF CreatePost
  <2> HIDE DEF x
  <2>7. Sound(x)
    BY <2>4, <2>5, GoesOnSound DEF Loaders
  <2> QED BY <1>2, <2>2, <2>3, <2>6, <2>7, IdleSound, StepKeepsInv DEF CreatePost
<1>3. CASE CreateCommit(q)
  <2>1. mr' = mr \/ mr' \in Records
    BY <1>3 DEF CreateCommit, Records
  <2> QED BY <1>3, <2>1, CommitStep DEF CreateCommit
<1> QED BY <1>1, <1>2, <1>3

-----------------------------------------------------------------------------
\* What a sync reads as a success is a cause: it was a success of a commit of
\* the request, or of the commit its run's branch began with.
LEMMA RecordedSuccess ==
  ASSUME ReviewInv, NEW k \in Checks, RecordedChecks[k] = "success"
  PROVE  ForgeCause
<1>1. recorded \in {"base", "head", "none"}
  BY MergeReviewAssumption DEF ReviewInv, TypeOK
<1>2. 0 \in Commits /\ 1 \in Commits
  BY MergeReviewAssumption DEF Commits
<1>3. CASE recorded = "base"
  <2>1. forge.checks[0][k] = "success"
    BY <1>3 DEF RecordedChecks
  <2> QED BY <1>2, <1>3, <2>1 DEF ReviewInv, SuccessIsKept, ForgeCause
<1>4. CASE recorded = "head"
  <2>1. forge.checks[1][k] = "success"
    BY <1>4 DEF RecordedChecks
  <2>2. forge.passed
    BY <1>2, <2>1 DEF ReviewInv, SuccessIsKept
  <2> QED BY <2>2 DEF ForgeCause
<1>5. CASE recorded = "none"
  BY <1>5 DEF RecordedChecks, NoChecks
<1> QED BY <1>1, <1>3, <1>4, <1>5

\* The steps of sync_merge_request_remote_review.
LEMMA SyncKeeps ==
  ASSUME ReviewInv, NEW q \in Requests, Sync(q)
  PROVE  ReviewInv'
<1>0. req[q] \in Request /\ Sound(req[q])
  BY DEF ReviewInv, TypeOK
<1>1. CASE SyncLoad(q)
  BY <1>1, BeginSound, RequestStep DEF SyncLoad, ReviewInv
<1>2. CASE SyncLook(q)
  <2> DEFINE x == [req[q] EXCEPT !.op = "looked"]
             y == [x EXCEPT !.page = PageOf(forge)]
  <2>1. PageOf(forge) \in Pages
    BY DEF PageOf
  <2>2. x \in Request /\ x.op = "looked" /\ x.new = req[q].new
    BY <1>0 DEF Request
  <2>3. req' = [req EXCEPT ![q] = y]
    BY <1>2 DEF SyncLook, ReviewInv, TypeOK
  <2> HIDE DEF x
  <2>4. y \in Request /\ y.op = "looked" /\ y.new = req[q].new
    BY <2>1, <2>2 DEF Request
  <2>5. Sound(y)
    BY <1>0, <1>2, <2>4, GoesOnSound DEF SyncLook, Loaders
  <2> HIDE DEF y
  <2> QED BY <1>2, <2>3, <2>5, RequestStep DEF SyncLook
<1>3. CASE SyncChecks(q)
  <2> DEFINE verdict == Verdict(req[q].page, RecordedChecks)
             new == Changed(req[q].old, verdict)
  <2>1. \A k \in Checks : RecordedChecks[k] = "success" => ForgeCause
    BY RecordedSuccess
  <2>2. verdict \in Pair /\ (verdict.review = "passed" => ForgeCause)
    BY <2>1, VerdictFacts, PairFacts
  <2>3. req' = [req EXCEPT ![q] = [Idle EXCEPT !.op = "told", !.new = new]]
    BY <1>3 DEF SyncChecks
  <2>4. req[q].old \in Pair
    BY <1>0, RequestFacts
  <2>5. mr # NoPair
    BY <1>0, <1>3 DEF SyncChecks, Sound, Loaders
  <2> HIDE DEF verdict
  <2>6. new \in Pair /\ (new.review = "passed" => ForgeCause)
    BY <2>2, <2>4, ChangedFacts
  <2> HIDE DEF new
  <2>7. Sound([Idle EXCEPT !.op = "told", !.new = new])
    BY <2>5, <2>6, WriterSound
  <2> QED BY <1>3, <2>3, <2>7, RequestStep DEF SyncChecks
<1>4. CASE SyncCommit(q)
  <2>1. mr \in Records
    BY <1>4, LoaderHasRecord DEF SyncCommit, Loaders
  <2>2. mr' \in Records
    BY <1>0, <1>4, <2>1, RequestFacts, FlushedFacts DEF SyncCommit
  <2> QED BY <1>4, <2>2, CommitStep DEF SyncCommit
<1> QED BY <1>1, <1>2, <1>3, <1>4 DEF Sync

\* The steps of record_merge_request_review.
LEMMA ReviewKeeps ==
  ASSUME ReviewInv, NEW q \in Requests,
         \/ ReviewLoad(q)
         \/ \E said \in Reviews, blockers \in BOOLEAN : ReviewCommit(q, said, blockers)
  PROVE  ReviewInv'
<1>0. req[q] \in Request
  BY DEF ReviewInv, TypeOK
<1>1. CASE ReviewLoad(q)
  BY <1>1, BeginSound, RequestStep DEF ReviewLoad, ReviewInv
<1>2. ASSUME NEW said \in Reviews, NEW blockers \in BOOLEAN,
             ReviewCommit(q, said, blockers)
      PROVE  ReviewInv'
  <2>1. mr \in Records
    BY <1>2, LoaderHasRecord DEF ReviewCommit, Loaders
  <2>2. PICK new \in Pair : mr' = Flushed(Changed(req[q].old, new))
    <3> DEFINE review == IF blockers THEN "blocking" ELSE said
               new == IF review = "passed" THEN Passed
                      ELSE [Blocked EXCEPT !.review = review]
    <3>1. review \in Reviews
      BY DEF Reviews
    <3>2. mr' = Flushed(Changed(req[q].old, new))
      BY <1>2 DEF ReviewCommit
    <3> HIDE DEF review
    <3>3. new \in Pair
      BY <3>1, PairFacts DEF Pair, Records
    <3> QED BY <3>2, <3>3
  <2>3. mr' \in Records
    BY <1>0, <2>1, <2>2, RequestFacts, ChangedFacts, FlushedFacts
  <2> QED BY <1>2, <2>3, CommitStep DEF ReviewCommit
<1> QED BY <1>1, <1>2

\* The steps of the webhooks.
LEMMA HookKeeps ==
  ASSUME ReviewInv, NEW q \in Requests, Hook(q)
  PROVE  ReviewInv'
<1>0. req[q] \in Request
  BY DEF ReviewInv, TypeOK
<1>1. ASSUME NEW event \in {Passed, Blocked, Closed, Open}, HookLoad(q, event)
      PROVE  ReviewInv'
  <2>1. event \in Pair /\ (event.review = "passed" => ForgeCause)
    BY <1>1, PairFacts DEF HookLoad, ForgeCause
  <2>2. mr \in Pair /\ mr # NoPair
    BY <1>1, PairFacts DEF HookLoad, ReviewInv, TypeOK, Records
  <2> DEFINE new == Changed(mr, event)
  <2>3. new \in Pair /\ (new.review = "passed" => ForgeCause)
    BY <2>1, <2>2, ChangedFacts
  <2>4. req' = [req EXCEPT ![q] = [Idle EXCEPT !.op = "hook", !.new = new]]
    BY <1>1 DEF HookLoad
  <2> HIDE DEF new
  <2>5. Sound([Idle EXCEPT !.op = "hook", !.new = new])
    BY <2>2, <2>3, WriterSound
  <2> QED BY <1>1, <2>4, <2>5, RequestStep DEF HookLoad
<1>2. CASE HookCommit(q)
  <2>1. mr \in Records
    BY <1>2, LoaderHasRecord DEF HookCommit, Loaders
  <2>2. mr' \in Records
    BY <1>0, <1>2, <2>1, RequestFacts, FlushedFacts DEF HookCommit
  <2> QED BY <1>2, <2>2, CommitStep DEF HookCommit
<1> QED BY <1>1, <1>2 DEF Hook

\* The steps of auto_repair_merge_request_review.
LEMMA RepairKeeps ==
  ASSUME ReviewInv, NEW q \in Requests, Repair(q)
  PROVE  ReviewInv'
<1>0. req[q] \in Request /\ Sound(req[q])
  BY DEF ReviewInv, TypeOK
<1>1. CASE RepairLoad(q)
  <2> DEFINE new == Changed(mr, Open)
  <2>1. mr \in Pair /\ mr # NoPair
    BY <1>1, PairFacts DEF RepairLoad, ReviewInv, TypeOK, Records, NoPair
  <2>2. new \in Pair /\ new.review # "passed"
    BY <2>1, ChangedFacts, PairFacts
  <2>3. req' = [req EXCEPT ![q] = [Idle EXCEPT !.op = "repair", !.new = new]]
    BY <1>1 DEF RepairLoad
  <2> HIDE DEF new
  <2>4. Sound([Idle EXCEPT !.op = "repair", !.new = new])
    BY <2>1, <2>2, WriterSound
  <2> QED BY <1>1, <2>3, <2>4, RequestStep DEF RepairLoad
<1>2. ASSUME NEW outcome \in {"succeeded", "failed", "other"}, RepairRun(q, outcome)
      PROVE  ReviewInv'
  <2> DEFINE attempt == req[q].attempt + 1
             x == [req[q] EXCEPT !.op = "push"]
             pushed == [x EXCEPT !.attempt = 0]
             again == [req[q] EXCEPT !.attempt = attempt]
  <2>1. \/ req' = [req EXCEPT ![q] = pushed]
        \/ attempt < Attempts /\ req' = [req EXCEPT ![q] = again]
        \/ req' = [req EXCEPT ![q] = Idle]
    BY <1>2 DEF RepairRun, ReviewInv, TypeOK
  <2>2. x \in Request /\ x.op = "push" /\ x.new = req[q].new
    BY <1>0 DEF Request
  <2> HIDE DEF x
  <2>3. pushed \in Request /\ pushed.op = "push" /\ pushed.new = req[q].new
    BY <2>2, MergeReviewAssumption DEF Request
  <2>4. attempt < Attempts => attempt \in 0 .. Attempts
    BY <1>0, MergeReviewAssumption, RequestFacts
  <2> HIDE DEF attempt
  <2>5. attempt < Attempts =>
          again \in Request /\ again.op = req[q].op /\ again.new = req[q].new
    BY <1>0, <2>4 DEF Request
  <2> HIDE DEF pushed, again
  <2>6. Sound(pushed) /\ (attempt < Attempts => Sound(again))
    BY <1>0, <1>2, <2>3, <2>5, GoesOnSound DEF RepairRun, Loaders
  <2> QED BY <1>2, <2>1, <2>6, IdleSound, RequestStep DEF RepairRun
<1>3. ASSUME NEW enabled \in BOOLEAN, RepairPush(q, enabled)
      PROVE  ReviewInv'
  <2>1. /\ forge' \in Forge
        /\ forge'.checks = forge.checks
        /\ forge'.passed = forge.passed
        /\ forge'.green = forge.green
    <3>1. CASE ~enabled
      BY <1>3, <3>1 DEF RepairPush, ReviewInv, TypeOK
    <3>2. CASE enabled
      <4>1. forge.head + 1 \in Commits
        BY <1>3, <3>2, MergeReviewAssumption
        DEF RepairPush, ReviewInv, TypeOK, Forge, Commits
      <4> QED BY <1>3, <3>2, <4>1 DEF RepairPush, ReviewInv, TypeOK, Forge
    <3> QED BY <3>1, <3>2
  <2>2. SuccessIsKept'
    BY <2>1 DEF ReviewInv, SuccessIsKept
  <2> DEFINE x == [req[q] EXCEPT !.op = "mark"]
  <2>3. req' = [req EXCEPT ![q] = x]
    BY <1>3 DEF RepairPush
  <2>4. x \in Request /\ x.op = "mark" /\ x.new = req[q].new
    BY <1>0 DEF Request
  <2> HIDE DEF x
  <2>5. Sound(x)
    BY <1>0, <1>3, <2>4, GoesOnSound DEF RepairPush, Loaders
  <2> QED BY <1>3, <2>1, <2>2, <2>3, <2>5, StepKeepsInv DEF RepairPush
<1>4. CASE RepairMark(q)
  <2>1. mr \in Records
    BY <1>4, LoaderHasRecord DEF RepairMark, Loaders
  <2>2. mr' \in Records
    BY <1>0, <1>4, <2>1, RequestFacts, FlushedFacts DEF RepairMark
  <2> QED BY <1>4, <2>2, CommitStep DEF RepairMark
<1> QED BY <1>1, <1>2, <1>3, <1>4 DEF Repair

\* The forge remembers every successful check.
LEMMA ForgeKeeps ==
  ASSUME ReviewInv, ForgeMoves
  PROVE  ReviewInv'
<1>0. forge \in Forge
  BY DEF ReviewInv, TypeOK
<1>1. UNCHANGED <<provider, recorded, mr, req>>
  BY DEF ForgeMoves, ForgeState, ForgeReview, ForgeCheck
<1>2. ASSUME NEW state \in States, ForgeState(state)
      PROVE  ReviewInv'
  <2> DEFINE x == [forge EXCEPT !.state = state]
  <2>1. /\ x \in Forge /\ x.checks = forge.checks /\ x.passed = forge.passed
        /\ x.green = forge.green
    BY <1>0 DEF Forge
  <2>2. forge' = [x EXCEPT !.passed = forge.passed \/ state = "merged"]
    BY <1>2 DEF ForgeState
  <2> HIDE DEF x
  <2>3. /\ forge' \in Forge
        /\ forge'.checks = forge.checks
        /\ forge.passed => forge'.passed
        /\ forge'.green = forge.green
    BY <1>0, <2>1, <2>2 DEF Forge
  <2>4. SuccessIsKept'
    BY <2>3 DEF ReviewInv, SuccessIsKept
  <2> QED BY <1>1, <2>3, <2>4, StepKeepsInv
<1>3. ASSUME NEW issues \in BOOLEAN, NEW waits \in BOOLEAN, ForgeReview(issues, waits)
      PROVE  ReviewInv'
  <2> DEFINE x == [forge EXCEPT !.issues = issues]
  <2>1. /\ x \in Forge /\ x.checks = forge.checks /\ x.passed = forge.passed
        /\ x.green = forge.green
    BY <1>0 DEF Forge
  <2>2. forge' = [x EXCEPT !.waits = waits]
    BY <1>3 DEF ForgeReview
  <2> HIDE DEF x
  <2>3. /\ forge' \in Forge
        /\ forge'.checks = forge.checks
        /\ forge'.passed = forge.passed
        /\ forge'.green = forge.green
    BY <2>1, <2>2 DEF Forge
  <2>4. SuccessIsKept'
    BY <2>3 DEF ReviewInv, SuccessIsKept
  <2> QED BY <1>1, <2>3, <2>4, StepKeepsInv
<1>4. ASSUME NEW c \in Commits, NEW k \in Checks, NEW outcome \in Outcomes,
             ForgeCheck(c, k, outcome)
      PROVE  ReviewInv'
  <2> DEFINE now == [forge.checks[c] EXCEPT ![k] = outcome]
             checks == [forge.checks EXCEPT ![c] = now]
             passed == forge.passed \/ (c # 0 /\ outcome = "success")
             green == forge.green \/ (c = 0 /\ outcome = "success")
             x == [forge EXCEPT !.checks = checks]
             y == [x EXCEPT !.passed = passed]
  <2>1. /\ forge.checks \in [Commits -> [Checks -> Outcomes \cup {"none"}]]
        /\ forge.passed \in BOOLEAN /\ forge.green \in BOOLEAN
    BY <1>0 DEF Forge
  <2>2. now \in [Checks -> Outcomes \cup {"none"}]
    BY <2>1
  <2>3. checks \in [Commits -> [Checks -> Outcomes \cup {"none"}]]
    BY <2>1, <2>2
  <2>4. \A d \in Commits, j \in Checks :
           checks[d][j] = "success" =>
              forge.checks[d][j] = "success" \/ (d = c /\ outcome = "success")
    BY <2>1, <2>2
  <2>5. forge' = [y EXCEPT !.green = green]
    BY <1>4 DEF ForgeCheck
  <2>6. /\ forge.passed => passed
        /\ forge.green => green
        /\ outcome = "success" => IF c = 0 THEN green ELSE passed
        /\ passed \in BOOLEAN /\ green \in BOOLEAN
    OBVIOUS
  <2> HIDE DEF checks
  <2>7. x \in Forge /\ x.checks = checks /\ x.green = forge.green
    BY <1>0, <2>3 DEF Forge
  <2> HIDE DEF x, passed, green
  <2>8. y \in Forge /\ y.checks = checks /\ y.passed = passed
    BY <2>6, <2>7 DEF Forge
  <2> HIDE DEF y
  <2>9. /\ forge' \in Forge /\ forge'.checks = checks
        /\ forge'.passed = passed /\ forge'.green = green
    BY <2>5, <2>6, <2>8 DEF Forge
  <2>10. SuccessIsKept'
    BY <2>4, <2>6, <2>9 DEF ReviewInv, SuccessIsKept
  <2> QED BY <1>1, <2>6, <2>9, <2>10, StepKeepsInv
<1> QED BY <1>2, <1>3, <1>4 DEF ForgeMoves

LEMMA NextKeeps == ReviewInv /\ [Next]_vars => ReviewInv'
<1> SUFFICES ASSUME ReviewInv, [Next]_vars PROVE ReviewInv'
  OBVIOUS
<1>1. ASSUME NEW q \in Callers, Person(q)
      PROVE  ReviewInv'
  BY <1>1, CallersAreRequests, CreateKeeps, ReviewKeeps DEF Person
<1>2. ASSUME NEW q \in Requests, Abandon(q)
      PROVE  ReviewInv'
  BY <1>2, CommitStep DEF Abandon
<1>3. CASE UNCHANGED vars
  BY <1>3 DEF vars, ReviewInv, TypeOK, SuccessIsKept, Sound, ForgeCause
<1>4. CASE Next
  BY <1>1, <1>2, <1>4, CallersAreRequests, RepairKeeps, HookKeeps, SyncKeeps,
     ForgeKeeps DEF Next
<1> QED BY <1>3, <1>4

LEMMA ReviewInvHolds == Spec => []ReviewInv
BY InitHolds, NextKeeps, PTL DEF Spec

-----------------------------------------------------------------------------
\* Every record, request and answer of the forge keeps its type; above all, a
\* record once created is never left without a status or a review, whatever
\* columns overlapping requests write (create_merge_request_record,
\* sync_merge_request_remote_review, record_merge_request_review, the
\* webhooks, auto_repair_merge_request_review).
THEOREM MergeReviewTypeCorrect == Spec => []TypeOK
<1>1. ReviewInv => TypeOK
  BY DEF ReviewInv
<1> QED BY <1>1, ReviewInvHolds, PTL

\* A step that ends with a passed review is a person's, or the forge has had
\* a cause for it.
LEMMA PassStep ==
  ASSUME ReviewInv, [Next]_vars, mr.review # "passed", mr'.review = "passed"
  PROVE  ForgeCause \/ \E q \in Callers : ReviewCommit(q, "passed", FALSE)
<1>0. mr' # mr
  OBVIOUS
<1>1. ASSUME NEW q \in Requests, mr \in Records, mr' = Flushed(req[q].new)
      PROVE  ForgeCause
  BY <1>1, RequestFacts, FlushedFacts DEF ReviewInv, TypeOK, Sound
<1>2. ASSUME NEW q \in Callers, NEW said \in Reviews, NEW blockers \in BOOLEAN,
             ReviewCommit(q, said, blockers)
      PROVE  ReviewCommit(q, "passed", FALSE)
  <2>0. req[q].old \in Pair
    BY CallersAreRequests, RequestFacts DEF ReviewInv, TypeOK
  <2>1. mr \in Records
    BY <1>2, CallersAreRequests, LoaderHasRecord DEF ReviewCommit, Loaders
  <2>2. CASE ~blockers /\ said = "passed"
    BY <1>2, <2>2
  <2>3. CASE blockers \/ said # "passed"
    <3> DEFINE review == IF blockers THEN "blocking" ELSE said
               new == [Blocked EXCEPT !.review = review]
    <3>1. review \in Reviews /\ review # "passed"
      BY <2>3 DEF Reviews
    <3>2. mr' = Flushed(Changed(req[q].old, new))
      BY <1>2, <3>1 DEF ReviewCommit
    <3> HIDE DEF review
    <3>3. new \in Pair /\ new.review # "passed"
      BY <3>1, PairFacts DEF Pair, Records
    <3> HIDE DEF new
    <3>4. mr'.review # "passed"
      BY <2>0, <2>1, <3>2, <3>3, ChangedFacts, FlushedFacts
    <3> QED BY <3>4
  <2> QED BY <2>2, <2>3
<1>3. ASSUME NEW q \in Requests, Sync(q)
      PROVE  ForgeCause
  <2>1. SyncCommit(q)
    BY <1>0, <1>3 DEF Sync, SyncLoad, SyncLook, SyncChecks
  <2>2. mr \in Records
    BY <2>1, LoaderHasRecord DEF SyncCommit, Loaders
  <2> QED BY <1>1, <2>1, <2>2 DEF SyncCommit
<1>4. ASSUME NEW q \in Requests, Hook(q)
      PROVE  ForgeCause
  <2>1. HookCommit(q)
    BY <1>0, <1>4 DEF Hook, HookLoad
  <2>2. mr \in Records
    BY <2>1, LoaderHasRecord DEF HookCommit, Loaders
  <2> QED BY <1>1, <2>1, <2>2 DEF HookCommit
<1>5. ASSUME NEW q \in Requests, Repair(q)
      PROVE  ForgeCause
  <2>1. RepairMark(q)
    BY <1>0, <1>5 DEF Repair, RepairLoad, RepairRun, RepairPush
  <2>2. mr \in Records
    BY <2>1, LoaderHasRecord DEF RepairMark, Loaders
  <2> QED BY <1>1, <2>1, <2>2 DEF RepairMark
<1>6. ASSUME NEW q \in Callers, Person(q)
      PROVE  \E p \in Callers : ReviewCommit(p, "passed", FALSE)
  <2>1. ~CreateCommit(q)
    BY <1>0 DEF CreateCommit
  <2>2. PICK said \in Reviews, blockers \in BOOLEAN : ReviewCommit(q, said, blockers)
    BY <1>0, <1>6, <2>1 DEF Person, CreateLoad, CreatePost, ReviewLoad
  <2> QED BY <1>2, <2>2
<1>7. ~ForgeMoves /\ ~(\E q \in Requests : Abandon(q)) /\ ~UNCHANGED vars
  BY <1>0 DEF ForgeMoves, ForgeState, ForgeReview, ForgeCheck, Abandon, vars
<1> QED BY <1>3, <1>4, <1>5, <1>6, <1>7, CallersAreRequests DEF Next

\* A review becomes passed for a cause only, however calls overlap and
\* whatever the order their commits, webhooks and syncs come in.
THEOREM PassedHasCause == Spec => PassHasCause
<1>1. ReviewInv /\ [Next]_vars =>
        [mr.review # "passed" /\ mr'.review = "passed" =>
            \/ ForgeCause
            \/ \E q \in Callers : ReviewCommit(q, "passed", FALSE)]_vars
  BY PassStep
<1> QED BY <1>1, ReviewInvHolds, PTL DEF Spec, PassHasCause
=============================================================================
