------------------------- MODULE RunLifecycleProofs -------------------------
(***************************************************************************)
(* Proofs about RunLifecycle, for every set of runs and tasks and every    *)
(* limit.                                                                  *)
(***************************************************************************)
EXTENDS RunLifecycle, FiniteSetTheorems, TLAPS

\* The statuses and tasks of runs have their types throughout.
LEMMA LifecycleTyping == Spec => []TypeOK
<1>1. Init => TypeOK
  BY DEF Init, TypeOK, RunStatus
<1>2. TypeOK /\ [Next]_vars => TypeOK'
  <2> SUFFICES ASSUME TypeOK, [Next]_vars
               PROVE  TypeOK'
    OBVIOUS
  <2> USE DEF TypeOK, RunStatus
  <2>1. ASSUME NEW r \in Runs, NEW t \in Tasks, Enqueue(r, t)
        PROVE  TypeOK'
    BY <2>1 DEF Enqueue
  <2>2. ASSUME NEW r \in Runs, NEW t \in Tasks, Block(r, t)
        PROVE  TypeOK'
    BY <2>2 DEF Block
  <2>3. ASSUME NEW r \in Runs, Start(r) \/ Pause(r) \/ Resume(r) \/ Cancel(r)
        PROVE  TypeOK'
    BY <2>3 DEF Start, Pause, Resume, Cancel
  <2>4. ASSUME NEW rs \in SUBSET Runs, NEW outcome \in {"failed", "succeeded"},
               Finish(rs, outcome)
        PROVE  TypeOK'
    BY <2>4 DEF Finish
  <2>5. CASE UNCHANGED vars
    BY <2>5 DEF vars
  <2> QED
    BY <2>1, <2>2, <2>3, <2>4, <2>5 DEF Next
<1> QED
  BY <1>1, <1>2, PTL DEF Spec

-----------------------------------------------------------------------------

\* A task never has two active runs: the promise that a repeated create or
\* retry returns the existing run (create_execution_run).
THEOREM LifecycleOneActiveRun == Spec => []OneActiveRun
<1>1. Init => OneActiveRun
  BY DEF Init, OneActiveRun, ActiveStatus
<1>2. TypeOK /\ OneActiveRun /\ [Next]_vars => OneActiveRun'
  <2> SUFFICES ASSUME TypeOK, OneActiveRun, [Next]_vars
               PROVE  OneActiveRun'
    OBVIOUS
  <2> USE DEF TypeOK, OneActiveRun, ActiveStatus
  <2>1. ASSUME NEW r \in Runs, NEW t \in Tasks, Enqueue(r, t)
        PROVE  OneActiveRun'
    BY <2>1 DEF Enqueue, ActiveRuns
  <2>2. ASSUME NEW r \in Runs, NEW t \in Tasks, Block(r, t)
        PROVE  OneActiveRun'
    BY <2>2 DEF Block
  <2>3. ASSUME NEW r \in Runs, Start(r) \/ Pause(r) \/ Resume(r) \/ Cancel(r)
        PROVE  OneActiveRun'
    BY <2>3 DEF Start, Pause, Resume, Cancel
  <2>4. ASSUME NEW rs \in SUBSET Runs, NEW outcome \in {"failed", "succeeded"},
               Finish(rs, outcome)
        PROVE  OneActiveRun'
    BY <2>4 DEF Finish, Running
  <2>5. CASE UNCHANGED vars
    BY <2>5 DEF vars
  <2> QED
    BY <2>1, <2>2, <2>3, <2>4, <2>5 DEF Next
<1> QED
  BY <1>1, <1>2, LifecycleTyping, PTL DEF Spec

-----------------------------------------------------------------------------

\* Starting a run adds one element to the running runs.
LEMMA StartAddsOne ==
  ASSUME TypeOK, NEW r \in Runs, Start(r)
  PROVE  Running' = Running \cup {r} /\ r \notin Running
BY DEF TypeOK, Start, Running

\* No more than MaxConcurrency runs are running: the check before a dispatch
\* and before a claim, when nothing comes between check and start.
THEOREM LifecycleWithinCapacity == Spec => []WithinCapacity
<1> USE LifecycleAssumption
<1>1. Init => WithinCapacity
  <2> SUFFICES ASSUME Init PROVE WithinCapacity
    OBVIOUS
  <2>1. Running = {}
    BY DEF Init, Running
  <2> QED
    BY <2>1, FS_EmptySet DEF WithinCapacity
<1>2. TypeOK /\ WithinCapacity /\ [Next]_vars => WithinCapacity'
  <2> SUFFICES ASSUME TypeOK, WithinCapacity, [Next]_vars
               PROVE  WithinCapacity'
    OBVIOUS
  <2>1. IsFiniteSet(Running)
    BY FS_Subset DEF Running
  <2>2. Cardinality(Running) \in Nat
    BY <2>1, FS_CardinalityType
  <2>3. ASSUME Running' \subseteq Running
        PROVE  WithinCapacity'
    <3>1. IsFiniteSet(Running') /\ Cardinality(Running') <= Cardinality(Running)
      BY <2>1, <2>3, FS_Subset
    <3>2. Cardinality(Running') \in Nat
      BY <3>1, FS_CardinalityType
    <3> QED
      BY <2>2, <3>1, <3>2 DEF WithinCapacity
  <2>4. ASSUME NEW r \in Runs, Start(r)
        PROVE  WithinCapacity'
    <3>1. Running' = Running \cup {r} /\ r \notin Running
      BY <2>4, StartAddsOne
    <3>2. Cardinality(Running') = Cardinality(Running) + 1
      BY <2>1, <3>1, FS_AddElement
    <3>3. Cardinality(Running) < MaxConcurrency
      BY <2>4 DEF Start
    <3> QED
      BY <2>2, <3>2, <3>3 DEF WithinCapacity
  <2>5. ASSUME NEW r \in Runs, NEW t \in Tasks, Enqueue(r, t) \/ Block(r, t)
        PROVE  Running' \subseteq Running
    BY <2>5 DEF TypeOK, Enqueue, Block, Running
  <2>6. ASSUME NEW r \in Runs, Pause(r) \/ Resume(r) \/ Cancel(r)
        PROVE  Running' \subseteq Running
    BY <2>6 DEF TypeOK, Pause, Resume, Cancel, Running
  <2>7. ASSUME NEW rs \in SUBSET Runs, NEW outcome \in {"failed", "succeeded"},
               Finish(rs, outcome)
        PROVE  Running' \subseteq Running
    BY <2>7 DEF TypeOK, Finish, Running
  <2>8. CASE UNCHANGED vars
    BY <2>8, <2>3 DEF vars, Running
  <2> QED
    BY <2>3, <2>4, <2>5, <2>6, <2>7, <2>8 DEF Next
<1> QED
  BY <1>1, <1>2, LifecycleTyping, PTL DEF Spec

-----------------------------------------------------------------------------

\* A run that has ended keeps its outcome and its task: no handler starts from
\* a final status.
THEOREM LifecycleFinalIsForever == Spec => FinalIsForever
<1>1. TypeOK /\ [Next]_vars =>
        [\A r \in Runs :
            /\ status[r] \in FinalStatus => status'[r] = status[r]
            /\ status[r] # "none" => taskOf'[r] = taskOf[r]]_vars
  <2> SUFFICES ASSUME TypeOK, [Next]_vars, NEW x \in Runs, ~ UNCHANGED vars
               PROVE  /\ status[x] \in FinalStatus => status'[x] = status[x]
                      /\ status[x] # "none" => taskOf'[x] = taskOf[x]
    OBVIOUS
  <2> USE DEF TypeOK, FinalStatus, ActiveStatus
  <2>1. CASE \E r \in Runs, t \in Tasks : Enqueue(r, t) \/ Block(r, t)
    BY <2>1 DEF Enqueue, Block
  <2>2. CASE \E r \in Runs : Start(r) \/ Pause(r) \/ Resume(r) \/ Cancel(r)
    BY <2>2 DEF Start, Pause, Resume, Cancel
  <2>3. CASE \E rs \in SUBSET Runs, outcome \in {"failed", "succeeded"} :
                Finish(rs, outcome)
    BY <2>3 DEF Finish, Running
  <2> QED
    BY <2>1, <2>2, <2>3 DEF Next
<1> QED
  BY <1>1, LifecycleTyping, PTL DEF Spec, FinalIsForever
=============================================================================
