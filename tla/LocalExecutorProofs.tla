------------------------ MODULE LocalExecutorProofs ------------------------
(***************************************************************************)
(* What holds of LocalExecutor for every set of files and checks, every    *)
(* configuration and whatever commands do: a run that succeeds is checked  *)
(* and has left nothing uncommitted outside the allowed paths, but for one *)
(* file that is taken for another.                                         *)
(***************************************************************************)
EXTENDS LocalExecutor, TLAPS

\* The executor works in a worktree and has a Codex command.
Codex == conf.worktree /\ conf.codex

\* What is listed out of scope is taken for what is left of its path.
OnlyACutPath(t) ==
    \A f \in Listed(t) \ InScope : IsBeheaded(t, f) /\ Cut[f] \in InScope

\* How a dispatch has come to where it is.
Passed ==
    /\ step = "prepare" => tree = Clean
    /\ step \in {"preflight", "command", "observe"} => Codex
    /\ step \in {"command", "observe"} /\ conf.preflight => ended["preflight"] = "passed"

\* What lies behind a dispatch that has come to its checks.
Observed ==
    /\ Codex => /\ ended["command"] = "passed"
                /\ conf.preflight => ended["preflight"] = "passed"
    /\ conf.restricted => OnlyACutPath(tree)

IInv ==
    /\ TypeOK
    /\ Passed
    /\ step = "checks" \/ result = "succeeded" => Observed
    /\ SucceededIsChecked

\* Nothing is listed of a clean tree.
LEMMA CleanIsEmpty == Listed(Clean) = {}
BY DEF Listed, Clean

\* Reported paths that lie in scope are those of files in scope, except for
\* the one path that is cut.
LEMMA ReportedInScope ==
    ASSUME NEW t, Reported(t) \subseteq InScope
    PROVE  OnlyACutPath(t)
<1> SUFFICES ASSUME NEW f \in Listed(t) \ InScope
             PROVE  IsBeheaded(t, f) /\ Cut[f] \in InScope
    BY DEF OnlyACutPath
<1>1. (IF IsBeheaded(t, f) THEN Cut[f] ELSE f) \in InScope
    BY DEF Reported
<1> QED BY <1>1

LEMMA InitIInv == Init => IInv
<1> SUFFICES ASSUME Init PROVE IInv
    OBVIOUS
<1>1. TypeOK
    BY DEF Init, TypeOK, Clean, FileStates, Steps, Endings, Paths
<1>2. Passed
    BY DEF Init, Passed
<1>3. step = "prepare" /\ result = "none"
    BY DEF Init
<1> QED BY <1>1, <1>2, <1>3 DEF IInv, SucceededIsChecked

-----------------------------------------------------------------------------
(* One lemma for each kind of step. *)

LEMMA PrepareKeeps ==
    ASSUME IInv, NEW outcome \in {"passed", "failed"}, NEW link \in BOOLEAN,
           Prepare(outcome, link)
    PROVE  IInv'
<1>1. TypeOK'
    BY DEF IInv, TypeOK, Prepare, Return, Steps
<1>2. Passed'
    BY DEF IInv, TypeOK, Passed, Codex, Prepare, Return
<1>3. step' = "checks" \/ result' = "succeeded" => Observed'
    <2>1. OnlyACutPath(tree')
        BY CleanIsEmpty DEF IInv, Passed, Prepare, OnlyACutPath
    <2>2. step' = "checks" \/ result' = "succeeded" => ~Codex'
        BY DEF IInv, TypeOK, Codex, Prepare, Return
    <2> QED BY <2>1, <2>2 DEF Observed
<1>4. SucceededIsChecked'
    BY DEF IInv, TypeOK, SucceededIsChecked, Prepare, Return
<1> QED BY <1>1, <1>2, <1>3, <1>4 DEF IInv

LEMMA NoTemplateKeeps == ASSUME IInv, NoTemplate PROVE IInv'
<1>1. TypeOK'
    BY DEF IInv, TypeOK, NoTemplate, Return, Steps
<1> QED BY <1>1 DEF IInv, Passed, SucceededIsChecked, NoTemplate, Return

LEMMA PreflightKeeps ==
    ASSUME IInv, NEW ending \in Endings \ {"none"}, Preflight(ending)
    PROVE  IInv'
<1>1. TypeOK'
    BY DEF IInv, TypeOK, Preflight, Return, Steps, Commands
<1>2. Passed'
    BY DEF IInv, TypeOK, Passed, Codex, Preflight, Return, Commands
<1>3. step' # "checks" /\ result' # "succeeded"
    BY DEF IInv, TypeOK, Preflight, Return
<1> QED BY <1>1, <1>2, <1>3 DEF IInv, SucceededIsChecked

\* A command at work, or what a timed out one has left at work.
LEMMA WorkKeeps ==
    ASSUME IInv, NEW f \in Files, NEW state \in FileStates,
           Work(f, state) \/ LateWork(f, state)
    PROVE  IInv'
<1>1. TypeOK'
    BY DEF IInv, TypeOK, Work, LateWork
<1>2. Passed'
    BY DEF IInv, Passed, Codex, Work, LateWork
<1>3. step' # "checks" /\ result' # "succeeded"
    BY DEF IInv, TypeOK, Work, LateWork
<1> QED BY <1>1, <1>2, <1>3 DEF IInv, SucceededIsChecked

LEMMA CommandEndsKeeps ==
    ASSUME IInv, NEW ending \in Endings \ {"none"}, CommandEnds(ending)
    PROVE  IInv'
<1>1. TypeOK'
    BY DEF IInv, TypeOK, CommandEnds, Return, Steps, Commands
<1>2. Passed'
    BY DEF IInv, TypeOK, Passed, Codex, CommandEnds, Return, Commands
<1>3. step' # "checks" /\ result' # "succeeded"
    BY DEF IInv, TypeOK, CommandEnds, Return
<1> QED BY <1>1, <1>2, <1>3 DEF IInv, SucceededIsChecked

LEMMA ObserveKeeps == ASSUME IInv, Observe PROVE IInv'
<1>1. TypeOK'
    <2>1. Reported(tree) \subseteq Files \cup {Cut[f] : f \in Files}
        BY DEF Reported, Listed
    <2> QED BY <2>1 DEF IInv, TypeOK, Observe, Return, Steps, Paths
<1>2. Passed'
    BY DEF IInv, Passed, Observe, Return
<1>3. step' = "checks" \/ result' = "succeeded" => Observed'
    <2> SUFFICES ASSUME step' = "checks" \/ result' = "succeeded"
                 PROVE  Observed'
        OBVIOUS
    <2>1. ended["command"] = "passed" /\ Violations(reported', conf.restricted) = {}
        BY DEF IInv, TypeOK, Observe, Return
    <2>2. conf.restricted => Reported(tree) \subseteq InScope
        BY <2>1 DEF Observe, Violations
    <2>3. conf.restricted => OnlyACutPath(tree)
        BY <2>2, ReportedInScope
    <2>4. Codex /\ conf.preflight => ended["preflight"] = "passed"
        BY DEF IInv, Passed, Observe
    <2>5. UNCHANGED <<conf, tree, ended>>
        BY DEF Observe
    <2> QED BY <2>1, <2>3, <2>4, <2>5 DEF Observed, Codex
<1>4. SucceededIsChecked'
    BY DEF IInv, TypeOK, SucceededIsChecked, Observe, Return
<1> QED BY <1>1, <1>2, <1>3, <1>4 DEF IInv

LEMMA RaisesKeeps == ASSUME IInv, Raises PROVE IInv'
<1>1. TypeOK'
    BY DEF IInv, TypeOK, Raises, Steps
<1>2. result' # "succeeded"
    BY DEF IInv, TypeOK, Raises
<1> QED BY <1>1, <1>2 DEF IInv, Passed, SucceededIsChecked, Raises

\* A check does not take back how the command and the preflight have ended.
LEMMA RunCheckKeeps ==
    ASSUME IInv, NEW c \in Checks, NEW ending \in Endings \ {"none"},
           RunCheck(c, ending)
    PROVE  IInv'
<1>1. TypeOK'
    BY DEF IInv, TypeOK, RunCheck, Commands
<1>2. Passed'
    BY DEF IInv, Passed, RunCheck
<1>3. Observed'
    <2>1. Observed
        BY DEF IInv, RunCheck
    <2>2. \A d \in Commands : ended[d] = "passed" => ended'[d] = "passed"
        BY DEF IInv, TypeOK, RunCheck
    <2>3. UNCHANGED <<conf, tree>>
        BY DEF RunCheck
    <2> QED BY <2>1, <2>2, <2>3 DEF Observed, Codex, Commands
<1>4. result' # "succeeded"
    BY DEF IInv, TypeOK, RunCheck
<1> QED BY <1>1, <1>2, <1>3, <1>4 DEF IInv, SucceededIsChecked

LEMMA ReturnKeeps == ASSUME IInv, ReturnResult PROVE IInv'
<1>1. TypeOK'
    BY DEF IInv, TypeOK, ReturnResult, Return, Verdict, Steps
<1>2. Passed'
    BY DEF ReturnResult, Return, Passed
<1>3. Observed /\ UNCHANGED <<conf, tree, ended>>
    BY DEF IInv, ReturnResult
<1>4. Observed'
    BY <1>3 DEF Observed, Codex
<1>5. SucceededIsChecked'
    BY <1>3 DEF ReturnResult, Return, Verdict, SucceededIsChecked, Observed, Codex
<1> QED BY <1>1, <1>2, <1>4, <1>5 DEF IInv

-----------------------------------------------------------------------------

LEMMA NextIInv == IInv /\ [Next]_vars => IInv'
<1> SUFFICES ASSUME IInv, [Next]_vars PROVE IInv'
    OBVIOUS
<1>1. CASE Dispatch
    BY <1>1, PrepareKeeps, NoTemplateKeeps, PreflightKeeps, CommandEndsKeeps,
       ObserveKeeps, RaisesKeeps, RunCheckKeeps, ReturnKeeps DEF Dispatch
<1>2. CASE \E f \in Files, state \in FileStates : Work(f, state) \/ LateWork(f, state)
    BY <1>2, WorkKeeps
<1>3. CASE UNCHANGED vars
    BY <1>3 DEF vars, IInv, TypeOK, Passed, Codex, Observed, SucceededIsChecked
<1> QED BY <1>1, <1>2, <1>3 DEF Next

LEMMA AlwaysIInv == Spec => []IInv
BY InitIInv, NextIInv, PTL DEF Spec

\* Every variable of a dispatch keeps its type, and a dispatch has a result
\* exactly when it has returned.
THEOREM ExecutorTypeCorrect == Spec => []TypeOK
<1>1. IInv => TypeOK
    BY DEF IInv
<1> QED BY <1>1, AlwaysIInv, PTL

\* A run succeeds only after all required checks, the Codex command and its
\* preflight have passed (WorktreeChecksExecutor, LocalChecksExecutor.dispatch).
THEOREM SuccessIsChecked == Spec => []SucceededIsChecked
<1>1. IInv => SucceededIsChecked
    BY DEF IInv
<1> QED BY <1>1, AlwaysIInv, PTL

\* A succeeded run has left no uncommitted change outside the allowed paths,
\* but for at most one file: the first modified one, if what is left of its
\* path without the first character lies inside them. Nothing is assumed of
\* cut paths (_git_changed_files, _changed_files_outside_allowed_paths).
THEOREM SuccessIsInScope == Spec => []OnlyACutPathEscapes
<1>1. IInv => OnlyACutPathEscapes
    BY DEF IInv, Observed, OnlyACutPath, OnlyACutPathEscapes
<1> QED BY <1>1, AlwaysIInv, PTL
=============================================================================
