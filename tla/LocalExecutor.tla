--------------------------- MODULE LocalExecutor ---------------------------
(***************************************************************************)
(* One dispatch of a run by LocalChecksExecutor (in the workspace itself)  *)
(* or WorktreeChecksExecutor (in a git worktree of its own, after a Codex  *)
(* command): preparation, preflight, command, changed files, checks.       *)
(* An operator X_Bug before an operator X is X with a bug: no part of the  *)
(* model.                                                                  *)
(***************************************************************************)
EXTENDS ChangedFiles

CONSTANTS
    Checks,      \* the checks that tasks may require
    Link         \* the path of a linked dependency directory

\* A linked directory is a file to git ("node_modules/" ignores only a real
\* directory), and no file of the repository.
ASSUME LinkAssumption == Link \in Nat \ Files

VARIABLES
    conf,        \* the run's executor and the settings, fixed
    step,        \* how far the dispatch is
    tree,        \* the files of the working tree, until git lists them;
                 \* nothing looks at what the checks do to them later
    linked,      \* node_modules is linked into the worktree
    ended,       \* how the preflight, the command and each check have ended
    reported,    \* codex_invocation.changed_files
    result       \* what is returned

vars == <<conf, step, tree, linked, ended, reported, result>>

\* worktree: the executor; codex: EXECUTION_CODEX_ENABLED; template and
\* preflight: the commands are configured; restricted: the task has allowed
\* paths; allowed: of its checks, those the executor may run.
Conf == [worktree : BOOLEAN, codex : BOOLEAN, template : BOOLEAN,
         preflight : BOOLEAN, restricted : BOOLEAN,
         checks : SUBSET Checks, allowed : SUBSET Checks]

Steps == {"prepare", "preflight", "command", "observe", "checks", "returned", "raised"}
Endings == {"none", "passed", "failed", "timeout", "error"}
Commands == {"preflight", "command"} \cup Checks

Paths == Files \cup {Cut[f] : f \in Files} \cup {Link}

Return(r) == /\ step' = "returned"
             /\ result' = r

-----------------------------------------------------------------------------

\* _prepare_workspace: git may fail, and linking may fail when the worktree
\* and its branch exist, which nothing removes then.
Prepare(outcome, link) ==
    /\ step = "prepare"
    /\ ~conf.worktree => outcome = "passed" /\ ~link
    /\ linked' = link
    /\ IF outcome = "failed"
       THEN Return("failed")
       ELSE /\ step' = IF ~conf.worktree \/ ~conf.codex THEN "checks"
                       ELSE IF conf.preflight THEN "preflight" ELSE "command"
            /\ UNCHANGED result
    /\ UNCHANGED <<conf, tree, ended, reported>>

\* Without a command template the run fails before its preflight.
NoTemplate_Silent ==
    /\ step \in {"preflight", "command"}
    /\ ~conf.template
    /\ step' = "returned"
    /\ UNCHANGED <<conf, tree, linked, ended, reported, result>>
NoTemplate ==
    /\ step \in {"preflight", "command"}
    /\ ~conf.template
    /\ Return("failed")
    /\ UNCHANGED <<conf, tree, linked, ended, reported>>

Preflight(ending) ==
    /\ step = "preflight" /\ conf.template
    /\ ended' = [ended EXCEPT !["preflight"] = ending]
    /\ IF ending = "passed"
       THEN step' = "command" /\ UNCHANGED result
       ELSE Return("failed")
    /\ UNCHANGED <<conf, tree, linked, reported>>

\* While the command is at work it does what it likes to the files.
Work(f, state) ==
    /\ step = "command" /\ conf.template
    /\ ended["command"] = "none"
    /\ state \in FileStates \ {"clean"}
    /\ tree' = [tree EXCEPT ![f] = state]
    /\ UNCHANGED <<conf, step, linked, ended, reported, result>>

\* "error": the shell cannot be started; the files are not looked at then.
CommandEnds(ending) ==
    /\ step = "command" /\ conf.template
    /\ ended["command"] = "none"
    /\ ending = "error" => tree = Clean
    /\ ended' = [ended EXCEPT !["command"] = ending]
    /\ IF ending = "error"
       THEN Return("failed")
       ELSE step' = "observe" /\ UNCHANGED result
    /\ UNCHANGED <<conf, tree, linked, reported>>

\* What a timed out command has left at work goes on with the files.
LateWork(f, state) ==
    /\ step = "observe" /\ ended["command"] = "timeout"
    /\ state \in FileStates \ {"clean"}
    /\ tree' = [tree EXCEPT ![f] = state]
    /\ tree' # tree
    /\ UNCHANGED <<conf, step, linked, ended, reported, result>>

Observe_NoScope ==
    /\ step = "observe"
    /\ reported' = Reported(tree) \cup (IF linked THEN {Link} ELSE {})
    /\ IF ended["command"] = "passed"
       THEN step' = "checks" /\ UNCHANGED result
       ELSE Return("failed")
    /\ UNCHANGED <<conf, tree, linked, ended>>
Observe ==
    /\ step = "observe"
    /\ reported' = Reported(tree) \cup (IF linked THEN {Link} ELSE {})
    /\ IF ended["command"] = "passed" /\ Violations(reported', conf.restricted) = {}
       THEN step' = "checks" /\ UNCHANGED result
       ELSE Return("failed")
    /\ UNCHANGED <<conf, tree, linked, ended>>

\* Outside every try block: the prompt file cannot be written, or git status
\* fails.
Raises ==
    /\ \/ step \in {"preflight", "command"} /\ conf.template
          /\ \A c \in Commands : ended[c] = "none"
       \/ step = "observe"
    /\ tree = Clean \/ step = "observe"
    /\ step' = "raised"
    /\ UNCHANGED <<conf, tree, linked, ended, reported, result>>

\* All checks are run, also after a failed one; one that _resolve_command
\* does not know fails.
RunCheck_StopAtFailure(c, ending) ==
    /\ step = "checks"
    /\ c \in conf.checks /\ ended[c] = "none"
    /\ \A d \in conf.checks : ended[d] \in {"none", "passed"}
    /\ c \notin conf.allowed => ending = "error"
    /\ ended' = [ended EXCEPT ![c] = ending]
    /\ UNCHANGED <<conf, step, tree, linked, reported, result>>
RunCheck(c, ending) ==
    /\ step = "checks"
    /\ c \in conf.checks /\ ended[c] = "none"
    /\ c \notin conf.allowed => ending = "error"
    /\ ended' = [ended EXCEPT ![c] = ending]
    /\ UNCHANGED <<conf, step, tree, linked, reported, result>>

Verdict_NoneFailed == IF \E c \in conf.checks : ended[c] = "failed" THEN "failed" ELSE "succeeded"
Verdict == IF \A c \in conf.checks : ended[c] = "passed" THEN "succeeded" ELSE "failed"

ReturnResult ==
    /\ step = "checks"
    /\ \A c \in conf.checks : ended[c] # "none"
    /\ Return(Verdict)
    /\ UNCHANGED <<conf, tree, linked, ended, reported>>

-----------------------------------------------------------------------------

Init ==
    /\ conf \in Conf
    /\ conf.allowed \subseteq conf.checks
    /\ step = "prepare"
    /\ tree = Clean
    /\ linked = FALSE
    /\ ended = [c \in Commands |-> "none"]
    /\ reported = {}
    /\ result = "none"

Dispatch ==
    \/ \E outcome \in {"passed", "failed"}, link \in BOOLEAN : Prepare(outcome, link)
    \/ NoTemplate \/ Raises \/ Observe \/ ReturnResult
    \/ \E ending \in Endings \ {"none"} :
          \/ Preflight(ending)
          \/ CommandEnds(ending)
          \/ \E c \in Checks : RunCheck(c, ending)

Next ==
    \/ Dispatch
    \/ \E f \in Files, state \in FileStates : Work(f, state) \/ LateWork(f, state)

Spec == Init /\ [][Next]_vars

\* Commands end, at the latest by their timeouts.
FairSpec == Spec /\ WF_vars(Dispatch)

-----------------------------------------------------------------------------
(* Properties. *)

TypeOK ==
    /\ conf \in Conf
    /\ step \in Steps
    /\ tree \in [Files -> FileStates]
    /\ linked \in BOOLEAN
    /\ ended \in [Commands -> Endings]
    /\ reported \subseteq Paths
    /\ result \in {"none", "succeeded", "failed"}
    /\ step = "returned" <=> result # "none"

\* A run succeeds only if every check its task requires has been run and has
\* passed, after a Codex command (when that is enabled) that has passed after
\* a passed preflight: whatever times out, is refused or cannot be started
\* counts as failed (WorktreeChecksExecutor, LocalChecksExecutor.dispatch).
SucceededIsChecked ==
    result = "succeeded" =>
        /\ \A c \in conf.checks : ended[c] = "passed"
        /\ conf.worktree /\ conf.codex =>
              /\ ended["command"] = "passed"
              /\ conf.preflight => ended["preflight"] = "passed"

\* Of the files that the command of a succeeded run has left changed and not
\* committed, at most one lies outside the allowed paths: the first modified
\* one, and only if what is left of its path lies inside them
\* (_git_changed_files, _changed_files_outside_allowed_paths).
OnlyACutPathEscapes ==
    result = "succeeded" /\ conf.restricted =>
        \A f \in Listed(tree) \ InScope : IsBeheaded(tree, f) /\ Cut[f] \in InScope

\* The files that the command of a succeeded run has left changed and not
\* committed lie under the allowed paths: changes outside of them fail the
\* run (_git_changed_files, _changed_files_outside_allowed_paths).
SucceededIsInScope ==
    result = "succeeded" /\ conf.restricted => Listed(tree) \subseteq InScope

\* Every dispatch ends: no failing, refused or timed out step leaves it
\* waiting for something (LocalChecksExecutor.dispatch).
DispatchEnds == <>(step \in {"returned", "raised"})

\* Once a command has passed, the changed files recorded of it include the
\* files that git lists as changed (_git_changed_files).
ReportsChanges ==
    step \in {"checks", "returned"} /\ ended["command"] = "passed" =>
        Listed(tree) \subseteq reported
=============================================================================
