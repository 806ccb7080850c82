---------------------------- MODULE ChangedFiles ----------------------------
(***************************************************************************)
(* What both executors (local_checks, symphony_worker) make of git status: *)
(* the paths they report as changed files, and which of these lie outside  *)
(* the allowed paths of the task.                                          *)
(***************************************************************************)
EXTENDS Naturals

CONSTANTS
    Files,       \* paths of the repository that git prints without quotes,
                 \* numbered in the order of git
    InScope,     \* the paths under an allowed path of the task
    Cut          \* Cut[f]: the path that is left of f without its first character

\* Nothing is known of a cut path: ".backend/x" lies outside "backend", what
\* is left of it lies inside.
ASSUME FilesAssumption ==
    /\ Files \subseteq Nat
    /\ InScope \subseteq Nat
    /\ Cut \in [Files -> Nat]

\* What has become of a file since the base commit.  "moved": git mv brought
\* it here from a path outside the allowed ones; "committed": changed, and
\* the change is part of a later commit of the branch.
FileStates == {"clean", "modified", "staged", "untracked", "moved", "committed"}

Clean == [f \in Files |-> "clean"]

Changed(tree) == {f \in Files : tree[f] # "clean"}

\* git status --porcelain lists tracked files before untracked ones, in order.
Listed(tree) == {f \in Files : tree[f] \notin {"clean", "committed"}}
Tracked(tree) == {f \in Files : tree[f] \in {"modified", "staged", "moved"}}

\* The output is stripped before it is cut into lines, so a first line " M
\* path" loses its blank, and with its first three characters the first one
\* of its path.
IsBeheaded(tree, f) ==
    /\ tree[f] = "modified"
    /\ \A g \in Tracked(tree) : f <= g

Reported(tree) ==
    {IF IsBeheaded(tree, f) THEN Cut[f] ELSE f : f \in Listed(tree)}

\* _changed_files_outside_allowed_paths; no allowed paths allow everything.
Violations(paths, restricted) == IF restricted THEN paths \ InScope ELSE {}
=============================================================================
