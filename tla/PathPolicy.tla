----------------------------- MODULE PathPolicy -----------------------------
(* The allowlist of a task: domain.validateAllowedPaths, before the run,    *)
(* and workspace.ChangedPaths with ValidateAllowedPaths, which engine.Run   *)
(* applies to the difference between the task's commit and the writer's.    *)
(*                                                                          *)
(* A path is the sequence of its segments and a tree maps every path to its *)
(* content.  The rules of a task are written by a human: a rule may have    *)
(* the segments "." and "..", a trailing slash, or a leading one.           *)
(* `git diff --name-only` is external: with rename detection, the default   *)
(* of git, it names a moved file by its new path alone.                     *)
EXTENDS SequencesExt, FiniteSetsExt

CONSTANTS
    Paths,              \* the paths files may have
    Contents,           \* what a file may contain
    Absent,             \* the content of a path without a file
    Rules               \* the rules a human may write, two of them in a task

\* git stores no path with a segment "." or "..", and a file system bounds the
\* length of a path.
ASSUME PathsAssumption ==
    /\ IsFiniteSet(Paths)
    /\ \A path \in Paths : /\ path \in Seq(STRING)
                           /\ \A i \in DOMAIN path : path[i] \notin {".", ".."}

ASSUME RulesAssumption == \A rule \in Rules : rule.path \in Seq(STRING)

Trees == [Paths -> Contents \cup {Absent}]

VARIABLES
    rules,      \* Task.AllowedPaths
    base,       \* the tree of the task's commit
    tree,       \* the writer's tree, at last that of the result commit
    verdict     \* "none", "refused" before the run, "accepted" or "rejected" after

vars == <<rules, base, tree, verdict>>

-----------------------------------------------------------------------------
(* filepath.Clean of a relative path; the empty sequence is "." *)

CleanStep(clean, s) ==
    CASE s = "." -> clean
      [] s = ".." /\ clean # <<>> /\ Last(clean) # ".." -> Front(clean)
      [] OTHER -> Append(clean, s)

Clean(segments) ==
    LET clean[i \in 0..Len(segments)] ==
            IF i = 0 THEN <<>> ELSE CleanStep(clean[i - 1], segments[i])
    IN  clean[Len(segments)]

RuleIsAcceptable(rule) ==
    /\ ~rule.absolute
    /\ Clean(rule.path) # <<>> => Head(Clean(rule.path)) # ".."

\* Mutant: a rule without a slash is a prefix as well.
Permits_Prefix(rule, path) ==
    IF rule.slash
    THEN IsStrictPrefix(rule.path, path)
    ELSE IsPrefix(Clean(rule.path), path)

\* Mutant: the slash is dropped before the comparison.
Permits_Exact(rule, path) == path = Clean(rule.path)

\* A rule that ends in a slash is compared as it was written.
Permits(rule, path) ==
    IF rule.slash
    THEN IsStrictPrefix(rule.path, path)
    ELSE path = Clean(rule.path)

\* Mutant: one path in the list is enough.
ValidateAllowedPaths_Any(changed) ==
    changed = {} \/ \E path \in changed : \E rule \in rules : Permits(rule, path)

ValidateAllowedPaths(changed) ==
    \A path \in changed : \E rule \in rules : Permits(rule, path)

-----------------------------------------------------------------------------
(* git diff --name-only *)

Changed == {path \in Paths : base[path] # tree[path]}
Added == {path \in Changed : base[path] = Absent}
Deleted == {path \in Changed : tree[path] = Absent}

With(paths, of, content) == {path \in paths : of[path] = content}

\* Every added file stands for one deleted file of the same content, if any
\* (git counts similar contents too: one value stands for all of those).
MovedAway(hidden) ==
    /\ hidden \subseteq Deleted
    /\ \A content \in Contents :
        Cardinality(With(hidden, base, content)) =
            Min({Cardinality(With(Deleted, base, content)),
                 Cardinality(With(Added, tree, content))})

ChangedPaths == {Changed \ hidden : hidden \in {h \in SUBSET Deleted : MovedAway(h)}}

-----------------------------------------------------------------------------

Init ==
    /\ rules \in {{r, s} : r, s \in Rules}
    /\ tree \in Trees
    /\ base = tree
    /\ verdict = "none"

\* validateAllowedPaths refuses the task and nothing is run.
RefuseTask ==
    /\ verdict = "none"
    /\ \E rule \in rules : ~RuleIsAcceptable(rule)
    /\ verdict' = "refused"
    /\ UNCHANGED <<rules, base, tree>>

\* The writer adds, changes and deletes files.
WriteFile(path, content) ==
    /\ verdict = "none"
    /\ \A rule \in rules : RuleIsAcceptable(rule)
    /\ tree' = [tree EXCEPT ![path] = content]
    /\ UNCHANGED <<rules, base, verdict>>

\* The checks of the paths in engine.Run.
InspectPaths ==
    /\ verdict = "none"
    /\ \A rule \in rules : RuleIsAcceptable(rule)
    /\ \E changed \in ChangedPaths :
        verdict' = IF ValidateAllowedPaths(changed) THEN "accepted" ELSE "rejected"
    /\ UNCHANGED <<rules, base, tree>>

\* The task was refused or the verdict is known.
Finished == verdict # "none" /\ UNCHANGED vars

Next ==
    \/ RefuseTask
    \/ \E path \in Paths, content \in Contents \cup {Absent} : WriteFile(path, content)
    \/ InspectPaths
    \/ Finished

Spec == Init /\ [][Next]_vars

-----------------------------------------------------------------------------
(* What the rules of a task mean *)

\* A rule names a directory with everything below it, or one file.
Within(path, rule) ==
    IF rule.slash
    THEN IsStrictPrefix(Clean(rule.path), path)
    ELSE path = Clean(rule.path)

Allowed == {path \in Paths : \E rule \in rules : Within(path, rule)}

\* docs/exec-plans/human-task-mvp.md, "Result diffs touching paths outside
\* Task.AllowedPaths are rejected before verification".
OnlyAllowedPathsChange == verdict = "accepted" => Changed \subseteq Allowed

\* engine.Run: no file outside the allowlist gets a new content, whatever git
\* makes of moved files.
ContentStaysInside ==
    verdict = "accepted" => Changed \ Deleted \subseteq Allowed

\* ValidateAllowedPaths: a change outside the allowlist that git names is never
\* accepted, however the rules are written: what remains is a moved file.
OnlyMovesEscape ==
    verdict = "accepted" =>
        \A path \in Changed \ Allowed :
            \E moved \in Added : tree[moved] = base[path]

\* ValidateAllowedPaths: a result that stays inside the rules which are written
\* in clean form is not rejected.
CleanRulesAreHonoured ==
    verdict = "rejected" =>
        \E path \in Changed : \A rule \in rules :
            rule.path = Clean(rule.path) => ~Within(path, rule)
=============================================================================
