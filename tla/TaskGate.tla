------------------------------ MODULE TaskGate ------------------------------
(* The way of a task to a run: `orch prepare`, the human's approval of the  *)
(* digest it prints, and `orch run` up to the creation of the run.          *)
(*                                                                          *)
(* Both commands read a task file that anybody may have edited, and ask git *)
(* about a repository whose directories may be relinked and whose branches  *)
(* may move between any two of their steps; only the digest ties a run to   *)
(* what the human has seen.                                                 *)
(*                                                                          *)
(* Abstractions: a digest stands for the task it is computed from (SHA-256  *)
(* of its canonical JSON has no collisions); the required texts and the     *)
(* allowed paths of a task are one Boolean, `complete`; one command runs at *)
(* a time, since both only read; a human approves no digest but the last    *)
(* one they were shown.                                                     *)
EXTENDS Naturals, Sequences

CONSTANTS
    Places,         \* the directories a task may name as its root
    Commits,
    Branch,         \* a ref that is not a commit: "", HEAD, a branch
    Works,          \* what a task says besides its repository
    MaxExecution,   \* maxExecutionSeconds
    NoTask

Refs == Commits \cup {Branch}
Tasks == [root : Places, ref : Refs, work : Works]

VARIABLES
    toplevel,   \* the root of the repository each directory is in
    tip,        \* the commit Branch names in the repository of each top level
    approved,   \* the task the human approved
    command,
    pc,         \* where the command is
    loaded,     \* the task as it was read from its file
    task,       \* the command's own Task value
    repository  \* the root that engine.Run resolved

gateVars == <<toplevel, tip, approved, command, pc, loaded, task, repository>>

env == <<toplevel, tip>>

NoPlace == "none"

-----------------------------------------------------------------------------
(* What a task must be like *)

Denied == {"deploy", "merge", "push"}
Wrappers == {"env", "sh", "bash", "dash", "fish", "zsh"}
Interpreters == {"node", "perl", "python", "python3", "ruby"}
InlineFlags == {"-c", "-e", "--eval"}

ValidateAction(action) == action \notin Denied

\* The first word of argv is the base name of the command, and a flag with its
\* value (--eval=x) is the flag.
ValidateCommand(argv) ==
    /\ argv # <<>>
    /\ Head(argv) \notin Wrappers
    /\ \A i \in 2..Len(argv) :
        /\ Head(argv) \in Interpreters => argv[i] \notin InlineFlags
        /\ Head(argv) = "git" => ValidateAction(argv[i])
    /\ ValidateAction(Head(argv))

\* The root that Prepare puts into a task is absolute and clean.
ValidateTask(t) ==
    /\ t.ref \in Commits
    /\ t.work.complete
    /\ t.work.acceptance # <<>>
    /\ \A i \in DOMAIN t.work.acceptance :
        /\ t.work.acceptance[i].argv # <<>>
        /\ t.work.acceptance[i].timeout \in 1..MaxExecution
    /\ t.work.delegation = "execute_reversible"
    /\ t.work.attempts = 1
    /\ t.work.seconds \in 1..MaxExecution

\* Mutant: the digest does not cover the base commit.
Digest_WithoutRef(t) == [t EXCEPT !.ref = Branch]

\* DigestTask, of a valid task
Digest(t) == t

\* The capabilities that the Codex adapter's Probe reports.
Capabilities == [workspaceWrite |-> TRUE, nativeSandbox |-> FALSE]

ValidateExecution(mode) ==
    /\ Capabilities.workspaceWrite
    /\ mode \in {"trusted-local", "strict"}
    /\ mode = "strict" => Capabilities.nativeSandbox

-----------------------------------------------------------------------------
(* The repository *)

\* A top level is its own top level.
Layouts == {f \in [Places -> Places] : \A p \in Places : f[f[p]] = f[p]}

\* Mutant: the commit at the tip is used, whatever the task says.
ResolveCommit_Tip(root, ref) == tip[toplevel[root]]

\* A commit is itself; a branch is wherever it is now.
ResolveCommit(root, ref) == IF ref = Branch THEN tip[toplevel[root]] ELSE ref

\* At any time, and also when a run is admitted: what the run holds is the path of
\* a directory, and workspace.Add works in the repository that is behind it then.
Relink ==
    /\ toplevel' \in Layouts
    /\ UNCHANGED <<tip, approved, command, pc, loaded, task, repository>>

MoveBranch ==
    /\ \E root \in Places, c \in Commits : tip' = [tip EXCEPT ![root] = c]
    /\ UNCHANGED <<toplevel, approved, command, pc, loaded, task, repository>>

-----------------------------------------------------------------------------
(* The commands *)

\* The command returns, with an error or when its work is done.
Return ==
    /\ pc' = "idle"
    /\ command' = "none"
    /\ loaded' = NoTask
    /\ task' = NoTask
    /\ repository' = NoPlace

Refuse == Return /\ UNCHANGED <<env, approved>>

Start(c) ==
    /\ pc \in {"idle", "mismatch"}
    /\ command' = c
    /\ pc' = "load"
    /\ loaded' = NoTask
    /\ task' = NoTask
    /\ UNCHANGED <<env, approved, repository>>

\* loadTask: whatever the file holds now
Load ==
    /\ pc = "load"
    /\ \/ /\ loaded' \in Tasks
          /\ task' = loaded'
          /\ pc' = "root"
          /\ UNCHANGED <<env, approved, command, repository>>
       \/ Refuse

\* Prepare: workspace.Resolve
ResolveRoot ==
    /\ pc = "root"
    /\ \/ /\ task' = [task EXCEPT !.root = toplevel[task.root]]
          /\ pc' = "base"
          /\ UNCHANGED <<env, approved, command, loaded, repository>>
       \/ Refuse

\* Prepare: workspace.ResolveCommit
ResolveBase ==
    /\ pc = "base"
    /\ \/ /\ task' = [task EXCEPT !.ref = ResolveCommit(task.root, task.ref)]
          /\ pc' = "digest"
          /\ UNCHANGED <<env, approved, command, loaded, repository>>
       \/ Refuse

\* prepareCommand prints the task and its digest, and the human approves it
\* or not.
PrintDigest ==
    /\ pc = "digest" /\ command = "prepare"
    /\ IF ValidateTask(task)
       THEN approved' \in {approved, task} /\ Return
       ELSE UNCHANGED approved /\ Return
    /\ UNCHANGED env

\* ValidateApprovedTask, after Prepare has computed the digest for the first
\* time: the command carries the approved digest or none.
CheckDigest ==
    /\ pc = "digest" /\ command = "run"
    /\ \/ /\ ValidateTask(task)
          /\ approved # NoTask
          /\ pc' = IF Digest(task) = Digest(approved) THEN "policy" ELSE "mismatch"
          /\ UNCHANGED <<env, approved, command, loaded, task, repository>>
       \/ Refuse

\* Every acceptance command is checked before any of them runs.
CheckCommands ==
    /\ pc = "policy"
    /\ IF \A i \in DOMAIN task.work.acceptance :
            ValidateCommand(task.work.acceptance[i].argv)
       THEN /\ pc' = "canonical"
            /\ loaded' = NoTask
            /\ UNCHANGED <<env, approved, command, task, repository>>
       ELSE Refuse

\* Mutant: the second Resolve is not compared with the task.
CheckCanonicalRoot_Unchecked ==
    /\ pc = "canonical"
    /\ repository' = toplevel[task.root]
    /\ pc' = "probe"
    /\ UNCHANGED <<env, approved, command, loaded, task>>

\* engine.Run resolves the root again.
CheckCanonicalRoot ==
    /\ pc = "canonical"
    /\ \/ /\ toplevel[task.root] = task.root
          /\ repository' = toplevel[task.root]
          /\ pc' = "probe"
          /\ UNCHANGED <<env, approved, command, loaded, task>>
       \/ Refuse

\* Probe, ValidateWriteRole and ValidateExecution
Probe ==
    /\ pc = "probe"
    /\ \/ /\ \E mode \in {"trusted-local", "strict"} : ValidateExecution(mode)
          /\ pc' = "admitted"
          /\ UNCHANGED <<env, approved, command, loaded, task, repository>>
       \/ Refuse

-----------------------------------------------------------------------------

Init ==
    /\ toplevel \in Layouts
    /\ tip \in [Places -> Commits]
    /\ approved = NoTask
    /\ command = "none"
    /\ pc = "idle"
    /\ loaded = NoTask
    /\ task = NoTask
    /\ repository = NoPlace

Next ==
    \/ Relink
    \/ MoveBranch
    \/ Start("prepare")
    \/ Start("run")
    \/ Load
    \/ ResolveRoot
    \/ ResolveBase
    \/ PrintDigest
    \/ CheckDigest
    \/ CheckCommands
    \/ CheckCanonicalRoot
    \/ Probe

Spec == Init /\ [][Next]_gateVars

-----------------------------------------------------------------------------
(* Properties *)

\* Every variable keeps its type.
TypeOK ==
    /\ toplevel \in Layouts
    /\ tip \in [Places -> Commits]
    /\ approved \in Tasks \cup {NoTask}
    /\ command \in {"none", "prepare", "run"}
    /\ pc \in {"idle", "load", "root", "base", "digest", "mismatch", "policy",
               "canonical", "probe", "admitted"}
    /\ loaded \in Tasks \cup {NoTask}
    /\ task \in Tasks \cup {NoTask}
    /\ repository \in Places \cup {NoPlace}

\* What the run works on: the resolved root, the base commit, the rest.
Admitted == [task EXCEPT !.root = repository]

\* docs/exec-plans/human-task-mvp.md:851: a run is admitted only with the root, the
\* commit and the rest of the task that the human approved, whatever happened to the
\* file, to the branch and to the directories since prepare looked at them.  The
\* root is the name of a directory: it is the top level of its repository when the
\* engine looks for the second time, and what is behind it later is not said.
AdmittedIsApproved ==
    pc = "admitted" => /\ Admitted = approved
                       /\ approved.ref \in Commits

\* host.Prepare: a task file that holds what prepare printed is refused for its
\* digest only if its root is no longer canonical; a branch that moved does
\* not invalidate an approval.
VerbatimTaskMatches ==
    pc = "mismatch" /\ loaded = approved => task.root # approved.root
=============================================================================
