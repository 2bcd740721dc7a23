# Formal model of Agent Orchestrator

TLA+ specifications of the Go program in `src/`: an orchestrator that lets one
coding agent work on a repository task, verifies the result and stops until a
human decides. The modules are written from the source; every definition that
models code is listed with its lines in `PROJECT.json` (`map`).

    tlc -workers 2 -config engine_faults.cfg MCEngine.tla    # model-check a run
    tlapm EngineProofs.tla                                   # check the proofs

## 1. The system

A run is one directory, `<git common dir>/agent-orchestrator/runs/<id>/`, and
the commands that work on it are operating system processes: one `orch run`
creates the run and takes it to `AWAITING_APPROVAL`, any number of `orch
decide` and `orch status` follow. The processes share nothing but that directory.

| Component | State | Operations | Interaction | What is hard | What makes it correct |
|---|---|---|---|---|---|
| Run lifecycle (`domain/run.go`) | none | `Transition`, `ValidateApproval` | called by the engine | - | terminal states are final; only an approval of the packet completes a run |
| Run store (`store/file.go`, `store/lock.go`) | `state.json`, `events.jsonl`, `lock/` | `WriteState`, `ReadState`, `AppendEvent`, `AmbiguousEffects`, `AcquireLock`, `Release` | shared by all commands | failing, short or unsynced writes; death between two files; locks that outlive their owner | log before state; one command in the critical section |
| Engine (`orchestrator/engine.go`) | the `Run` value of the command, the worktrees it has made, the removals it has deferred | `Run`, `Decide`, `Status` | calls everything else in order | every error path; stale reads; the writer's descendants running all the while | the contract of a run (`RunContract`); the evidence is about the result; ambiguous work is kept |
| Command line (`cmd/orch`) | the process | `prepare`, `run`, `status`, `decide` | one process per command, with a human between `prepare` and `run` | death at any moment; files, branches and directories that change between commands | what is admitted is what the human approved |
| Process runner (`runtime/process`) | a child process group, a waiting goroutine, two buffers | `Run` | under git, the writer and every acceptance command | forks during a kill, pipes held by descendants, deadline against exit | bounded; complete output; the group is gone after a kill; no success after the deadline |
| Codex adapter (`adapters/codex`) | a session: outcome, two channels | `Probe`, `Start`, `Wait`, `Cancel`, `Events` | a goroutine around `process.Run`, one that drains events, the engine in `Wait` | closing order, the select of `Wait`, the end of the process | a result is a finished writer's; `Wait` is bounded; the last-message file is removed |
| Git workspace (`workspace/git.go`) | worktrees | `Resolve`, `ResolveCommit`, `Add`, `Remove`, `Head`, `ChangedPaths`, `ValidateAllowedPaths`, `ValidateResultCommit` | `git` through the process runner | git's own conventions (renames), dirty worktrees, paths as written by a human | only allowed paths change; quiet uncommitted work is never removed |
| Verification (`verification`) | none | `Run` | acceptance commands in the verifier's worktree | the timeout of a command inside what is left of the budget of the run | a packet exists only if all commands passed, in order and in time; it ends |
| Evidence (`evidence`) | three files | `Digest`, `writeEvidence` | written by the engine | partial evidence; digests of values that are still redacted or extended | record, packet, bundle and diff name each other; outputs and diff without known secrets |
| Structured result (`adapters/result.go`) | none | `ParseStructuredResult` | last message of the writer | text around the object | first valid object |
| Task contract, policy, host (`domain/task.go`, `policy`, `host`) | none | `ValidateTask`, `DigestTask`, `ValidateApprovedTask`, `ValidateCommand`, `ValidateExecution`, `Prepare` | before the run exists | reference, root and file may change between and within `prepare` and `run` | what is admitted is what was approved; a moved branch costs no approval |
| Redaction (`redaction`) | secrets | `Redact` | before evidence is written | overlapping patterns; what is not redacted (argvs) | no known secret in the outputs and the diff on disk |
| Bootstrap scripts | - | - | - | - | - |

The hazards of each component, at the line where they bite, are listed in
`PROJECT.json` (`hazards`).

## 2. The modules

| Module | Models | Kind |
|---|---|---|
| `RunLifecycle` | `domain/run.go`: states, events, the transition table as a set of moves | operators |
| `RunContract` | what a run promises to a reader of `state.json` | abstract specification |
| `RunStore` | the directory of a run, each operation and each way it can fail | actions, extended by `Engine` |
| `Engine` | `engine.Run` and `engine.Decide`, as processes, over `RunStore` | specification |
| `EngineProperties` | the properties of `Engine`, and `RunContract` instantiated on it | properties |
| `EngineProofs` | proofs about `Engine`: types, the lock and its holder, the human gate | proofs |
| `EngineWorkProofs` | proofs about the writer's work, its record in the log and the evidence, and that no command goes back; extends `EngineProofs` | proofs |
| `EngineContractProofs` | the refinement of `RunContract`, what follows from the contract, and what a reported success is worth; extends `EngineWorkProofs` | proofs |
| `EngineLogProofs` | what `Replay` computes, that the log replays to the record, and how a run comes to rest, on a disk that does not fail; extends `EngineContractProofs` | proofs |
| `TaskGate` | `orch prepare`, the approval, and `orch run` up to the creation of the run: `host.Prepare`, `domain.ValidateTask`, `policy`, `Probe` | specification |
| `Acceptance` | `verification.Run` under its two clocks, and the evidence made of its results | specification |
| `ApprovedRun` | `TaskGate` followed by `Acceptance`: from a task file to a published packet | composition |
| `ApprovedRunProofs` | proofs about it | proofs |
| `ProcessRunner` | `process.Run`, the goroutine in `cmd.Wait`, the processes of the command | specification |
| `ProcessRunnerProofs` | proofs about it | proofs |
| `WriterSession` | `Start` and the Codex session around an instance of `ProcessRunner`, the engine in `Wait`, the end of the `orch` process | composition |
| `WriterSessionProofs` | proofs about it, using those of `ProcessRunnerProofs` | proofs |
| `PathPolicy` | the allowlist of a task against the names git gives | specification of an algorithm |
| `PathPolicyProofs` | what `Clean` computes, and proofs about it | proofs |
| `MC...` | small instances | model checking |

### Engine and RunStore

A command is a process with a program counter `pc[c]`, its own `Run` value
`copy[c]` and the event of the transition it is in. One step is one call that
reads or changes something shared, so two commands interleave at every such
call. `transition` of the source is two steps, `AppendTransition` and
`WriteTransition`, because a crash, an error or another command may come
between; `After` says where `Run` or `Decide` goes on. `Fail` and
`RequireRecovery` are `engine.failed` and `engine.recoveryRequired`; `undo`
holds the removals `engine.Run` has deferred (`preserveWriter = true` takes the
writer's worktree out of it), and `unwind` runs them in reverse order before the
lock is released.

| Steps of `pc` | Code (engine.go) |
|---|---|
| `idle` - `lock` - `create` | 47-128, the validations, the lock, the first `WriteState` |
| `addWriter` | 130-151, with the transition to `IMPLEMENTING` |
| `intent` - `start` - `wait` - `settle` | 153-191, intent, `Start`, `Wait`, settlement |
| `inspect` | 192-237, the checks of the result |
| `addVerifier` - `verify` - `evidence` | 239-305 |
| `unwind` - `remove` - `delete` - `release` | the deferred calls; for the writer's worktree `unwind` is `git status`, `remove` is git's own look within `git worktree remove`, and `delete` is its deletion |
| `read` - `lock` - `check` | `Decide`, 308-358 |
| `append` - `write` | `transition`, 403-420 |

The operations of `RunStore` come in pairs: `AppendEvent` succeeds,
`AppendEventFails` describes every disk a failing call may leave (nothing, a
line that is cut off, or a complete line whose sync failed). `Faults` selects what
the environment may do: `io_error`, `crash`, both or neither.

The log is `log`, its complete lines, and `tail`, what follows them: nothing, a
line that does not decode (`"torn"`), or an event whose newline alone is missing.
The last still decodes, as the scanner of `ReadEvents` returns a last line without
a newline, so the log stays readable (`Lines`); but the next `AppendEvent` then
writes on the same line and returns no error, and what the two make does not
decode. So one failed append and a successful one can take both events out of the
log. The properties say what that costs: `SnapshotIsLogged` names the only two
states that can be on disk without an event that decodes, a decision and
`RECOVERY_REQUIRED`, and `Recorded` in `DecisionIsHuman` and `SuccessIsOnDisk`
is an event that was appended, but perhaps to such a line. A command that dies
within an append leaves the same lines.

The writer is a process group that edits and commits in its worktree as it
likes (`WriterWorks`) from `Start` until it exits, which may be long after the
session has ended: `process.Run` returns when the leader is gone and the pipes
are closed, and says nothing of other descendants.

Abstractions: a commit is a model value, and `Conforming` holds the commits that
pass `ValidateResultCommit` and `ValidateAllowedPaths`; the packet digest is the
pair of commits its content depends on (hashing is injective); an event is its
type, because effect identifier and generation are constants of the program; a
crash is that of a process, not of the machine, so what was written stays; a
process that died is not restarted; for the verifier's worktree, where no writer
runs, `git status` and `git worktree remove` are one step, and for the writer's
they are three, since a descendant may make it dirty before git looks, too late for
git to see it, or while it deletes; an error of git, of
the adapter or of the deadline is possible at every call that returns one,
whatever its reason; an approval's actor and time are not modelled beyond the
fact that a blank one is refused like an unknown decision.

### RunContract

Six kinds of step change `state.json`: creation, the moves that fix nothing,
the end of the implementation, which fixes a conforming result, the end of the
verification, which fixes the packet about that result, the loss of the writer,
and a decision from `AWAITING_APPROVAL`. Nothing else may happen; result and
packet are final, and so are terminal states, except that with `Overlap` a
decision may replace an earlier one (finding 1). `RefinesContract` says that
`Engine`, with `run <- snapshot`, implements it: `engine_faults` checks the
contract with `Overlap`, `engine_serial` the stricter one without.

### ProcessRunner

`live`, `group` and `holding` say which processes of the command run, are in its
process group and can write to its pipes. Processes fork, leave the group
(`MayEscape`), close the pipes and exit at any time. `WaitReturns` is the
goroutine in `cmd.Wait`, which os/exec completes when the leader is gone and the
copying of the pipes has ended. `TakeResult` and `KillGroup` are the cases of
the select; kill(2) reports `EPERM` if no member may be signalled
(`Privileged`), and counts as done if the group is empty. A process identifier
is not reused, and the kill of a group is one step, so a fork comes before it
(and is killed) or after it (by a process that is left). Who may not be signalled
forks only processes that may not be signalled either.

### WriterSession

`stage` is where `Start` and then `session.run` are, and the closed channels
follow from it. `message` is the temporary file of the writer's last message:
`Start` creates it and removes it on its own errors, the writer writes it (and
creates it again if it is gone) as long as its leader lives, and the deferred
`os.Remove` of `session.run` comes last.
`Process == INSTANCE ProcessRunner` is `process.Run` inside; the deadline of the
engine reaches it through the context of the session, and its own timeout of
the same length never comes first. `Wait` is the select, with both cases taken
when both are ready. When the `orch` process exits, all goroutines stop, and the
writer's processes do not.

### TaskGate, Acceptance and ApprovedRun

A command of `TaskGate` reads a task file that anybody may have edited (`Load`
takes any task), resolves its root and its base with git, and either prints the
digest (`prepare`) or goes through the checks of `engine.Run` in their order
(`run`). `Relink` and `MoveBranch` change what a directory and a branch stand
for between any two of these steps, so that the root is resolved twice with
different answers. A directory may also be relinked after the run was admitted: the
run holds the path, and `workspace.Add` works in whatever repository is behind it
by then. The human approves the digest of what `prepare` printed, or does not.
`Wrappers`, `Interpreters`, `InlineFlags` and `Capabilities` are the data of the
policy checks; they decide which tasks are admitted, and no property is about
them alone.

`Acceptance` has one step per call of `verification.Run`: a command starts, time
passes, and it succeeds, fails or is at its limit, which is the earlier of its
own timeout and the end of the run's budget, as the contexts are nested.
`Assemble` is lines 257-289 of `engine.go`, which touch nothing shared; then the
three files are written one by one and the record is published.

`ApprovedRun` puts them in sequence: the run that was admitted verifies the
commands of its own task value, after the writer has used any part of the budget.
The redactor is applied to the outputs of the commands and to the diff
(`Sanitized`, `Assemble`). An argv is written to the bundle as the task has it;
one of the commands of the instance has a secret among its arguments.

Abstractions: a digest stands for the value it is computed from; the required
texts and allowed paths of a task are one Boolean; texts are plain or hold a
secret the redactor knows; time is in seconds; one command runs at a time,
because neither changes anything before the run exists; only the last approved
digest is used. The writer, the commits and the worktrees are in `Engine`; the
moment of a kill and the pipes are in `ProcessRunner`.

### PathPolicy

A human wrote the rules, with `.`, `..`, a trailing or a leading slash; the
writer changes files; git lists the changed paths, with rename detection, which
is its default; the engine accepts or rejects. The reference is `Within`: a rule
names a directory with everything below it, or one file.

## 3. What the runs check

| Run | Question | Result |
|---|---|---|
| `engine_faults` | What survives crashes, I/O errors, short writes, overlapping decides and a busy writer? | mutual exclusion; a decided run was decided so by a human on that packet; the packet, the verification and the result agree and never change once they are published; no state without its event, but for two that may lose it to an earlier append without a newline; no writer without intent; ambiguous work is kept, and uncommitted work of a writer that is gone; after a reported success there is a packet with its evidence, or a decision on the packet that was approved, not always the reported one (finding 1); the contract, up to decisions that replace decisions |
| `engine_serial` | Does the engine implement the strict contract when decides do not overlap? | yes (so a terminal state stays), and a packet is decided at most once, by the decision that stays, under the same faults; no command tries anything again, each is over after 30 steps |
| `engine_crash` | Do log and snapshot agree after crashes alone, within an append too, and does every run come to rest? | the log replays to the snapshot, or one step past it while the lock is held, and only a dead command keeps a lock; a run that returned is at rest, with an unknown outcome of the writer in `RECOVERY_REQUIRED`, and unless a command died it gets there and its lock is free |
| `decide_overlap` | Is a terminal state final when decides overlap? | no: finding 1 |
| `run_crash` | Does a crash during the writer's work lead to recovery? | no: finding 2 |
| `process` | Is the output of `process.Run` complete whatever descendants do, is a success that of its leader and from before the deadline, and does it return by its deadline? | yes; it returns if in the end nobody out of reach of its signal holds the pipes |
| `process_escape` | And if somebody does? | no: finding 3 |
| `session` | Is a result that `Wait` returns a finished writer's, and was its end announced? Is an announced end never followed by the writer's error? Does `Wait` answer by the deadline even if `process.Run` hangs, and does `session.run` end without a receiver of its events? Is the last message removed for good? | yes, though `Wait` may answer an announced end with the context, if the deadline passes; `session.run` ends when `process.Run` does |
| `session_orphan` | Is the writer gone when the run gave up on it? | no: finding 4 |
| `approved` | Is what is admitted, verified and published what the human approved, whatever changes around the commands? Does the packet prove that all commands passed in time, and does the verification end? | yes, without repeating a command or a file; and a branch that moved does not invalidate an approval |
| `paths` | What does the allowlist guarantee, given git's rename detection? | no new content outside it; what escapes is the source of a move; clean rules permit all they denote |
| `paths_moved` | Is it sound, then? | no: finding 5 |

Every property of a passing run comes with a mutant in `PROJECT.json`: a
definition of the model changed the way a plausible bug would change the code,
for which TLC finds the property violated. The mutated definitions stand before
the ones they replace, with a comment `Mutant`.

### Bounds

One run; two decide commands, because every property of decides relates two of
them, each executed once, because a finished command leaves nothing behind but
the disk; two commits, one conforming and one not, because the checks only tell
these apart; three evidence files, as in the code. All commands end, so the log
is bounded by the program. A leader with three descendants (two in the runs with
`WriterSession`), of which one may not be signalled and each may leave the group.
`PathPolicy`: two files in a directory and one beside it, two contents, tasks of
at most two rules of at most two segments; a verdict depends on each path and
each rule alone, and two rules are needed for a moved file.
`approved`: two directories, so that one can be linked into the repository of
the other; two commits, so that a branch can move; four tasks, of which two may
run, with one and with two commands, one names a command the policy denies and
one is delegated at a level that is refused; a budget of three seconds and timeouts of one and
two, so that each of the two clocks can be the first.
The largest runs: `engine_faults` has 1,558,207 distinct states, `engine_serial`
692,005, `engine_crash` 219,139, `approved` 84,660, `session` 41,676.
Symmetry is used by the engine runs without liveness only.

### Fairness

`Engine`: a command that runs keeps taking steps. Every call below the engine
has a deadline (30 s for git, the budget of the task for the rest), and a local
file operation returns. This rests on `RunReturnsUnlessEscaped` of
`ProcessRunner`, hence on descendants that stay in the group (finding 3); the
writer is exempt, since `Wait` is bounded without it (`WaitIsBounded`). Nothing makes a command start, a human
decide, or the writer exit. `ProcessRunner` and `WriterSession`: goroutines run
and deadlines pass; no process need exit by itself, nobody need receive events.
`ApprovedRun`: once the verification has begun the engine runs and time passes;
a command that never exits is ended by its limit, at which `process.Run` returns
(with the same reservation, finding 3). Nobody has to edit, approve or run a task.

## 4. What is proved

`tlapm` checks these for all values of the constants, under the named
assumptions of the modules (`EngineAssumption`, `ProcessAssumption`,
`SessionAssumption`, `TaskAssumption`, `PathsAssumption`, `RulesAssumption`:
disjoint names, `Conforming \subseteq Commits`, types of the tasks, finitely many
paths, none with a segment `.` or `..`, as git stores them). TLC evaluates the
assumptions in every run. Hypotheses of a theorem beyond these are in its
statement.

| Theorem | Statement | Argument |
|---|---|---|
| `EngineProofs!TypeCorrect` | `Spec => []TypeOK` | `TypeInv`: `TypeOK` with `WorkInv`, which ties `reported`, `verifier` and the result of the Runner's copy to the step it is at (the verifier checks out a commit only because an acceptable result was reported) |
| `EngineProofs!LockExcludes` | `Spec => []MutualExclusion` | `LockInv`: who is in the critical section owns the lock. It is inductive although locks are left behind, because nobody but the owner removes one |
| `EngineProofs!LockIsHeld` | `~IoErrors => (Spec => []LockHasHolder)` | `HolderInv`: no step but `Release` and a crash leads out of the critical section; with I/O errors it is false, as the error of a release is dropped |
| `EngineProofs!HumanGate` | `Spec => []DecisionIsHuman` | `GateInv`: the decision, the evidence and the log lines are there before the copy of a command is in a decided state, and none of them is lost; every copy, stale ones included, is vouched for. As long as the Runner is in the body of `engine.Run` (`Body`) every line is whole, because it goes on only if its append succeeded (`PhaseInv` orders its steps); a decide may append to a line that another left without its newline, and then the log does not decode, which is the case that `Recorded` names |
| `EngineWorkProofs!QuietWorkKept` | `Spec => QuietWorkIsKept` | a writer that is gone changes nothing and is not started again while its worktree is there (`PhaseInv`); git enters its deletion only after it has seen a clean worktree, and a deletion that stops halfway leaves one it refuses to look at again |
| `EngineWorkProofs!EvidenceMatches`, `SnapshotLogged`, `EffectsRecorded`, `AmbiguousWorkKept` | the invariants of `engine_faults` | `WholeInv`: `PhaseInv` says what each phase of the Runner has made (worktree, writer, deferred removals), `EffectInv` what the log says of the writer in each phase, `ResultInv` that packet, verifier and files are about the reported result, and `SoundInv` that the record of a command and the one on disk are both `Sound`: a state is reached only with what it promises. `Evidenced` is what it promises of the log, with the two states whose event an earlier append can cost; that only these two can come after a failed append follows from `GateInv`, as every other error of an append ends the command |
| `EngineWorkProofs!NoCommandGoesBack` | `Spec => CommandsAdvance` | `StepsLeft` is a variant: it counts the longest way from each step to the end, through transitions, deferred removals and error paths (`Counts`, `RunAdvances`, `SharedAdvances`). `PhaseInv` gives the event a transition of the Runner stands for, and `DeciderInv` says that a decide is never at a step of `engine.Run`, whose deferred removals its own steps would otherwise have to count |
| `EngineContractProofs!EngineImplementsContract` | `Spec => RefinesContract` | `RecordInv`: `RunnerInv` (between transitions the Runner's record is the one on disk), `TransitionInv` (within one it is ahead by what the event brings, and the move is in the table) and `DecisionInv` (a decider that is past its read has the record on disk but for the state, which is `AWAITING_APPROVAL` or, with `Overlap`, a decision). Only `CreateState` and `WriteTransition` change `state.json`; each is a step of the contract. `Origin` is the state a move starts from: that of a stale copy for a decision |
| `EngineContractProofs!PublishedStays` | `Spec => PublishedIsFrozen` | from the contract, in which only `Decide` is left once there is a packet (`ContractFreezes`), with `RecordInv` for the evidence files |
| `EngineContractProofs!TerminalStays` | `~Overlap => (Spec => TerminalIsFinal)` | from the contract (`ContractEnds`: only a decision that overlaps leaves a terminal state); without `~Overlap` it is false (finding 1), so the overlap is the whole cause |
| `EngineContractProofs!SuccessHolds` | `Spec => []SuccessIsOnDisk` | `SuccessInv`: what a success promises is there before the command releases its lock, from the write of its own transition; it lasts because the contract keeps the packet and leaves a decided run only for another decision, an event that was appended stays or the log does not decode, and an approval is made once (`GrantedLasts`). It does not say that the state is still the reported decision: that is `DecisionKept`, without overlap |
| `EngineContractProofs!DecisionKept` | `~Overlap => (Spec => []DecisionIsKept)` | `OneDecision` and `SuccessInv` with `RecordInv`: no decide that comes later gets past its check; with `Overlap` it is false (finding 1) |
| `EngineLogProofs!LogReplaysToRecord` | `~Overlap /\ ~IoErrors => (Spec => []LogReplays)` | `LogInv`: the log is ahead of the record exactly from the append of a transition to its write, and for ever when the command died in between, whose lock then keeps everybody out. A death within the append leaves a line that does not decode or one that lacks its newline, and that one is the next move of the record (`LineIsLast`); the lock of the dead keeps everybody from appending to it (`TornInv`). `ReplayAppend`, what one more line does to `Replay`, is proved for logs of any length |
| `EngineLogProofs!ReturnsAtRest` | `~IoErrors => (Spec => []RunReturnsAtRest)` | `RestInv`: behind the last transition the record is at rest, and an effect is unsettled only from its intent to its settlement, during the transition to `RECOVERY_REQUIRED`, or after it. A transition of a living command succeeds since only a death tears the log and the lock of the dead keeps the living from it (`TornInv`), and the table accepts the event (`RecordInv`). With I/O errors it is false: a run stays in `VERIFYING` when an evidence file cannot be written |
| `ProcessRunnerProofs!TypeCorrect`, `OutputComplete`, `GroupTerminated`, `AnswerHonest` | the invariants of `process` and its action property | `Inv`: when `cmd.Wait` has returned nobody holds the pipes, and only a holder could hand them on; what a kill leaves of the group is privileged, and only a member could fork a member. `AnswerIsHonest` is about the step that returns: `Start`, `KillGroup` or `Collect` (`AnswerFrame`), of which only the last answers with a success, after it has looked at the context |
| `WriterSessionProofs!RunsProcess` | `Spec => Process!Spec` | step by step: a step of the session is one of `process.Run` or leaves its variables alone |
| `WriterSessionProofs!TypeCorrect`, `WaitHonest`, `FinishAnnounced`, `MessageRemoved` | the invariants of `session` | `HandOverInv` chains outcome, result, announcement and answer across the goroutines; that nobody writes to the pipes, and that the leader is gone when `process.Run` returns, comes from the theorems about `ProcessRunner` through `RunsProcess` |
| `ApprovedRunProofs!TypeCorrect`, `ApprovedAdmitted`, `VerbatimMatches`, `PacketProves`, `EvidenceChained`, `PacketIsApproved` | the invariants of `approved` | each check of the gate leaves behind what it has established of the command's own task value, which nobody else changes; the results so far are a prefix of the commands, each in time, because time stops at the limit of the one that runs |
| `ApprovedRunProofs!VerificationIsBounded` | `Spec => VerificationAdvances` | `Check!StepsLeft` is a variant: two steps per command left, one per second of the budget (a second passes only below the limit of the command, hence below the budget), four for the evidence |
| `PathPolicyProofs!CleanRulesHonoured` | `Spec => []CleanRulesAreHonoured` | for a rule in clean form `Permits` is `Within`, whatever `Clean` computes of others |
| `PathPolicyProofs!ContentInside`, `OnlyMoves` | `Spec => []ContentStaysInside`, `Spec => []OnlyMovesEscape` | `Permits` allows nothing outside `Within` (`PermitsOnlyWithin`; for rules with a slash this needs `CleanPathStays`: a path without `.` and `..` is its own clean form), and what is accepted was named by git or is the old path of a move (`NamedIsAllowed`, `HiddenMoved`) |

Two definitions are recursive functions over a sequence, `Replay` and `Clean`.
The library's induction theorems take an operator as a parameter, which the
provers cannot instantiate; the lemmas about these functions go by least
counterexample instead (`LeastNumber`, from `WFMin` and the well-foundedness of
`<` on `Nat`): a function that satisfies the recursion exists (`PathExists`), is
unique (`PathIsUnique`, `CleaningIsUnique`), and so is the one `CHOOSE` picks.

Every invariant, every action property and the refinement that a passing run
checks has a theorem. Only model-checked are the liveness properties, because
the prover does not handle fairness and `ENABLED`: `RunSettles`,
`RunReturnsUnlessEscaped`, `WaitIsBounded`, `SessionEnds`,
`VerificationEnds`. Of two of them the part that is safety is proved: a command
takes a bounded number of steps (`NoCommandGoesBack`), `orch run` returns only
from a run at rest (`ReturnsAtRest`), and the verification takes a bounded number
of steps (`VerificationIsBounded`). What is left to TLC of `RunSettles` and
`VerificationEnds` is that a step can be taken as long as a command is not over,
and that it is. The five violated properties are false; one of them,
`TerminalIsFinal`, is proved for decides that do not overlap, where it follows from
the contract that `engine_serial` checks.

## 5. Findings

1. `decide_overlap`: `engine.go:320` reads the state before the lock, so two
   decides can both succeed and a terminal state is overwritten, against
   `run.go:76` and `docs/exec-plans/human-task-mvp.md:443`.
2. `run_crash`: death after `effect_intent` leaves `IMPLEMENTING` and a lock for
   ever; `docs/design/agent-orchestrator.md:139` wants `RECOVERY_REQUIRED`.
3. `process_escape`: `runner.go:70` waits without a bound after the kill.
4. `session_orphan`: `Wait` and `process.Run` see the deadline separately, and
   the process may exit before the kill.
5. `paths_moved`: `git diff --name-only` hides the old path of a renamed file.

Three further divergences from the docs were met while modelling. No run refutes
them; the properties state what holds of the code instead.

- `docs/exec-plans/human-task-mvp.md:565` says that a dirty worktree is never
  deleted automatically. Between git's own look and the end of its deletion
  (`git.go:75`) a descendant of the writer may still write; `QuietWorkIsKept` is
  about work whose author is gone.
- A successful `AppendEvent` may leave a log that does not decode, and a decision
  on disk without its event, when the append before it failed at the newline alone
  (`file.go:118`); see the exception in `SnapshotIsLogged`.
- `docs/exec-plans/human-task-mvp.md:606` wants the bytes of a secret nowhere under
  the run directory. The argv of an acceptance command goes into
  `evidence-bundle.json` as it stands in the task (`engine.go:257-260` redacts the
  outputs and the diff); `EvidenceChain` is about outputs and diff.

## 6. Plan

Done: the core (`RunLifecycle`, `RunStore`, `Engine`, `RunContract`), the process
runner, the session with its start, the allowlist, the gate, the verification
with its evidence, their composition, and the proofs above. Left:

1. Proofs that connect the levels: that `ApprovedRun` and `Engine` agree on the
   order of verification, evidence and packet.
2. `RunStore` with generations and a recovery command, once the code has one, to
   state what the fence of `AppendEvent` has to guarantee. Today every event
   carries generation 1 and the fence is data without effect.
3. A second attempt after `request_rework`, once the engine has a command for it.
4. Crashes of the machine: the order of writes that `Sync` and the sync of the
   directory enforce, with what a file system may lose between them.
5. The scan of `ParseStructuredResult` on an alphabet of JSON fragments, and its
   repair attempt if a caller uses it.

## 7. Not modelled

- The regular expressions of redaction and the scan of `ParseStructuredResult`:
  functions of text without state; the models have where they are applied and
  that each may fail.
- `FilterEnv` and `ParseStructuredResultWithRepair`, which nothing calls.
- `verificationEnvironment` and the environment of git and the writer: data.
- How git's output is split, the prompt, JSON, the printing of commands.
- The bootstrap scripts and CI: not part of the running system.
- Hazards without a property (each with its reason in `PROJECT.json`): leaked
  worktrees and temporary files, unreachable result commits that git may prune,
  acceptance commands that change the tree the next one runs on, a directory that
  is relinked after the run was admitted, and the state `REWORKING`.
