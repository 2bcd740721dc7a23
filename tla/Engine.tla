------------------------------- MODULE Engine -------------------------------
(* The orchestrator: internal/orchestrator/engine.go with the commands of   *)
(* cmd/orch/main.go that call it, over one run.                             *)
(*                                                                          *)
(* Every command is a process of the operating system.  The Runner is the   *)
(* `orch run` that creates the run; each Decider is one `orch decide`.      *)
(* They share the run's directory (RunStore) and nothing else; `orch        *)
(* status` only reads it and appears as the read a decide begins with.      *)
(* One step of a command is one call that reads or changes shared state.    *)
(* `transition` of the source is the pair of steps Append and Write, and    *)
(* `event` says which transition a command is in.                           *)
(*                                                                          *)
(* Abstractions: a commit is a model value, and Conforming holds the        *)
(* commits that pass ValidateResultCommit and ValidateAllowedPaths; the     *)
(* packet digest is the pair of commits its content depends on; an error of *)
(* git, of the adapter or of the deadline may happen at every call that can *)
(* return one.                                                              *)
EXTENDS RunLifecycle, RunStore, FiniteSets

CONSTANTS
    Runner, Deciders,
    Commits,        \* the commits the writer may make
    Conforming,     \* those that pass the engine's checks of the result
    Base,           \* the commit of the task
    NoCommit,
    Overlap         \* whether two decide commands may run at the same time

ASSUME EngineAssumption ==
    /\ Runner \notin Deciders
    /\ NoOwner \notin Deciders \cup {Runner}
    /\ Conforming \subseteq Commits
    /\ Base \notin Commits
    /\ NoCommit \notin Commits \cup {Base}
    /\ Overlap \in BOOLEAN

VARIABLES
    tree,       \* the writer's worktree
    writer,     \* the writer's process group: "none" before Start
    verifier,   \* the commit checked out in the verifier's worktree
    evidence,   \* how many of the three evidence files are complete
    pc,         \* where each command is
    copy,       \* each command's own Run value
    event,      \* the event of the transition each command is in
    reported,   \* the result commit of the writer's session
    undo,       \* the worktrees whose removal the Runner has deferred
    approval,   \* the approval each decide carries
    succeeded   \* the commands that have nothing left to fail

storeVars == <<snapshot, log, tail, lock>>
workVars == <<tree, writer, verifier, evidence>>
runnerVars == <<reported, undo>>
vars == <<storeVars, workVars, runnerVars, pc, copy, event, approval, succeeded>>

Commands == {Runner} \cup Deciders
Heads == Commits \cup {Base}

NoPacket == [result |-> NoCommit, verified |-> NoCommit]
Packets == [result : Commits, verified : Commits]

NoRun == [state |-> "NONE", result |-> NoCommit, packet |-> NoPacket,
          recovery |-> FALSE]
NewRun == [NoRun EXCEPT !.state = "CREATED"]

NoTree == [present |-> FALSE, head |-> NoCommit, dirty |-> FALSE]
Trees == [present : {TRUE}, head : Heads, dirty : BOOLEAN]

NoApproval == [task |-> FALSE, decision |-> "none", packet |-> NoPacket]

EvidenceFiles == 3      \* diff.patch, evidence-bundle.json, decision-packet.json

-----------------------------------------------------------------------------
(* Control *)

Goto(c, step) == pc' = [pc EXCEPT ![c] = step]

\* The process ends, and its memory with it.
End(c, how) ==
    /\ Goto(c, how)
    /\ copy' = [copy EXCEPT ![c] = NoRun]
    /\ event' = [event EXCEPT ![c] = "none"]

\* Mutant: Decide releases the lock at its end and not in a defer.
Bail_Returning(c) == Goto(c, IF c = Runner THEN "unwind" ELSE "returned")

\* A return with an error: the deferred calls run, the last one releases.
Bail(c) == Goto(c, IF c = Runner THEN "unwind" ELSE "release")

Begin(c, e) == Goto(c, "append") /\ event' = [event EXCEPT ![c] = e]

\* Where a command goes on after the transition for event e has succeeded.
After(e) ==
    CASE e = "preparation_started" -> "addWriter"
      [] e = "implementation_started" -> "intent"
      [] e = "implementation_finished" -> "addVerifier"
      [] e \in {"verification_finished", "failed", "write_ambiguous"} -> "unwind"
      [] OTHER -> "release"

\* engine.failed
Fail == Begin(Runner, "failed") /\ UNCHANGED <<copy, undo>>

\* Mutant: preserveWriter is not set.
RequireRecovery_Removing ==
    /\ copy' = [copy EXCEPT ![Runner].recovery = TRUE]
    /\ UNCHANGED undo
    /\ Begin(Runner, "write_ambiguous")

\* engine.recoveryRequired, after preserveWriter = true
RequireRecovery ==
    /\ copy' = [copy EXCEPT ![Runner].recovery = TRUE]
    /\ undo' = undo \ {"writer"}
    /\ Begin(Runner, "write_ambiguous")

-----------------------------------------------------------------------------
(* Steps the commands share *)

TakeLock(c) ==
    /\ pc[c] = "lock"
    /\ \/ /\ AcquireLock(c)
          /\ Goto(c, IF c = Runner THEN "create" ELSE "check")
          /\ UNCHANGED <<copy, event>>
       \/ AcquireLockFails(c) /\ End(c, "returned")
    /\ UNCHANGED <<workVars, runnerVars, approval, succeeded>>

\* transition, up to the append and run.State = next
AppendTransition(c) ==
    /\ pc[c] = "append"
    /\ \E next \in RunStates :
        /\ <<copy[c].state, event[c], next>> \in Moves
        /\ AppendEvent(event[c])
        /\ copy' = [copy EXCEPT ![c].state = next]
    /\ Goto(c, "write")
    /\ UNCHANGED <<workVars, runnerVars, event, approval, succeeded>>

\* Mutant: an append that fails is tried again.
TransitionFails_Retrying(c) ==
    /\ pc[c] = "append"
    /\ \/ ~Accepts(copy[c].state, event[c]) /\ UNCHANGED storeVars /\ Bail(c)
       \/ Accepts(copy[c].state, event[c]) /\ AppendEventFails(event[c]) /\ UNCHANGED pc
    /\ UNCHANGED <<workVars, runnerVars, copy, event, approval, succeeded>>

TransitionFails(c) ==
    /\ pc[c] = "append"
    /\ \/ ~Accepts(copy[c].state, event[c]) /\ UNCHANGED storeVars
       \/ Accepts(copy[c].state, event[c]) /\ AppendEventFails(event[c])
    /\ Bail(c)
    /\ UNCHANGED <<workVars, runnerVars, copy, event, approval, succeeded>>

\* Mutant: an error of the write is dropped.
WriteTransition_ErrorDropped(c) ==
    /\ pc[c] = "write"
    /\ WriteState(copy[c]) \/ WriteStateFails(copy[c])
    /\ Goto(c, After(event[c]))
    /\ succeeded' = IF event[c] \in DecisionEvents \cup {"verification_finished"}
                    THEN succeeded \cup {c} ELSE succeeded
    /\ UNCHANGED <<workVars, runnerVars, copy, event, approval>>

\* transition, the write of the new state
WriteTransition(c) ==
    /\ pc[c] = "write"
    /\ \/ /\ WriteState(copy[c])
          /\ Goto(c, After(event[c]))
          /\ succeeded' = IF event[c] \in DecisionEvents \cup {"verification_finished"}
                          THEN succeeded \cup {c} ELSE succeeded
       \/ WriteStateFails(copy[c]) /\ Bail(c) /\ UNCHANGED succeeded
    /\ UNCHANGED <<workVars, runnerVars, copy, event, approval>>

\* defer lock.Release()
ReleaseLock(c) ==
    /\ pc[c] = "release"
    /\ Release \/ ReleaseFails
    /\ End(c, "returned")
    /\ UNCHANGED <<workVars, runnerVars, approval, succeeded>>

-----------------------------------------------------------------------------
(* orch run *)

\* Mutant: a second run may get the ID of one that has returned.
BeginRun_SameID ==
    /\ pc[Runner] \in {"idle", "returned"}
    /\ copy' = [copy EXCEPT ![Runner] = NewRun]
    /\ Goto(Runner, "lock")
    /\ UNCHANGED event
    /\ UNCHANGED <<storeVars, workVars, runnerVars, approval, succeeded>>

\* Everything before the lock: validations, Probe, the new Run record.
BeginRun ==
    /\ pc[Runner] = "idle"
    /\ \/ /\ copy' = [copy EXCEPT ![Runner] = NewRun]
          /\ Goto(Runner, "lock")
          /\ UNCHANGED event
       \/ End(Runner, "returned")
    /\ UNCHANGED <<storeVars, workVars, runnerVars, approval, succeeded>>

CreateState ==
    /\ pc[Runner] = "create"
    /\ \/ WriteState(copy[Runner]) /\ Begin(Runner, "preparation_started")
       \/ WriteStateFails(copy[Runner]) /\ Bail(Runner) /\ UNCHANGED event
    /\ UNCHANGED <<workVars, runnerVars, copy, approval, succeeded>>

\* An Add that reports an error may have made the worktree, and the removal
\* is deferred only after it returned.
AddWriterTree ==
    /\ pc[Runner] = "addWriter"
    /\ LET new == [present |-> TRUE, head |-> Base, dirty |-> FALSE] IN
        \/ /\ tree' = new
           /\ undo' = {"writer"}
           /\ Begin(Runner, "implementation_started")
           /\ UNCHANGED copy
        \/ tree' \in {NoTree, new} /\ Fail
    /\ UNCHANGED <<storeVars, writer, verifier, evidence, reported, approval, succeeded>>

\* Mutant: the writer starts although the intent was not recorded.
RecordIntent_ErrorDropped ==
    /\ pc[Runner] = "intent"
    /\ AppendEvent("effect_intent") \/ AppendEventFails("effect_intent")
    /\ Goto(Runner, "start")
    /\ UNCHANGED <<workVars, runnerVars, copy, event, approval, succeeded>>

RecordIntent ==
    /\ pc[Runner] = "intent"
    /\ \/ AppendEvent("effect_intent") /\ Goto(Runner, "start")
       \/ AppendEventFails("effect_intent") /\ Bail(Runner)
    /\ UNCHANGED <<workVars, runnerVars, copy, event, approval, succeeded>>

StartWriter ==
    /\ pc[Runner] = "start"
    /\ \/ /\ writer' = "live"
          /\ Goto(Runner, "wait")
          /\ UNCHANGED <<copy, event, undo>>
       \/ RequireRecovery /\ UNCHANGED writer
    /\ UNCHANGED <<storeVars, tree, verifier, evidence, reported, approval, succeeded>>

\* Mutant: an error of Wait ends the run as failed.
WaitForWriter_Failing ==
    /\ pc[Runner] = "wait"
    /\ \/ /\ reported' = tree.head
          /\ Goto(Runner, "settle")
          /\ UNCHANGED <<copy, event, undo>>
       \/ Fail /\ UNCHANGED reported
    /\ UNCHANGED <<storeVars, workVars, approval, succeeded>>

\* The session reports the HEAD it finds.  Descendants of the writer may be
\* alive after a success, and after an error that the deadline caused.
WaitForWriter ==
    /\ pc[Runner] = "wait"
    /\ \/ /\ reported' = tree.head
          /\ Goto(Runner, "settle")
          /\ UNCHANGED <<copy, event, undo>>
       \/ RequireRecovery /\ UNCHANGED reported
    /\ UNCHANGED <<storeVars, workVars, approval, succeeded>>

RecordSettlement ==
    /\ pc[Runner] = "settle"
    /\ \/ /\ AppendEvent("effect_settlement")
          /\ Goto(Runner, "inspect")
          /\ UNCHANGED <<copy, event, undo>>
       \/ AppendEventFails("effect_settlement") /\ RequireRecovery
    /\ UNCHANGED <<workVars, reported, approval, succeeded>>

\* HEAD is still the reported commit, and that commit conforms.
ResultIsAcceptable == tree.head = reported /\ reported \in Conforming

InspectResult ==
    /\ pc[Runner] = "inspect"
    /\ \/ /\ ResultIsAcceptable
          /\ copy' = [copy EXCEPT ![Runner].result = reported]
          /\ Begin(Runner, "implementation_finished")
          /\ UNCHANGED undo
       \/ Fail
    /\ UNCHANGED <<storeVars, workVars, reported, approval, succeeded>>

\* Mutant: the verifier checks out the writer's HEAD.
AddVerifierTree_AtHead ==
    /\ pc[Runner] = "addVerifier"
    /\ \/ /\ verifier' = tree.head
          /\ undo' = undo \cup {"verifier"}
          /\ Goto(Runner, "verify")
          /\ UNCHANGED <<copy, event>>
       \/ verifier' \in {NoCommit, tree.head} /\ Fail
    /\ UNCHANGED <<storeVars, tree, writer, evidence, reported, approval, succeeded>>

AddVerifierTree ==
    /\ pc[Runner] = "addVerifier"
    /\ \/ /\ verifier' = reported
          /\ undo' = undo \cup {"verifier"}
          /\ Goto(Runner, "verify")
          /\ UNCHANGED <<copy, event>>
       \/ verifier' \in {NoCommit, reported} /\ Fail
    /\ UNCHANGED <<storeVars, tree, writer, evidence, reported, approval, succeeded>>

\* Mutant: a failed verification returns its error and records nothing.
Verify_Returning ==
    /\ pc[Runner] = "verify"
    /\ Goto(Runner, "evidence") \/ Bail(Runner)
    /\ UNCHANGED <<storeVars, workVars, runnerVars, copy, event, approval, succeeded>>

Verify ==
    /\ pc[Runner] = "verify"
    /\ \/ Goto(Runner, "evidence") /\ UNCHANGED <<copy, event, undo>>
       \/ Fail
    /\ UNCHANGED <<storeVars, workVars, reported, approval, succeeded>>

\* Mutant: nothing stops a file from being written again.
WriteEvidence_Again ==
    /\ pc[Runner] = "evidence"
    /\ evidence <= EvidenceFiles
    /\ evidence' = evidence + 1
    /\ UNCHANGED <<storeVars, tree, writer, verifier, runnerVars, pc, copy, event,
                   approval, succeeded>>

\* A digest or an evidence file that fails returns without a transition.
WriteEvidence ==
    /\ pc[Runner] = "evidence"
    /\ evidence < EvidenceFiles
    /\ \/ evidence' = evidence + 1 /\ UNCHANGED pc
       \/ IoErrors /\ Bail(Runner) /\ UNCHANGED evidence
    /\ UNCHANGED <<storeVars, tree, writer, verifier, runnerVars, copy, event,
                   approval, succeeded>>

\* Mutant: the digests are set after the transition has written the record.
PublishPacket_Late ==
    /\ pc[Runner] = "evidence"
    /\ evidence = EvidenceFiles
    /\ Begin(Runner, "verification_finished")
    /\ UNCHANGED <<storeVars, workVars, runnerVars, copy, approval, succeeded>>

PublishPacket ==
    /\ pc[Runner] = "evidence"
    /\ evidence = EvidenceFiles
    /\ copy' = [copy EXCEPT ![Runner].packet =
                    [result |-> reported, verified |-> verifier]]
    /\ Begin(Runner, "verification_finished")
    /\ UNCHANGED <<storeVars, workVars, runnerVars, approval, succeeded>>

\* The deferred removals, last in first out; their errors are dropped.
RemoveVerifierTree ==
    /\ pc[Runner] = "unwind"
    /\ "verifier" \in undo
    /\ verifier' \in {verifier, NoCommit}
    /\ undo' = undo \ {"verifier"}
    /\ UNCHANGED <<storeVars, tree, writer, evidence, pc, copy, event, reported,
                   approval, succeeded>>

\* workspace.Remove refuses a worktree in which git status finds changes.
CheckWriterTree ==
    /\ pc[Runner] = "unwind"
    /\ undo = {"writer"}
    /\ \/ ~tree.dirty /\ Goto(Runner, "remove") /\ UNCHANGED undo
       \/ undo' = {} /\ UNCHANGED pc
    /\ UNCHANGED <<storeVars, workVars, copy, event, reported, approval, succeeded>>

\* Mutant: git worktree remove --force
RecheckWriterTree_Force ==
    /\ pc[Runner] = "remove"
    /\ Goto(Runner, "delete")
    /\ UNCHANGED <<storeVars, workVars, runnerVars, copy, event, approval, succeeded>>

\* git worktree remove looks for changes itself before it deletes anything: a
\* descendant of the writer may have made some since.
RecheckWriterTree ==
    /\ pc[Runner] = "remove"
    /\ \/ ~tree.dirty /\ Goto(Runner, "delete") /\ UNCHANGED undo
       \/ undo' = {} /\ Goto(Runner, "unwind")
    /\ UNCHANGED <<storeVars, workVars, copy, event, reported, approval, succeeded>>

\* Then it deletes file by file, without a look at what a descendant does
\* meanwhile.  A deletion that stops halfway leaves files missing.
DeleteWriterTree ==
    /\ pc[Runner] = "delete"
    /\ \/ tree' \in {NoTree, tree}
       \/ tree.present /\ tree' = [tree EXCEPT !.dirty = TRUE]
    /\ undo' = {}
    /\ Goto(Runner, "unwind")
    /\ UNCHANGED <<storeVars, writer, verifier, evidence, copy, event, reported,
                   approval, succeeded>>

FinishUnwind ==
    /\ pc[Runner] = "unwind"
    /\ undo = {}
    /\ Goto(Runner, "release")
    /\ UNCHANGED <<storeVars, workVars, runnerVars, copy, event, approval, succeeded>>

-----------------------------------------------------------------------------
(* orch decide *)

Ended(c) == pc[c] \in {"returned", "crashed"}

\* statusTaskDigest: the task digest of the approval, "" if there is no run.
BeginDecide(d) ==
    /\ pc[d] = "idle"
    /\ Overlap \/ \A other \in Deciders \ {d} : pc[other] = "idle" \/ Ended(other)
    /\ approval' = [approval EXCEPT ![d].task = snapshot # NoRun]
    /\ Goto(d, "read")
    /\ UNCHANGED <<storeVars, workVars, runnerVars, copy, event, succeeded>>

\* Mutant: the result commit is a field that ReadState does not read back.
ReadRun_ResultDropped(d) ==
    /\ pc[d] = "read"
    /\ \/ /\ snapshot # NoRun
          /\ copy' = [copy EXCEPT ![d] = [snapshot EXCEPT !.result = NoCommit]]
          /\ Goto(d, "lock")
          /\ UNCHANGED event
       \/ (snapshot = NoRun \/ IoErrors) /\ End(d, "returned")
    /\ UNCHANGED <<storeVars, workVars, runnerVars, approval, succeeded>>

\* ReadState comes before the lock.
ReadRun(d) ==
    /\ pc[d] = "read"
    /\ \/ /\ snapshot # NoRun
          /\ copy' = [copy EXCEPT ![d] = snapshot]
          /\ Goto(d, "lock")
          /\ UNCHANGED event
       \/ (snapshot = NoRun \/ IoErrors) /\ End(d, "returned")
    /\ UNCHANGED <<storeVars, workVars, runnerVars, approval, succeeded>>

\* Mutant: any packet will do.
ValidateApproval_AnyPacket(a, run) ==
    /\ a.task
    /\ a.decision \in Decisions
    /\ a.packet # NoPacket

\* domain.ValidateApproval: a blank actor or a zero time is refused like an
\* unknown decision.
ValidateApproval(a, run) ==
    /\ a.task
    /\ a.decision \in Decisions
    /\ a.packet # NoPacket
    /\ a.packet = run.packet

\* Mutant: the state is not looked at.
MayDecide_AnyState(a, run) == ValidateApproval(a, run)

MayDecide(a, run) ==
    /\ run.state = "AWAITING_APPROVAL"
    /\ ValidateApproval(a, run)

\* The human's decision and packet are arguments of the command, and nothing
\* before this step reads them.
CheckApproval(d) ==
    /\ pc[d] = "check"
    /\ \E decision \in Decisions \cup {"none"}, packet \in Packets \cup {NoPacket} :
        LET a == [task |-> approval[d].task, decision |-> decision, packet |-> packet] IN
        IF MayDecide(a, copy[d])
        THEN /\ approval' = [approval EXCEPT ![d] = a]
             /\ Begin(d, EventOf[decision])
        ELSE Bail(d) /\ UNCHANGED <<approval, event>>
    /\ UNCHANGED <<storeVars, workVars, runnerVars, copy, succeeded>>

-----------------------------------------------------------------------------
(* The environment *)

\* The writer's processes edit and commit in their worktree until they exit.
WriterWorks ==
    /\ writer = "live"
    /\ tree.present
    /\ tree' \in Trees
    /\ UNCHANGED <<storeVars, writer, verifier, evidence, runnerVars, pc, copy,
                   event, approval, succeeded>>

WriterExits ==
    /\ writer = "live"
    /\ writer' = "gone"
    /\ UNCHANGED <<storeVars, tree, verifier, evidence, runnerVars, pc, copy,
                   event, approval, succeeded>>

\* The event that a command is appending.
Appending(c) ==
    CASE pc[c] = "append" /\ Accepts(copy[c].state, event[c]) -> event[c]
      [] pc[c] = "intent" -> "effect_intent"
      [] pc[c] = "settle" -> "effect_settlement"
      [] OTHER -> "none"

\* A command dies between two steps, or in the middle of an append.  It runs
\* no deferred call; the writer it started lives on.
Crash(c) ==
    /\ "crash" \in Faults
    /\ pc[c] # "idle" /\ ~Ended(c)
    /\ End(c, "crashed")
    /\ \/ UNCHANGED storeVars
       \/ Appending(c) # "none" /\ CutAppend(Appending(c))
    /\ UNCHANGED <<workVars, runnerVars, approval, succeeded>>

-----------------------------------------------------------------------------

Init ==
    /\ snapshot = NoRun
    /\ log = <<>>
    /\ tail = "whole"
    /\ lock = NoOwner
    /\ tree = NoTree
    /\ writer = "none"
    /\ verifier = NoCommit
    /\ evidence = 0
    /\ pc = [c \in Commands |-> "idle"]
    /\ copy = [c \in Commands |-> NoRun]
    /\ event = [c \in Commands |-> "none"]
    /\ reported = NoCommit
    /\ undo = {}
    /\ approval = [d \in Deciders |-> NoApproval]
    /\ succeeded = {}

Shared(c) ==
    \/ TakeLock(c)
    \/ AppendTransition(c)
    \/ TransitionFails(c)
    \/ WriteTransition(c)
    \/ ReleaseLock(c)

RunStep ==
    \/ CreateState
    \/ AddWriterTree
    \/ RecordIntent
    \/ StartWriter
    \/ WaitForWriter
    \/ RecordSettlement
    \/ InspectResult
    \/ AddVerifierTree
    \/ Verify
    \/ WriteEvidence
    \/ PublishPacket
    \/ RemoveVerifierTree
    \/ CheckWriterTree
    \/ RecheckWriterTree
    \/ DeleteWriterTree
    \/ FinishUnwind

DecideStep(d) ==
    \/ ReadRun(d)
    \/ CheckApproval(d)

\* Every command has ended; only what is on disk remains.
Finished ==
    /\ \A c \in Commands : Ended(c)
    /\ UNCHANGED vars

Next ==
    \/ BeginRun
    \/ \E d \in Deciders : BeginDecide(d)
    \/ \E c \in Commands : Shared(c)
    \/ RunStep
    \/ \E d \in Deciders : DecideStep(d)
    \/ \E c \in Commands : Crash(c)
    \/ WriterWorks
    \/ WriterExits
    \/ Finished

Spec == Init /\ [][Next]_vars

\* A command is one goroutine that never blocks without a deadline: it keeps
\* taking steps.  Nothing makes a command start, a writer exit or a human decide.
Fairness ==
    /\ \A c \in Commands : WF_vars(Shared(c))
    /\ WF_vars(RunStep)
    /\ \A d \in Deciders : WF_vars(DecideStep(d))

FairSpec == Spec /\ Fairness
=============================================================================
