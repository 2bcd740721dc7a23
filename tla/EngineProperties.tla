-------------------------- MODULE EngineProperties --------------------------
(* What the engine must guarantee over one run, stated on the variables of  *)
(* Engine.                                                                  *)
EXTENDS Engine, SequencesExt

Accepted == {"VERIFYING", "AWAITING_APPROVAL", "REWORKING", "COMPLETED", "REJECTED"}
Published == Accepted \ {"VERIFYING"}

RunRecords ==
    [state : RunStates \cup {"NONE"}, result : Commits \cup {NoCommit},
     packet : Packets \cup {NoPacket}, recovery : BOOLEAN]

Steps ==
    {"idle", "lock", "create", "append", "write", "addWriter", "intent", "start",
     "wait", "settle", "inspect", "addVerifier", "verify", "evidence", "unwind",
     "remove", "delete", "release", "read", "check", "returned", "crashed"}

\* The steps between AcquireLock and the deferred Release.
Critical == Steps \ {"idle", "lock", "read", "returned", "crashed"}

StoreTypeOK ==
    /\ snapshot \in RunRecords
    /\ log \in Seq(Events \cup LogTypes)
    /\ tail \in {"whole", "torn"} \cup Events \cup LogTypes
    /\ lock \in Commands \cup {NoOwner}

WorkTypeOK ==
    /\ tree \in Trees \cup {NoTree}
    /\ writer \in {"none", "live", "gone"}
    /\ verifier \in Commits \cup {NoCommit}
    /\ evidence \in 0..EvidenceFiles

ControlTypeOK ==
    /\ pc \in [Commands -> Steps]
    /\ event \in [Commands -> Events \cup {"none"}]
    /\ copy \in [Commands -> RunRecords]
    /\ undo \subseteq {"writer", "verifier"}

HistoryTypeOK ==
    /\ reported \in Heads \cup {NoCommit}
    /\ approval \in [Deciders -> [task : BOOLEAN,
                                  decision : Decisions \cup {"none"},
                                  packet : Packets \cup {NoPacket}]]
    /\ succeeded \subseteq Commands

\* Every variable keeps its type, whatever fails.
TypeOK == StoreTypeOK /\ WorkTypeOK /\ ControlTypeOK /\ HistoryTypeOK

-----------------------------------------------------------------------------
(* Safety under crashes, I/O errors and overlapping commands *)

\* store.AcquireLock: at most one command is between the lock and its release,
\* also when a command crashed, when owner.json could not be written and when
\* a release failed.
MutualExclusion ==
    \A c, d \in Commands : pc[c] \in Critical /\ pc[d] \in Critical => c = d

\* The command of a human made this decision on the packet of record r, and
\* the decision leads to the state of r.  Its event is in the log, unless it was
\* appended to a line that an earlier append had left without its newline.
ChosenByHuman(r) ==
    \E d \in Deciders, decision \in Decisions :
        /\ approval[d].decision = decision
        /\ approval[d].packet = r.packet
        /\ <<"AWAITING_APPROVAL", EventOf[decision], r.state>> \in Moves
        /\ Recorded(EventOf[decision])

\* engine.Decide and domain.ValidateApproval: a run is completed, rejected,
\* canceled or sent to rework only after a human chose that for the very packet
\* that is in its record, with the complete evidence on disk and the end of the
\* verification on a line of its own in the log.
DecisionIsHuman ==
    snapshot.state \in Decided =>
        /\ snapshot.packet # NoPacket
        /\ evidence = EvidenceFiles
        /\ Logged("verification_finished")
        /\ ChosenByHuman(snapshot)

\* engine.Run: the packet a human sees is about the recorded result, and the
\* acceptance commands ran on that commit, although descendants of the writer
\* may move the writer's HEAD all the while.
EvidenceMatchesResult ==
    /\ snapshot.state \in Accepted => snapshot.result \in Conforming
    /\ snapshot.state \in Published => snapshot.packet # NoPacket
    /\ snapshot.packet # NoPacket =>
        /\ snapshot.packet = [result |-> snapshot.result, verified |-> snapshot.result]
        /\ evidence = EvidenceFiles

\* engine.transition appends before it writes: a state other than CREATED is
\* never on disk without an event in the log that leads to it.  A failed append
\* may leave its event without a newline, and the next one then makes the log
\* undecodable and succeeds (store.AppendEvent): so a decision can lose its event
\* after another decision's append failed, RECOVERY_REQUIRED after the append of
\* the settlement failed, and no other state can.
SnapshotIsLogged ==
    snapshot.state \in RunStates \ {"CREATED"} =>
        \/ \E i \in DOMAIN log : \E s \in RunStates :
            <<s, log[i], snapshot.state>> \in Moves
        \/ /\ ~Readable
           /\ \/ snapshot.state \in Decided /\ Logged("verification_finished")
              \/ snapshot.state = "RECOVERY_REQUIRED" /\ Logged("effect_intent")

\* engine.Run: the writer is not started before its intent is in the log, and
\* a result is not accepted while the effect is unsettled.
EffectsAreRecorded ==
    /\ writer # "none" => Logged("effect_intent")
    /\ snapshot.state \in Accepted => ~EffectIsAmbiguous

\* engine.Run, preserveWriter: as long as the outcome of the writer is not
\* recorded its worktree stays, and RECOVERY_REQUIRED names it.
AmbiguousWorkIsKept ==
    /\ writer # "none" /\ EffectIsAmbiguous => tree.present
    /\ snapshot.state = "RECOVERY_REQUIRED" => snapshot.recovery /\ tree.present

\* Uncommitted work of a writer whose processes are all gone, and that git is not
\* already deleting.
QuietWork ==
    tree.present /\ tree.dirty /\ writer = "gone" /\ pc[Runner] # "delete"

\* workspace.Remove and git worktree remove: work like that is there for ever,
\* whenever the last process exits: before the engine looks, between its look and
\* git's own, or after a deletion that stopped halfway.  Only what a descendant
\* writes after git's look can be lost.
QuietWorkIsKept == [][QuietWork => QuietWork']_vars

\* engine.Run, engine.Decide: what a human decides on stays as it is.  Once
\* state.json names a packet, its result, the packet and the evidence files never
\* change again, whatever fails and however many decide commands overlap.
PublishedIsFrozen ==
    [][snapshot.packet # NoPacket =>
        /\ snapshot'.packet = snapshot.packet
        /\ snapshot'.result = snapshot.result
        /\ evidence' = evidence]_<<snapshot, evidence>>

\* cmd/orch/main.go, execute: what an exit status of zero stands for on disk,
\* whoever decides, fails or dies afterwards.  Where `orch run` succeeded there is a
\* packet with its evidence.  Where `orch decide` succeeded the packet on disk is
\* the one of that human, the decision is in the log unless the log no longer
\* decodes, and the run is decided; the state is that of a later decision when decide
\* commands overlap (DecisionIsKept is about those that do not).
SuccessIsOnDisk ==
    /\ Runner \in succeeded => snapshot.packet # NoPacket /\ evidence = EvidenceFiles
    /\ \A d \in succeeded \cap Deciders :
        /\ snapshot.state \in Decided
        /\ snapshot.packet = approval[d].packet
        /\ Recorded(EventOf[approval[d].decision])

\* Upper bounds of the steps ahead of a command: when it is about to write the
\* state that event e leads to, and at any step, with the removals it has deferred
\* and the number of evidence files it has written.
WriteLeft(e) ==
    CASE e = "preparation_started" -> 25
      [] e = "implementation_started" -> 22
      [] e = "implementation_finished" -> 15
      [] OTHER -> 7

LeftAt(step, e, removals, files) ==
    CASE step = "idle" -> 30
      [] step = "read" -> 29
      [] step = "lock" -> 28
      [] step \in {"create", "check"} -> 27
      [] step = "append" -> WriteLeft(e) + 1
      [] step = "write" -> WriteLeft(e)
      [] step = "addWriter" -> 24
      [] step = "intent" -> 21
      [] step = "start" -> 20
      [] step = "wait" -> 19
      [] step = "settle" -> 18
      [] step = "inspect" -> 17
      [] step = "addVerifier" -> 14
      [] step = "verify" -> 13
      [] step = "evidence" -> 12 - files
      [] step = "unwind" -> 2 + (IF "verifier" \in removals THEN 1 ELSE 0)
                              + (IF "writer" \in removals THEN 3 ELSE 0)
      [] step = "remove" -> 4
      [] step = "delete" -> 3
      [] step = "release" -> 1
      [] OTHER -> 0

StepsLeft(c) == LeftAt(pc[c], event[c], undo, evidence)

\* engine.Run, engine.Decide: no command goes back.  Whatever fails, each step of a
\* command leaves it fewer steps than before and the others as many: nothing is
\* tried again, no deferred call and no error path leads into the body, and a
\* command is over after 30 steps.  Only the writer's processes are not counted.
CommandsAdvance ==
    [][\E c \in Commands :
        /\ StepsLeft(c)' \in 0 .. StepsLeft(c) - 1
        /\ \A d \in Commands \ {c} : UNCHANGED StepsLeft(d)
      ]_<<storeVars, verifier, evidence, runnerVars, pc, copy, event, approval, succeeded>>

\* The engine implements the contract of a run.
Contract == INSTANCE RunContract WITH run <- snapshot

RefinesContract == Contract!Spec

-----------------------------------------------------------------------------
(* Safety when decide commands do not overlap *)

\* domain.Transition ("run state %s is terminal"): once state.json holds a
\* terminal state it never changes again.
TerminalIsFinal ==
    [][snapshot.state \in Terminal => snapshot' = snapshot]_snapshot

\* engine.Decide: a packet is decided at most once.
AtMostOneDecisionSucceeds == Cardinality(succeeded \cap Deciders) <= 1

\* engine.Decide: a decision that `orch decide` reported as made is the only one
\* ever reported and the one in state.json from then on; no later decide replaces
\* it, not even one that fails halfway.
DecisionIsKept ==
    /\ AtMostOneDecisionSucceeds
    /\ \A d \in succeeded \cap Deciders :
        <<"AWAITING_APPROVAL", EventOf[approval[d].decision], snapshot.state>> \in Moves

-----------------------------------------------------------------------------
(* Safety under crashes without I/O errors *)

\* What a line of the log does to the state: the lines of the writer's effect
\* leave it alone.
Follow(state, e) ==
    CASE e \in LogTypes -> state
      [] e \in Events /\ Accepts(state, e) ->
            CHOOSE next \in RunStates : <<state, e, next>> \in Moves
      [] OTHER -> "INVALID"

\* The state that the lines of a log lead to.
Replay(lines) ==
    LET state[i \in 0..Len(lines)] ==
            IF i = 0 THEN "CREATED" ELSE Follow(state[i - 1], lines[i])
    IN  state[Len(lines)]

\* engine.transition: the log replays along the transition table, and the
\* state on disk is the one it leads to or the one before its last line, the
\* latter only while the lock is held.
LogReplays ==
    /\ Replay(Lines) # "INVALID"
    /\ snapshot # NoRun =>
        \/ snapshot.state = Replay(Lines)
        \/ /\ Lines # <<>>
           /\ snapshot.state = Replay(Front(Lines))
           /\ lock # NoOwner

\* engine.Run and engine.Decide, defer lock.Release(): every way out of a
\* command gives the lock back, so that only a dead one shuts the others out.
LockHasHolder ==
    lock # NoOwner => pc[lock] \in Critical \cup {"crashed"}

\* engine.Run: however it ends, `orch run` leaves the run at rest when it returns:
\* waiting for a human, decided or ended, and with an unsettled effect only where
\* the record asks for recovery.
RunReturnsAtRest ==
    pc[Runner] = "returned" =>
        /\ snapshot.state \in {"NONE", "AWAITING_APPROVAL"} \cup Decided \cup Terminal
        /\ EffectIsAmbiguous => snapshot.state = "RECOVERY_REQUIRED"

-----------------------------------------------------------------------------
(* Liveness *)

Crashed == \E c \in Commands : pc[c] = "crashed"

\* engine.Run: a run that was created comes to rest unless a command dies; it
\* ends, or it waits for a human, its lock is free again, and the effect of the
\* writer is settled or the record says that its outcome is unknown.
RunSettles ==
    snapshot.state = "CREATED" ~>
        \/ /\ snapshot.state \in Terminal \cup {"AWAITING_APPROVAL"}
           /\ lock = NoOwner
           /\ EffectIsAmbiguous => snapshot.state = "RECOVERY_REQUIRED"
        \/ Crashed

\* docs/design/agent-orchestrator.md, "Unknown write outcomes enter
\* RECOVERY_REQUIRED": whoever dies.
UnknownOutcomeRecovers ==
    writer # "none" /\ EffectIsAmbiguous ~>
        ~EffectIsAmbiguous \/ snapshot.state = "RECOVERY_REQUIRED"
=============================================================================
