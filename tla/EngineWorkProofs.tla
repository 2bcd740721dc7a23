-------------------------- MODULE EngineWorkProofs --------------------------
(* Theorems about the writer's work, its record in the log and the evidence *)
(* made of it, for every set of commands and commits and every fault.       *)
EXTENDS EngineProofs

-----------------------------------------------------------------------------
(* The log and the effect *)

\* Where the Runner's phases come from.
RecordsSettlement == RecordSettlement /\ AppendEvent("effect_settlement")

RecordsIntent == RecordIntent /\ AppendEvent("effect_intent")

\* The writer is being started, is running or is given up.
Started ==
    \/ pc[Runner] \in {"start", "wait", "settle"}
    \/ InTransition({"write_ambiguous"})

PhaseFrame ==
    /\ Early' => Early
    /\ Settled' => Settled \/ RecordsSettlement
    /\ Started' => Started \/ RecordsIntent
    /\ writer = "none" /\ writer' # "none" =>
        pc[Runner] = "start" /\ pc'[Runner] = "wait" /\ UNCHANGED tail
    /\ writer = "gone" => writer' = "gone" \/ pc[Runner] = "start"
    /\ pc'[Runner] = "delete" => pc[Runner] = "delete" \/ ~tree.dirty
    /\ pc[Runner] \in {"wait", "settle", "crashed"} =>
        \/ pc'[Runner] \in {"wait", "settle", "crashed"}
        \/ "writer" \notin undo'
        \/ RecordsSettlement
    /\ "writer" \notin undo => AddWriterTree \/ "writer" \notin undo'
    /\ tree.present => AddWriterTree \/ pc[Runner] = "delete" \/ tree'.present

LEMMA PhasesFollow == TypeInv /\ [Next]_vars => PhaseFrame
<1> SUFFICES ASSUME TypeInv, [Next]_vars PROVE PhaseFrame
    OBVIOUS
<1> USE EngineAssumption
    DEF TypeInv, TypeOK, ControlTypeOK, PhaseFrame, Early, First, Launch, Running, Settled,
        Started, InTransition, Commands, Goto, runnerVars, workVars, storeVars
<1>1. CASE BeginRun
  BY <1>1 DEF BeginRun, End
<1>2. ASSUME NEW d \in Deciders, BeginDecide(d) PROVE PhaseFrame
  BY <1>2 DEF BeginDecide
<1>3. ASSUME NEW c \in Commands, TakeLock(c) PROVE PhaseFrame
  BY <1>3 DEF TakeLock, End
<1>4. ASSUME NEW c \in Commands, AppendTransition(c) PROVE PhaseFrame
  BY <1>4 DEF AppendTransition
<1>5. ASSUME NEW c \in Commands, TransitionFails(c) PROVE PhaseFrame
  BY <1>5 DEF TransitionFails, Bail
<1>6. ASSUME NEW c \in Commands, WriteTransition(c) PROVE PhaseFrame
  BY <1>6 DEF WriteTransition, Bail, After
<1>7. ASSUME NEW c \in Commands, ReleaseLock(c) PROVE PhaseFrame
  BY <1>7 DEF ReleaseLock, End
<1>8. CASE CreateState
  BY <1>8 DEF CreateState, Begin, Bail
<1>9. CASE AddWriterTree
  BY <1>9 DEF AddWriterTree, Begin, Fail
<1>10. CASE RecordIntent
  BY <1>10 DEF RecordIntent, RecordsIntent, Bail
<1>11. CASE StartWriter
  BY <1>11 DEF StartWriter, RequireRecovery, Begin
<1>12. CASE WaitForWriter
  BY <1>12 DEF WaitForWriter, RequireRecovery, Begin
<1>13. CASE RecordSettlement
  BY <1>13 DEF RecordSettlement, RecordsSettlement, RequireRecovery, Begin
<1>14. CASE InspectResult
  BY <1>14 DEF InspectResult, Fail, Begin
<1>15. CASE AddVerifierTree
  BY <1>15 DEF AddVerifierTree, Fail, Begin
<1>16. CASE Verify
  BY <1>16 DEF Verify, Fail, Begin
<1>17. CASE WriteEvidence
  BY <1>17 DEF WriteEvidence, Bail
<1>18. CASE PublishPacket
  BY <1>18 DEF PublishPacket, Begin
<1>19. CASE RemoveVerifierTree
  BY <1>19 DEF RemoveVerifierTree
<1>20. CASE CheckWriterTree \/ RecheckWriterTree \/ DeleteWriterTree
  BY <1>20 DEF CheckWriterTree, RecheckWriterTree, DeleteWriterTree
<1>21. CASE FinishUnwind
  BY <1>21 DEF FinishUnwind
<1>22. ASSUME NEW d \in Deciders, ReadRun(d) PROVE PhaseFrame
  BY <1>22 DEF ReadRun, End
<1>23. ASSUME NEW d \in Deciders, CheckApproval(d) PROVE PhaseFrame
  BY <1>23 DEF CheckApproval, Bail, Begin
<1>24. ASSUME NEW c \in Commands, Crash(c) PROVE PhaseFrame
  BY <1>24 DEF Crash, End
<1>25. CASE WriterWorks \/ WriterExits
  BY <1>25 DEF WriterWorks, WriterExits, Trees
<1>26. CASE UNCHANGED vars
  BY <1>26 DEF vars
<1> QED
  BY <1>1, <1>2, <1>3, <1>4, <1>5, <1>6, <1>7, <1>8, <1>9, <1>10, <1>11,
     <1>12, <1>13, <1>14, <1>15, <1>16, <1>17, <1>18, <1>19, <1>20, <1>21,
     <1>22, <1>23, <1>24, <1>25, <1>26 DEF Next, Shared, RunStep, DecideStep,
     Finished, Commands

\* Uncommitted work of a writer whose processes are gone is never removed, unless
\* git has started to delete before it was there.
THEOREM QuietWorkKept == Spec => QuietWorkIsKept
<1>1. TypeInv /\ PhaseInv /\ [Next]_vars => [QuietWork => QuietWork']_vars
  <2> SUFFICES ASSUME TypeInv, PhaseInv, [Next]_vars, QuietWork PROVE QuietWork'
      OBVIOUS
  <2>1. PhaseFrame
    BY PhasesFollow
  <2>2. pc[Runner] # "delete" /\ pc[Runner] # "start" /\ ~AddWriterTree
    BY DEF QuietWork, PhaseInv, First, Launch, AddWriterTree
  <2>3. tree' = tree
    BY <2>2, Frames DEF QuietWork, WorkStep, workVars, StartWriter, AddVerifierTree,
       WriteEvidence, RemoveVerifierTree, DeleteWriterTree, WriterWorks, WriterExits
  <2> QED
    BY <2>1, <2>2, <2>3 DEF PhaseFrame, QuietWork
<1> QED
  BY TypeInit, TypeStep, PhaseInit, PhaseStep, <1>1, PTL DEF Spec, QuietWorkIsKept

\* What a step may do to the log.
LEMMA LogFrame ==
    ASSUME TypeInv, [Next]_vars
    PROVE  \/ log' = log
           \/ \E x \in Events \cup {"effect_settlement"} : log' = Append(log, x)
           \/ RecordIntent /\ log' = Append(log, "effect_intent")
<1> DEFINE Goal == \/ log' = log
                   \/ \E x \in Events \cup {"effect_settlement"} : log' = Append(log, x)
                   \/ RecordIntent /\ log' = Append(log, "effect_intent")
<1>1. CASE UNCHANGED storeVars
  BY <1>1 DEF storeVars
<1>2. CASE CreateState
  BY <1>2 DEF CreateState, WriteState, WriteStateFails
<1>3. CASE RecordIntent
  BY <1>3 DEF RecordIntent, AppendEvent, CutAppend, AppendEventFails
<1>4. CASE RecordSettlement
  BY <1>4 DEF RecordSettlement, AppendEvent, CutAppend, AppendEventFails
<1>5. ASSUME NEW c \in Commands, AppendTransition(c) \/ TransitionFails(c) PROVE Goal
  BY <1>5, MovesAreTyped DEF AppendTransition, TransitionFails, Accepts, storeVars,
     AppendEvent, CutAppend, AppendEventFails
<1>6. ASSUME NEW c \in Commands,
             TakeLock(c) \/ WriteTransition(c) \/ ReleaseLock(c) \/ Crash(c)
      PROVE  log' = log
  BY <1>6 DEF TakeLock, WriteTransition, ReleaseLock, Crash, CutAppend, storeVars,
     AcquireLock, AcquireLockFails, WriteState, WriteStateFails, Release, ReleaseFails
<1> QED
  BY <1>1, <1>2, <1>3, <1>4, <1>5, <1>6, Frames DEF StoreStep

LEMMA AppendOrder ==
    ASSUME log \in Seq(Events \cup LogTypes), NEW x \in Events \cup LogTypes,
           log' = Append(log, x)
    PROVE  /\ DOMAIN log' = DOMAIN log \cup {Len(log) + 1}
           /\ \A i \in DOMAIN log : log'[i] = log[i] /\ i < Len(log) + 1
           /\ log'[Len(log) + 1] = x
           /\ DOMAIN log \subseteq Nat /\ Len(log) \in Nat
OBVIOUS

\* Only the Runner appends the lines of the effect.
LEMMA IntentFrame ==
    ASSUME TypeInv, PhaseInv, [Next]_vars, tail' = "effect_intent", tail # "effect_intent"
    PROVE  pc[Runner] = "intent"
<1>1. PICK c \in Commands :
        /\ Appending(c) # "none"
        /\ AppendEvent(Appending(c)) \/ CutAppend(Appending(c))
  BY TailFrame
<1>2. Appending(c) = "effect_intent"
  BY <1>1 DEF AppendEvent, CutAppend
<1>3. pc[c] = "intent"
  BY <1>2, MovesAreTyped DEF Appending, Accepts, Events
<1> QED
  BY <1>3 DEF PhaseInv, DeciderSteps, Commands

\* The complete lines of the log hold an intent without a settlement.
Unresolved == Pending(log)

\* A last line without a newline cannot make the effect ambiguous unless it is the
\* intent itself.
LEMMA AmbiguityIsUnresolved ==
    ASSUME StoreTypeOK, EffectIsAmbiguous, tail # "effect_intent" PROVE Unresolved
<1>1. CASE Lines = log
  BY <1>1 DEF EffectIsAmbiguous, Unresolved
<1>2. CASE Lines = Append(log, tail)
  <2>1. PICK i \in DOMAIN Lines :
            /\ Lines[i] = "effect_intent"
            /\ \A j \in DOMAIN Lines : j > i => Lines[j] # "effect_settlement"
    BY DEF EffectIsAmbiguous, Pending
  <2>2. /\ DOMAIN Lines = DOMAIN log \cup {Len(log) + 1}
        /\ \A j \in DOMAIN log : Lines[j] = log[j]
        /\ Lines[Len(log) + 1] = tail
    BY <1>2 DEF StoreTypeOK
  <2>3. i \in DOMAIN log
    BY <2>1, <2>2
  <2> QED
    BY <2>1, <2>2, <2>3 DEF Unresolved, Pending
<1> QED
  BY <1>1, <1>2 DEF Lines

\* As long as its appends succeed the Runner's lines are complete ones.
LEMMA SettlementIsLogged ==
    ASSUME GateInv
    PROVE  /\ RecordsSettlement => log' = Append(log, "effect_settlement")
           /\ RecordsIntent => log' = Append(log, "effect_intent")
BY DEF GateInv, Body, RecordsSettlement, RecordsIntent, RecordSettlement, RecordIntent,
   AppendEvent

LEMMA UnresolvedFrame ==
    ASSUME TypeInv, GateInv, [Next]_vars, Unresolved'
    PROVE  (Unresolved \/ RecordIntent) /\ ~RecordsSettlement
<1> USE DEF TypeInv, TypeOK, StoreTypeOK
<1>1. CASE log' = log
  <2>1. Unresolved
    BY <1>1 DEF Unresolved, Pending
  <2>2. ~RecordsSettlement
    <3> SUFFICES ASSUME log' = Append(log, "effect_settlement") PROVE FALSE
        BY SettlementIsLogged
    <3> QED
      BY <1>1
  <2> QED
    BY <2>1, <2>2
<1>2. ASSUME NEW x \in Events \cup {"effect_settlement"}, log' = Append(log, x)
      PROVE  Unresolved /\ ~RecordsSettlement
  <2>1. x \in Events \cup LogTypes /\ x # "effect_intent"
    BY DEF LogTypes, Events
  <2>2. PICK i \in DOMAIN log' :
            /\ log'[i] = "effect_intent"
            /\ \A j \in DOMAIN log' : j > i => log'[j] # "effect_settlement"
    BY DEF Unresolved, Pending
  <2>3. /\ DOMAIN log' = DOMAIN log \cup {Len(log) + 1}
        /\ \A j \in DOMAIN log : log'[j] = log[j] /\ j < Len(log) + 1
        /\ log'[Len(log) + 1] = x
    BY <1>2, <2>1, AppendOrder
  <2>4. i \in DOMAIN log
    BY <2>1, <2>2, <2>3
  <2>5. Unresolved
    BY <2>2, <2>3, <2>4 DEF Unresolved, Pending
  <2>6. x # "effect_settlement"
    BY <2>2, <2>3, <2>4
  <2>7. ~RecordsSettlement
    BY <1>2, <2>3, <2>6, AppendOrder, SettlementIsLogged DEF LogTypes
  <2> QED
    BY <2>5, <2>7
<1>3. CASE RecordIntent /\ log' = Append(log, "effect_intent")
  <2>1. ~RecordSettlement
    BY <1>3 DEF RecordIntent, RecordSettlement
  <2> QED
    BY <1>3, <2>1 DEF RecordsSettlement
<1> QED
  BY <1>1, <1>2, <1>3, LogFrame

LEMMA IntentStays ==
    ASSUME TypeInv, [Next]_vars, Logged("effect_intent")
    PROVE  Logged("effect_intent")'
<1> USE DEF TypeInv, TypeOK, StoreTypeOK
<1>1. CASE log' = log
  BY <1>1 DEF Logged
<1>2. ASSUME NEW x \in Events \cup LogTypes, log' = Append(log, x)
      PROVE  Logged("effect_intent")'
  BY <1>2, AppendOrder DEF Logged
<1> QED
  BY <1>1, <1>2, LogFrame DEF LogTypes

\* A started writer has its intent in the log; once its settlement is there the
\* log stays settled; until then the worktree is there and not up for removal.  An
\* intent that lacks its newline is one that was not acted on.
EffectInv ==
    /\ Started \/ writer # "none" => Logged("effect_intent")
    /\ Settled => ~Unresolved
    /\ writer # "none" /\ Unresolved =>
        /\ tree.present
        /\ "writer" \notin undo \/ pc[Runner] \in {"wait", "settle", "crashed"}
    /\ tail = "effect_intent" => writer = "none"

LEMMA EffectInit == Init => EffectInv
BY DEF Init, EffectInv, Settled, Started, InTransition, Commands

LEMMA EffectStep ==
    TypeInv /\ PhaseInv /\ GateInv /\ EffectInv /\ [Next]_vars => EffectInv'
<1> SUFFICES ASSUME TypeInv, PhaseInv, GateInv, EffectInv, [Next]_vars PROVE EffectInv'
    OBVIOUS
<1>0. PhaseFrame
  BY PhasesFollow
<1>1. Started' \/ writer' # "none" => Logged("effect_intent")'
  <2>1. CASE Started \/ writer # "none"
    BY <2>1, IntentStays DEF EffectInv
  <2>2. CASE RecordsIntent
    BY <2>2, SettlementIsLogged, AppendIsLogged DEF TypeInv, TypeOK, StoreTypeOK, LogTypes
  <2> QED
    BY <1>0, <2>1, <2>2 DEF PhaseFrame, Started
<1>2. ASSUME Settled', Unresolved' PROVE FALSE
  <2>1. Settled /\ RecordIntent
    BY <1>0, <1>2, UnresolvedFrame DEF PhaseFrame, EffectInv
  <2> QED
    BY <2>1 DEF Settled, InTransition, RecordIntent
<1>3. ASSUME writer' # "none", Unresolved'
      PROVE  /\ tree'.present
             /\ "writer" \notin undo' \/ pc'[Runner] \in {"wait", "settle", "crashed"}
  <2>1. CASE writer = "none"
    <3>1. pc[Runner] = "start" /\ pc'[Runner] = "wait"
      BY <1>0, <1>3, <2>1 DEF PhaseFrame
    <3>2. tree.present /\ ~AddWriterTree
      BY <3>1 DEF PhaseInv, Launch, AddWriterTree
    <3> QED
      BY <1>0, <3>1, <3>2 DEF PhaseFrame
  <2>2. CASE writer # "none"
    <3>1. Unresolved /\ ~RecordsSettlement
      BY <1>3, <2>2, UnresolvedFrame DEF RecordIntent, PhaseInv, Launch
    <3>2. ~AddWriterTree
      BY <2>2 DEF AddWriterTree, PhaseInv, First
    <3>3. pc[Runner] # "delete"
      BY <2>2, <3>1 DEF EffectInv, PhaseInv
    <3> QED
      BY <1>0, <2>2, <3>1, <3>2, <3>3 DEF EffectInv, PhaseFrame
  <2> QED
    BY <2>1, <2>2
<1>4. ASSUME tail' = "effect_intent" PROVE writer' = "none"
  <2>1. writer = "none"
    BY <1>4, IntentFrame DEF EffectInv, PhaseInv, Launch
  <2>2. pc[Runner] = "start" => tail # "effect_intent"
    BY DEF GateInv, Body
  <2>3. pc[Runner] = "start" => pc[Runner] # "intent"
    OBVIOUS
  <2> QED
    BY <1>0, <1>4, <2>1, <2>2, <2>3, IntentFrame DEF PhaseFrame
<1> QED
  BY <1>1, <1>2, <1>3, <1>4 DEF EffectInv
-----------------------------------------------------------------------------
(* The result and the record *)

\* What the Runner's own record says while it handles the result, and what the
\* events that publish it or give it up are appended with.
ResultInv ==
    /\ pc[Runner] \in {"addVerifier", "verify", "evidence"} => copy[Runner].result = reported
    /\ InTransition({"implementation_finished"}) => copy[Runner].result = reported
    /\ copy[Runner].packet # NoPacket =>
        /\ pc[Runner] \in {"append", "write", "unwind", "remove", "delete", "release"}
        /\ event[Runner] = "verification_finished"
    /\ pc[Runner] = "append" /\ event[Runner] = "verification_finished"
        => copy[Runner].packet # NoPacket
    /\ pc[Runner] = "append" /\ event[Runner] = "write_ambiguous" =>
        /\ copy[Runner].recovery
        /\ tree.present
        /\ "writer" \notin undo

LEMMA ResultInit == Init => ResultInv
BY DEF Init, ResultInv, InTransition, Commands, NoRun

LEMMA ResultStep == TypeInv /\ PhaseInv /\ ResultInv /\ [Next]_vars => ResultInv'
<1> SUFFICES ASSUME TypeInv, PhaseInv, ResultInv, [Next]_vars PROVE ResultInv'
    OBVIOUS
<1> USE EngineAssumption
    DEF TypeInv, TypeOK, ControlTypeOK, ResultInv, PhaseInv, Launch, Running,
        InTransition, Commands, Goto, RunRecords, runnerVars, workVars
<1>1. CASE BeginRun
  BY <1>1 DEF BeginRun, End, NewRun, NoRun
<1>2. ASSUME NEW d \in Deciders, BeginDecide(d) PROVE ResultInv'
  BY <1>2 DEF BeginDecide
<1>3. ASSUME NEW c \in Commands, TakeLock(c) PROVE ResultInv'
  BY <1>3 DEF TakeLock, End, NoRun
<1>4. ASSUME NEW c \in Commands, AppendTransition(c) PROVE ResultInv'
  BY <1>4 DEF AppendTransition
<1>5. ASSUME NEW c \in Commands, TransitionFails(c) PROVE ResultInv'
  BY <1>5 DEF TransitionFails, Bail
<1>6. ASSUME NEW c \in Commands, WriteTransition(c) PROVE ResultInv'
  BY <1>6 DEF WriteTransition, Bail, After
<1>7. ASSUME NEW c \in Commands, ReleaseLock(c) PROVE ResultInv'
  BY <1>7 DEF ReleaseLock, End, NoRun
<1>8. CASE CreateState
  BY <1>8 DEF CreateState, Begin, Bail
<1>9. CASE AddWriterTree
  BY <1>9 DEF AddWriterTree, Begin, Fail
<1>10. CASE RecordIntent
  BY <1>10 DEF RecordIntent, Bail
<1>11. CASE StartWriter
  BY <1>11 DEF StartWriter, RequireRecovery, Begin
<1>12. CASE WaitForWriter
  BY <1>12 DEF WaitForWriter, RequireRecovery, Begin
<1>13. CASE RecordSettlement
  BY <1>13 DEF RecordSettlement, RequireRecovery, Begin
<1>14. CASE InspectResult
  BY <1>14 DEF InspectResult, Fail, Begin
<1>15. CASE AddVerifierTree
  BY <1>15 DEF AddVerifierTree, Fail, Begin
<1>16. CASE Verify
  BY <1>16 DEF Verify, Fail, Begin
<1>17. CASE WriteEvidence
  BY <1>17 DEF WriteEvidence, Bail
<1>18. CASE PublishPacket
  BY <1>18 DEF PublishPacket, Begin, WorkInv, NoPacket
<1>19. CASE RemoveVerifierTree
  BY <1>19 DEF RemoveVerifierTree
<1>20. CASE CheckWriterTree \/ RecheckWriterTree \/ DeleteWriterTree
  BY <1>20 DEF CheckWriterTree, RecheckWriterTree, DeleteWriterTree
<1>21. CASE FinishUnwind
  BY <1>21 DEF FinishUnwind
<1>22. ASSUME NEW d \in Deciders, ReadRun(d) PROVE ResultInv'
  BY <1>22 DEF ReadRun, End
<1>23. ASSUME NEW d \in Deciders, CheckApproval(d) PROVE ResultInv'
  BY <1>23 DEF CheckApproval, Bail, Begin
<1>24. ASSUME NEW c \in Commands, Crash(c) PROVE ResultInv'
  BY <1>24 DEF Crash, End, NoRun
<1>25. CASE WriterWorks \/ WriterExits
  BY <1>25 DEF WriterWorks, WriterExits, Trees
<1>26. CASE UNCHANGED vars
  BY <1>26 DEF vars
<1> QED
  BY <1>1, <1>2, <1>3, <1>4, <1>5, <1>6, <1>7, <1>8, <1>9, <1>10,
     <1>11, <1>12, <1>13, <1>14, <1>15, <1>16, <1>17, <1>18, <1>19, <1>20,
     <1>21, <1>22, <1>23, <1>24, <1>25, <1>26 DEF Next, Shared, RunStep, DecideStep,
     Finished, Commands
-----------------------------------------------------------------------------
(* What a record claims *)

\* An event that leads to the state is in the log, or was lost to a line that an
\* append which failed had left without a newline.
Evidenced(state) ==
    \/ \E e \in Events : Logged(e) /\ \E s \in RunStates : <<s, e, state>> \in Moves
    \/ /\ ~Readable
       /\ \/ state \in Decided /\ Logged("verification_finished")
          \/ state = "RECOVERY_REQUIRED" /\ Logged("effect_intent")

\* A record is sound if what it claims is so: its state is evidenced by the
\* log, a result it accepts conforms and comes of a settled effect, a
\* packet it publishes is about that result with the evidence complete, and the
\* worktree is there that a recovery needs.
Sound(r) ==
    /\ r.state \in RunStates \ {"CREATED"} => Evidenced(r.state)
    /\ r.state \in Accepted =>
        r.result \in Conforming /\ ~Unresolved /\ tail # "effect_intent"
    /\ r.state \in Published => r.packet # NoPacket
    /\ r.packet # NoPacket =>
        /\ r.packet = [result |-> r.result, verified |-> r.result]
        /\ evidence = EvidenceFiles
    /\ r.state = "RECOVERY_REQUIRED" =>
        /\ r.recovery
        /\ tree.present
        /\ "writer" \notin undo
    /\ Early => r.state \notin Accepted \cup {"RECOVERY_REQUIRED"}

SoundInv ==
    /\ Sound(snapshot)
    /\ \A c \in Commands : Sound(copy[c])

WholeInv == TypeInv /\ LockInv /\ PhaseInv /\ GateInv /\ EffectInv /\ ResultInv

LEMMA StateNames ==
    /\ Accepted = {"VERIFYING", "AWAITING_APPROVAL", "REWORKING", "COMPLETED", "REJECTED"}
    /\ Published = {"AWAITING_APPROVAL", "REWORKING", "COMPLETED", "REJECTED"}
BY DEF Accepted, Published

\* Which moves lead to a state that claims something.
LEMMA MovesToClaims ==
    ASSUME NEW s, NEW e, NEW t, <<s, e, t>> \in Moves
    PROVE  /\ t \in Accepted => s \in Accepted \/ e = "implementation_finished"
           /\ t \in Published => s \in Published \/ e = "verification_finished"
           /\ t \in Accepted /\ s \notin Published =>
                e \in {"implementation_finished", "verification_finished"}
           /\ t = "RECOVERY_REQUIRED" => e = "write_ambiguous"
           /\ e = "write_ambiguous" => t = "RECOVERY_REQUIRED"
           /\ e \in DecisionEvents => t \in Decided
BY StateNames DEF Moves, transitions, interrupts, DecisionEvents, Decided

\* What a record claims stays so as long as the record stays.
LEMMA SoundStays ==
    ASSUME WholeInv, [Next]_vars, NEW r, Sound(r)
    PROVE  /\ r.state \in RunStates \ {"CREATED"} => Evidenced(r.state)'
           /\ r.state \in Accepted =>
                r.result \in Conforming /\ ~Unresolved' /\ tail' # "effect_intent"
           /\ r.state \in Published => r.packet # NoPacket
           /\ r.packet # NoPacket =>
                /\ r.packet = [result |-> r.result, verified |-> r.result]
                /\ evidence' = EvidenceFiles
           /\ r.state = "RECOVERY_REQUIRED" =>
                /\ r.recovery
                /\ tree'.present
                /\ "writer" \notin undo'
           /\ Early' => r.state \notin Accepted \cup {"RECOVERY_REQUIRED"}
<1> USE DEF WholeInv
<1>1. Lasting /\ PhaseFrame
  BY LastingStep, PhasesFollow
<1>2. r.state \in RunStates \ {"CREATED"} => Evidenced(r.state)'
  BY <1>1 DEF Sound, Evidenced, Lasting, Events, LogTypes
<1>3. r.state \in Accepted => ~Unresolved' /\ tail' # "effect_intent"
  <2> SUFFICES ASSUME r.state \in Accepted, Unresolved' \/ tail' = "effect_intent"
               PROVE  FALSE
      OBVIOUS
  <2>1. pc[Runner] = "intent"
    BY UnresolvedFrame, IntentFrame DEF Sound, RecordIntent
  <2> QED
    BY <2>1 DEF Sound, Early, Launch
<1>4. evidence = EvidenceFiles => evidence' = EvidenceFiles
  BY <1>1 DEF Lasting
<1>5. r.state = "RECOVERY_REQUIRED" => tree'.present /\ "writer" \notin undo'
  <2> SUFFICES ASSUME r.state = "RECOVERY_REQUIRED" PROVE tree'.present /\ "writer" \notin undo'
      OBVIOUS
  <2>1. ~Early /\ tree.present /\ "writer" \notin undo
    BY DEF Sound
  <2>2. ~AddWriterTree
    BY <2>1 DEF Early, First, AddWriterTree
  <2>3. pc[Runner] # "delete"
    BY <2>1 DEF PhaseInv
  <2> QED
    BY <1>1, <2>1, <2>2, <2>3 DEF PhaseFrame
<1>6. Early' => r.state \notin Accepted \cup {"RECOVERY_REQUIRED"}
  BY <1>1 DEF Sound, PhaseFrame
<1> QED
  BY <1>2, <1>3, <1>4, <1>5, <1>6 DEF Sound

LEMMA SoundInit == Init => SoundInv
BY DEF Init, SoundInv, Sound, NoRun, RunStates, Accepted, Published

\* What a step may make of a record in memory.
LEMMA CopyCases ==
    ASSUME TypeInv, [Next]_vars, NEW c \in Commands
    PROVE  \/ copy'[c] = copy[c]
           \/ copy'[c] \in {NoRun, NewRun}
           \/ AppendTransition(c)
           \/ copy'[c] = snapshot
           \/ copy' = [copy EXCEPT ![Runner].recovery = TRUE] /\ c = Runner
           \/ /\ copy' = [copy EXCEPT ![Runner].result = reported]
              /\ reported \in Conforming /\ c = Runner /\ pc[Runner] = "inspect"
           \/ PublishPacket /\ c = Runner
<1> USE DEF TypeInv, TypeOK, ControlTypeOK, Commands
<1>1. ASSUME NEW b \in Commands, AppendTransition(b) PROVE b = c \/ copy'[c] = copy[c]
  BY <1>1 DEF AppendTransition
<1>2. ASSUME PublishPacket, c # Runner PROVE copy'[c] = copy[c]
  BY <1>2 DEF PublishPacket
<1> QED
  BY <1>1, <1>2, Frames DEF CopyStep

\* A transition makes its record claim no more than the event warrants.
LEMMA SoundTransition ==
    ASSUME WholeInv, SoundInv, [Next]_vars, NEW b \in Commands, AppendTransition(b)
    PROVE  Sound(copy[b])'
<1> USE DEF WholeInv, SoundInv
<1> DEFINE r == copy[b]
<1>1. PICK next \in RunStates :
          /\ <<r.state, event[b], next>> \in Moves
          /\ AppendEvent(event[b])
          /\ copy' = [copy EXCEPT ![b].state = next]
  BY DEF AppendTransition
<1>2. /\ copy'[b].state = next
      /\ copy'[b].result = r.result
      /\ copy'[b].packet = r.packet
      /\ copy'[b].recovery = r.recovery
  BY <1>1 DEF TypeInv, TypeOK, ControlTypeOK, RunRecords
<1>3. /\ pc[b] = "append" /\ UNCHANGED <<tree, undo, event>>
      /\ pc'[b] = "write"
      /\ b # Runner => pc'[Runner] = pc[Runner]
  BY DEF AppendTransition, Goto, workVars, runnerVars, TypeInv, TypeOK, ControlTypeOK,
     Commands
<1>4. /\ event[b] \in Events /\ r.state \in RunStates
      /\ b # Runner => event[b] \in DecisionEvents
  BY <1>1, MovesAreTyped DEF PhaseInv, Commands, Events
<1>5. tail = "whole" => \A e \in Events : e = event[b] => Logged(e)'
  BY <1>1, <1>4, AppendIsLogged DEF AppendEvent, TypeInv, TypeOK, StoreTypeOK
<1>6. Lasting
  BY LastingStep
<1>7. ~Unresolved /\ tail # "effect_intent" => ~Unresolved' /\ tail' # "effect_intent"
  <2>1. ~RecordIntent
    BY <1>3 DEF RecordIntent, Goto, Bail, TypeInv, TypeOK, ControlTypeOK, Commands
  <2>2. tail' = tail \/ tail' = "torn"
    BY <1>1 DEF AppendEvent
  <2> QED
    BY <2>1, <2>2, UnresolvedFrame
<1>8. Sound(r)
  OBVIOUS
<1>9. next \in Accepted => r.result \in Conforming /\ ~Unresolved /\ tail # "effect_intent"
  <2>1. CASE r.state \in Accepted
    BY <1>8, <2>1 DEF Sound
  <2>2. ASSUME next \in Accepted, r.state \notin Accepted
        PROVE  r.result \in Conforming /\ ~Unresolved /\ tail # "effect_intent"
    <3>1. event[b] = "implementation_finished" /\ b = Runner
      BY <1>1, <1>4, <2>2, MovesToClaims DEF DecisionEvents
    <3>2. InTransition({"implementation_finished"})
      BY <1>3, <3>1 DEF InTransition
    <3> QED
      BY <1>3, <3>1, <3>2 DEF ResultInv, TypeInv, WorkInv, EffectInv, Settled,
         GateInv, Body, Events, InTransition
  <2> QED
    BY <2>1, <2>2
<1>10. next \in Published => r.packet # NoPacket
  <2>1. CASE r.state \in Published
    BY <1>8, <2>1 DEF Sound
  <2>2. ASSUME next \in Published, r.state \notin Published PROVE r.packet # NoPacket
    <3>1. event[b] = "verification_finished" /\ b = Runner
      BY <1>1, <1>4, <2>2, MovesToClaims DEF DecisionEvents
    <3> QED
      BY <1>3, <3>1 DEF ResultInv
  <2> QED
    BY <2>1, <2>2
<1>11. r.packet # NoPacket =>
          /\ r.packet = [result |-> r.result, verified |-> r.result]
          /\ evidence' = EvidenceFiles
  BY <1>6, <1>8 DEF Sound, Lasting
<1>12. next = "RECOVERY_REQUIRED" => r.recovery /\ tree'.present /\ "writer" \notin undo'
  <2> SUFFICES ASSUME next = "RECOVERY_REQUIRED"
               PROVE  r.recovery /\ tree.present /\ "writer" \notin undo
      BY <1>3
  <2>1. event[b] = "write_ambiguous" /\ b = Runner
    BY <1>1, <1>4, MovesToClaims DEF DecisionEvents
  <2> QED
    BY <1>3, <2>1 DEF ResultInv
<1>13. Early' => next \notin Accepted \cup {"RECOVERY_REQUIRED"}
  <2> SUFFICES ASSUME Early', next \in Accepted \cup {"RECOVERY_REQUIRED"} PROVE FALSE
      OBVIOUS
  <2>1. Early
    BY PhasesFollow DEF PhaseFrame
  <2>2. r.state \notin Accepted
    BY <1>8, <2>1 DEF Sound
  <2>3. event[b] \in {"implementation_finished", "write_ambiguous"} /\ b = Runner
    BY <1>1, <1>4, <2>2, MovesToClaims DEF DecisionEvents
  <2> QED
    BY <1>3, <2>3 DEF Early, First, Launch, Running, InTransition
<1> HIDE DEF r
<1>14. Evidenced(next)'
  <2>1. CASE tail = "whole"
    BY <1>1, <1>4, <1>5, <2>1 DEF Evidenced
  <2>2. CASE tail # "whole"
    <3>1. ~Readable'
      BY <1>1, <2>2 DEF AppendEvent, Readable
    <3>2. ASSUME b = Runner
          PROVE  next = "RECOVERY_REQUIRED" /\ Logged("effect_intent")'
      <4>1. event[Runner] = "write_ambiguous"
        BY <1>3, <1>4, <2>2, <3>2 DEF GateInv, Body, InTransition
      <4>2. Logged("effect_intent")
        BY <1>3, <3>2, <4>1 DEF EffectInv, Started, InTransition
      <4> QED
        BY <1>1, <1>6, <3>2, <4>1, <4>2, MovesToClaims DEF Lasting, LogTypes
    <3>3. ASSUME b # Runner
          PROVE  next \in Decided /\ Logged("verification_finished")'
      <4>1. event[b] \in DecisionEvents
        BY <1>4, <3>3
      <4>2. r.state = "AWAITING_APPROVAL"
        BY <1>3, <4>1 DEF GateInv, Warranted, r
      <4>3. Logged("verification_finished")
        BY <1>3, <4>2 DEF GateInv, Vouched, r
      <4> QED
        BY <1>1, <1>6, <4>1, <4>3, MovesToClaims DEF Lasting, Events
    <3> QED
      BY <3>1, <3>2, <3>3 DEF Evidenced
  <2> QED
    BY <2>1, <2>2
<1> QED
  BY <1>2, <1>7, <1>9, <1>10, <1>11, <1>12, <1>13, <1>14 DEF Sound, r

LEMMA SoundStep == WholeInv /\ SoundInv /\ [Next]_vars => SoundInv'
<1> SUFFICES ASSUME WholeInv, SoundInv, [Next]_vars PROVE SoundInv'
    OBVIOUS
<1>1. Sound(snapshot)'
  <2>1. PICK r : Sound(r) /\ snapshot' = r
    BY SnapshotFrame DEF SoundInv
  <2> QED
    BY <2>1, SoundStays DEF Sound
<1>2. ASSUME NEW c \in Commands PROVE Sound(copy[c])'
  <2> USE DEF SoundInv
  <2> DEFINE r == copy[c]
  <2>0. copy \in [Commands -> RunRecords] /\ Runner \in Commands
    BY DEF WholeInv, TypeInv, TypeOK, ControlTypeOK, Commands
  <2>1. ASSUME NEW q, Sound(q), copy'[c] = q PROVE Sound(copy[c])'
    BY <2>1, SoundStays DEF Sound
  <2>2. CASE copy'[c] = copy[c]
    BY <2>1, <2>2
  <2>3. CASE copy'[c] \in {NoRun, NewRun}
    BY <2>3 DEF Sound, NewRun, NoRun, Accepted, Published, RunStates
  <2>4. CASE AppendTransition(c)
    BY <2>4, SoundTransition
  <2>5. CASE copy'[c] = snapshot
    BY <2>1, <2>5
  <2>6. CASE copy' = [copy EXCEPT ![Runner].recovery = TRUE] /\ c = Runner
    <3>1. /\ copy'[c].state = r.state /\ copy'[c].result = r.result
          /\ copy'[c].packet = r.packet /\ copy'[c].recovery
      BY <2>0, <2>6 DEF RunRecords
    <3>2. Sound(r)
      OBVIOUS
    <3> HIDE DEF r
    <3> QED
      BY <3>1, <3>2, SoundStays DEF Sound
  <2>7. CASE /\ copy' = [copy EXCEPT ![Runner].result = reported]
             /\ reported \in Conforming /\ c = Runner /\ pc[Runner] = "inspect"
    <3>1. /\ copy'[c].state = r.state /\ copy'[c].result = reported
          /\ copy'[c].packet = r.packet /\ copy'[c].recovery = r.recovery
      BY <2>0, <2>7 DEF RunRecords
    <3>2. Sound(r)
      OBVIOUS
    <3>3. r.packet = NoPacket
      BY <2>7 DEF WholeInv, ResultInv
    <3> HIDE DEF r
    <3> QED
      BY <2>7, <3>1, <3>2, <3>3, SoundStays DEF Sound
  <2>8. CASE PublishPacket /\ c = Runner
    <3>1. /\ copy'[c].state = r.state /\ copy'[c].result = r.result
          /\ copy'[c].packet = [result |-> reported, verified |-> verifier]
          /\ copy'[c].recovery = r.recovery
      BY <2>0, <2>8 DEF RunRecords, PublishPacket
    <3>2. Sound(r)
      OBVIOUS
    <3>3. reported = r.result /\ verifier = r.result /\ r.result \in Conforming
      BY <2>8 DEF WholeInv, ResultInv, TypeInv, WorkInv, PublishPacket
    <3>4. evidence' = EvidenceFiles /\ copy'[c].packet # NoPacket
      BY <2>8, <3>1, <3>3, EngineAssumption DEF PublishPacket, workVars, NoPacket
    <3> HIDE DEF r
    <3> QED
      BY <3>1, <3>2, <3>3, <3>4, SoundStays DEF Sound
  <2> QED
    BY <2>2, <2>3, <2>4, <2>5, <2>6, <2>7, <2>8,
       CopyCases DEF WholeInv
<1> QED
  BY <1>1, <1>2 DEF SoundInv

LEMMA WholeInit == Init => WholeInv /\ SoundInv
<1>1. Init => GateInv
  BY DEF Init, GateInv, Vouched, NoRun, NoApproval, Commands, Decided
<1>2. Init => LockInv
  BY DEF Init, LockInv, Critical, Commands
<1> QED
  BY <1>1, <1>2, TypeInit, PhaseInit, EffectInit, ResultInit, SoundInit DEF WholeInv

LEMMA WholeStep == WholeInv /\ SoundInv /\ [Next]_vars => WholeInv' /\ SoundInv'
BY TypeStep, LockStep, GateStep, PhaseStep, EffectStep, ResultStep, SoundStep DEF WholeInv

\* The packet a human sees is about the recorded result, which conforms, and
\* the acceptance commands ran on that commit.
THEOREM EvidenceMatches == Spec => []EvidenceMatchesResult
<1>1. SoundInv => EvidenceMatchesResult
  BY DEF SoundInv, Sound, EvidenceMatchesResult
<1> QED
  BY WholeInit, WholeStep, <1>1, PTL DEF Spec

\* No state is on disk without the event that leads to it in the log, whatever
\* append or write failed and wherever a command died, but for a decision and the
\* loss of the writer after an append that left its line without a newline.
THEOREM SnapshotLogged == Spec => []SnapshotIsLogged
<1>1. SoundInv => SnapshotIsLogged
  BY DEF SoundInv, Sound, Evidenced, SnapshotIsLogged, Logged
<1> QED
  BY WholeInit, WholeStep, <1>1, PTL DEF Spec

\* The writer never runs without its intent in the log, and no result is
\* accepted of an effect that is not settled.
THEOREM EffectsRecorded == Spec => []EffectsAreRecorded
<1>1. WholeInv /\ SoundInv => EffectsAreRecorded
  BY AmbiguityIsUnresolved DEF WholeInv, TypeInv, TypeOK, EffectInv, SoundInv, Sound,
     EffectsAreRecorded
<1> QED
  BY WholeInit, WholeStep, <1>1, PTL DEF Spec

\* The worktree of a writer whose outcome is unknown stays for the recovery,
\* and RECOVERY_REQUIRED is never on disk without it.
THEOREM AmbiguousWorkKept == Spec => []AmbiguousWorkIsKept
<1>1. WholeInv /\ SoundInv => AmbiguousWorkIsKept
  BY AmbiguityIsUnresolved DEF WholeInv, TypeInv, TypeOK, EffectInv, SoundInv, Sound,
     AmbiguousWorkIsKept
<1> QED
  BY WholeInit, WholeStep, <1>1, PTL DEF Spec

-----------------------------------------------------------------------------
(* Progress *)

\* Command c takes a step, and only the Runner changes what its own steps are
\* counted by.
Alone(c) ==
    /\ \A d \in Commands \ {c} : pc'[d] = pc[d] /\ event'[d] = event[d]
    /\ c = Runner \/ UNCHANGED <<undo, evidence>>

Advances(c) == Alone(c) /\ StepsLeft(c)' \in 0 .. StepsLeft(c) - 1

LEMMA WriteLeftBounds == \A e : WriteLeft(e) \in 7..25
BY DEF WriteLeft

LEMMA Counts ==
    \A e, u, f :
        /\ LeftAt("idle", e, u, f) = 30 /\ LeftAt("read", e, u, f) = 29
        /\ LeftAt("lock", e, u, f) = 28 /\ LeftAt("create", e, u, f) = 27
        /\ LeftAt("check", e, u, f) = 27 /\ LeftAt("addWriter", e, u, f) = 24
        /\ LeftAt("intent", e, u, f) = 21 /\ LeftAt("start", e, u, f) = 20
        /\ LeftAt("wait", e, u, f) = 19 /\ LeftAt("settle", e, u, f) = 18
        /\ LeftAt("inspect", e, u, f) = 17 /\ LeftAt("addVerifier", e, u, f) = 14
        /\ LeftAt("verify", e, u, f) = 13 /\ LeftAt("evidence", e, u, f) = 12 - f
        /\ LeftAt("remove", e, u, f) = 4 /\ LeftAt("delete", e, u, f) = 3
        /\ LeftAt("release", e, u, f) = 1
        /\ LeftAt("returned", e, u, f) = 0 /\ LeftAt("crashed", e, u, f) = 0
        /\ LeftAt("append", e, u, f) = WriteLeft(e) + 1
        /\ LeftAt("write", e, u, f) = WriteLeft(e)
        /\ LeftAt("unwind", e, u, f) = 2 + (IF "verifier" \in u THEN 1 ELSE 0)
                                        + (IF "writer" \in u THEN 3 ELSE 0)
BY DEF LeftAt

LEMMA OthersWait ==
    ASSUME PhaseInv, NEW c \in Commands, Alone(c), NEW d \in Commands \ {c}
    PROVE  StepsLeft(d)' = StepsLeft(d)
<1>1. CASE d = Runner
  BY <1>1 DEF Alone, StepsLeft
<1>2. CASE d \in Deciders
  BY <1>2, Counts DEF Alone, PhaseInv, DeciderSteps, StepsLeft
<1> QED
  BY <1>1, <1>2 DEF Commands

LEMMA SharedAdvances ==
    ASSUME TypeInv, PhaseInv, NEW c \in Commands, Shared(c) PROVE Advances(c)
<1> USE Counts, WriteLeftBounds DEF TypeInv, TypeOK, ControlTypeOK, WorkTypeOK, EvidenceFiles,
        Goto, End, runnerVars, workVars, Advances, Alone, StepsLeft
<1>1. CASE TakeLock(c)
  BY <1>1 DEF TakeLock
<1>2. CASE AppendTransition(c)
  BY <1>2 DEF AppendTransition
<1>3. CASE TransitionFails(c)
  BY <1>3 DEF TransitionFails, Bail
<1>4. CASE WriteTransition(c)
  BY <1>4 DEF WriteTransition, Bail, After, WriteLeft
<1>5. CASE ReleaseLock(c)
  BY <1>5 DEF ReleaseLock
<1> QED
  BY <1>1, <1>2, <1>3, <1>4, <1>5 DEF Shared

LEMMA RunAdvances == ASSUME TypeInv, PhaseInv, RunStep PROVE Advances(Runner)
<1> USE Counts, WriteLeftBounds DEF TypeInv, TypeOK, ControlTypeOK, WorkTypeOK, EvidenceFiles,
        Goto, Begin, runnerVars, workVars, Advances, Alone, StepsLeft, Commands
<1>1. CASE CreateState
  BY <1>1 DEF CreateState, Bail
<1>2. CASE AddWriterTree
  BY <1>2 DEF AddWriterTree, Fail, WriteLeft
<1>3. CASE RecordIntent
  BY <1>3 DEF RecordIntent, Bail
<1>4. CASE StartWriter
  BY <1>4 DEF StartWriter, RequireRecovery, WriteLeft
<1>5. CASE WaitForWriter
  BY <1>5 DEF WaitForWriter, RequireRecovery, WriteLeft
<1>6. CASE RecordSettlement
  BY <1>6 DEF RecordSettlement, RequireRecovery, WriteLeft
<1>7. CASE InspectResult
  BY <1>7 DEF InspectResult, Fail, WriteLeft
<1>8. CASE AddVerifierTree
  BY <1>8 DEF AddVerifierTree, Fail, WriteLeft
<1>9. CASE Verify
  BY <1>9 DEF Verify, Fail, WriteLeft
<1>10. CASE WriteEvidence
  BY <1>10 DEF WriteEvidence, Bail
<1>11. CASE PublishPacket
  BY <1>11 DEF PublishPacket, WriteLeft
<1>12. CASE RemoveVerifierTree
  BY <1>12 DEF RemoveVerifierTree
<1>13. CASE CheckWriterTree
  BY <1>13 DEF CheckWriterTree
<1>14. CASE RecheckWriterTree \/ DeleteWriterTree
  BY <1>14 DEF RecheckWriterTree, DeleteWriterTree
<1>15. CASE FinishUnwind
  BY <1>15 DEF FinishUnwind
<1> QED
  BY <1>1, <1>2, <1>3, <1>4, <1>5, <1>6, <1>7, <1>8, <1>9, <1>10, <1>11, <1>12, <1>13,
     <1>14, <1>15 DEF RunStep

LEMMA BeginAdvances ==
    /\ TypeInv /\ BeginRun => Advances(Runner)
    /\ \A d \in Deciders : TypeInv /\ (BeginDecide(d) \/ DecideStep(d)) => Advances(d)
    /\ \A c \in Commands : TypeInv /\ Crash(c) => Advances(c)
<1> USE Counts, WriteLeftBounds DEF TypeInv, TypeOK, ControlTypeOK, WorkTypeOK, EvidenceFiles,
        Goto, End, runnerVars, workVars, Advances, Alone, StepsLeft, Commands
<1>1. ASSUME TypeInv, BeginRun PROVE Advances(Runner)
  BY <1>1 DEF BeginRun
<1>2. ASSUME TypeInv, NEW d \in Deciders, BeginDecide(d) PROVE Advances(d)
  BY <1>2 DEF BeginDecide
<1>3. ASSUME TypeInv, NEW d \in Deciders, ReadRun(d) PROVE Advances(d)
  BY <1>3 DEF ReadRun
<1>4. ASSUME TypeInv, NEW d \in Deciders, CheckApproval(d) PROVE Advances(d)
  BY <1>4, EngineAssumption DEF CheckApproval, Bail, Begin
<1>5. ASSUME TypeInv, NEW c \in Commands, Crash(c) PROVE Advances(c)
  BY <1>5 DEF Crash, Ended, Steps
<1> QED
  BY <1>1, <1>2, <1>3, <1>4, <1>5 DEF DecideStep

\* Every step of the system but those of the writer's processes.
LEMMA SomebodyAdvances ==
    ASSUME TypeInv, PhaseInv, Next
    PROVE  \/ \E c \in Commands : Advances(c)
           \/ UNCHANGED <<storeVars, verifier, evidence, runnerVars, pc, copy, event,
                          approval, succeeded>>
<1>1. CASE WriterWorks \/ WriterExits \/ Finished
  BY <1>1 DEF WriterWorks, WriterExits, Finished, vars, workVars
<1> QED
  BY <1>1, SharedAdvances, RunAdvances, BeginAdvances DEF Next, Commands

\* No command goes back or tries anything again, whatever fails: each of its steps
\* leaves it fewer steps, so that it is over after a bounded number.
THEOREM NoCommandGoesBack == Spec => CommandsAdvance
<1>1. TypeInv /\ PhaseInv /\ [Next]_vars =>
        [\E c \in Commands :
            /\ StepsLeft(c)' \in 0 .. StepsLeft(c) - 1
            /\ \A d \in Commands \ {c} : UNCHANGED StepsLeft(d)
          ]_<<storeVars, verifier, evidence, runnerVars, pc, copy, event, approval, succeeded>>
  BY SomebodyAdvances, OthersWait DEF Advances, vars, workVars
<1> QED
  BY TypeInit, TypeStep, PhaseInit, PhaseStep, <1>1, PTL
     DEF Spec, CommandsAdvance
=============================================================================
