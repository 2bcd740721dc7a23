---------------------------- MODULE EngineProofs ----------------------------
(* Theorems about the engine, for every set of decide commands, every set   *)
(* of commits and every choice of faults.                                   *)
EXTENDS EngineProperties, TLAPS

\* The commit the Runner handles between the inspection of the writer's result
\* and the packet is one that conforms, and the verifier has it checked out.
WorkInv ==
    /\ pc[Runner] \in {"append", "write"} /\ event[Runner] = "implementation_finished"
            => reported \in Conforming
    /\ pc[Runner] \in {"addVerifier", "verify", "evidence"} => reported \in Conforming
    /\ pc[Runner] \in {"verify", "evidence"} => verifier = reported

TypeInv == TypeOK /\ WorkInv

LEMMA Records ==
    /\ NoRun \in RunRecords
    /\ NewRun \in RunRecords
    /\ NoTree.head = NoCommit
    /\ NoApproval \in [task : BOOLEAN, decision : Decisions \cup {"none"},
                       packet : Packets \cup {NoPacket}]
BY DEF NoRun, NewRun, RunRecords, RunStates, NoTree, NoApproval

LEMMA AfterIsAStep == \A e \in Events \cup {"none"} : After(e) \in Steps
BY DEF After, Steps

LEMMA StepNames ==
    Steps = {"idle", "lock", "create", "append", "write", "addWriter", "intent",
             "start", "wait", "settle", "inspect", "addVerifier", "verify",
             "evidence", "unwind", "remove", "delete", "release", "read", "check", "returned", "crashed"}
BY DEF Steps

LEMMA EventsOfDecisions == \A x \in Decisions : EventOf[x] \in DecisionEvents \cap Events
BY DEF Decisions, EventOf, DecisionEvents, Events

LEMMA MovesAreTyped ==
    \A s, e, t : <<s, e, t>> \in Moves => s \in RunStates /\ e \in Events /\ t \in RunStates
BY DEF Moves

-----------------------------------------------------------------------------
(* Types *)

LEMMA TypeInit == Init => TypeInv
<1> SUFFICES ASSUME Init PROVE TypeInv
    OBVIOUS
<1>1. TypeOK
  BY Records DEF Init, TypeOK, StoreTypeOK, WorkTypeOK, ControlTypeOK,
     HistoryTypeOK, Commands, EvidenceFiles, Steps
<1>2. WorkInv
  BY DEF Init, WorkInv, Commands
<1> QED
  BY <1>1, <1>2 DEF TypeInv

\* What the helpers of the actions do to the variables they change.
LEMMA LogIsTyped ==
    ASSUME StoreTypeOK, NEW e \in Events \cup LogTypes,
           AppendEvent(e) \/ AppendEventFails(e) \/ CutAppend(e)
    PROVE  StoreTypeOK'
<1>1. tail' \in {tail, "torn", e} /\ log' \in {log, Append(log, e)}
  BY DEF StoreTypeOK, AppendEvent, AppendEventFails, CutAppend
<1>2. UNCHANGED <<snapshot, lock>>
  BY DEF AppendEvent, AppendEventFails, CutAppend
<1> QED
  BY <1>1, <1>2 DEF StoreTypeOK

LEMMA AppendingIsTyped ==
    ASSUME NEW c, Appending(c) # "none"
    PROVE  /\ Appending(c) \in Events \cup LogTypes
           /\ pc[c] \in {"append", "intent", "settle"}
BY MovesAreTyped DEF Appending, Accepts, LogTypes

LEMMA SnapshotIsTyped ==
    ASSUME StoreTypeOK, NEW r \in RunRecords, WriteState(r) \/ WriteStateFails(r)
    PROVE  StoreTypeOK'
BY DEF StoreTypeOK, WriteState, WriteStateFails

LEMMA LockIsTyped ==
    ASSUME StoreTypeOK, NEW c \in Commands,
           AcquireLock(c) \/ AcquireLockFails(c) \/ Release \/ ReleaseFails
    PROVE  StoreTypeOK'
BY DEF StoreTypeOK, AcquireLock, AcquireLockFails, Release, ReleaseFails

LEMMA GotoIsTyped ==
    ASSUME ControlTypeOK, NEW c \in Commands, NEW s \in Steps, Goto(c, s)
    PROVE  pc' \in [Commands -> Steps]
BY DEF ControlTypeOK, Goto

LEMMA BailIsTyped ==
    ASSUME ControlTypeOK, NEW c \in Commands, Bail(c)
    PROVE  pc' \in [Commands -> Steps]
BY DEF ControlTypeOK, Goto, Bail, Steps

LEMMA BeginIsTyped ==
    ASSUME ControlTypeOK, NEW c \in Commands, NEW e \in Events, Begin(c, e)
    PROVE  pc' \in [Commands -> Steps] /\ event' \in [Commands -> Events \cup {"none"}]
BY DEF ControlTypeOK, Goto, Begin, Steps

LEMMA EndIsTyped ==
    ASSUME ControlTypeOK, NEW c \in Commands, End(c, "returned") \/ End(c, "crashed"),
           UNCHANGED undo
    PROVE  ControlTypeOK'
BY Records DEF ControlTypeOK, Goto, End, Steps

LEMMA FailIsTyped == ASSUME ControlTypeOK, Fail PROVE ControlTypeOK'
BY BeginIsTyped DEF ControlTypeOK, Fail, Commands, Events

LEMMA RecoveryIsTyped == ASSUME ControlTypeOK, RequireRecovery PROVE ControlTypeOK'
<1>1. copy' \in [Commands -> RunRecords]
  <2>1. [copy[Runner] EXCEPT !.recovery = TRUE] \in RunRecords
    BY DEF ControlTypeOK, Commands, RunRecords
  <2> QED
    BY <2>1 DEF ControlTypeOK, RequireRecovery
<1>2. undo' \subseteq {"writer", "verifier"}
  BY DEF ControlTypeOK, RequireRecovery
<1> QED
  BY <1>1, <1>2, BeginIsTyped DEF ControlTypeOK, RequireRecovery, Commands, Events

-----------------------------------------------------------------------------
(* Which steps change what *)

StoreStep ==
    \/ CreateState \/ RecordIntent \/ RecordSettlement
    \/ \E c \in Commands : \/ TakeLock(c) \/ AppendTransition(c) \/ TransitionFails(c)
                          \/ WriteTransition(c) \/ ReleaseLock(c) \/ Crash(c)

WorkStep ==
    \/ AddWriterTree \/ StartWriter \/ AddVerifierTree \/ WriteEvidence
    \/ RemoveVerifierTree \/ DeleteWriterTree \/ WriterWorks \/ WriterExits

HistoryStep ==
    \/ WaitForWriter
    \/ \E c \in Commands : WriteTransition(c)
    \/ \E d \in Deciders : BeginDecide(d) \/ CheckApproval(d)

CopyStep ==
    \/ \E c \in Commands : copy' = [copy EXCEPT ![c] = NoRun]
    \/ copy' = [copy EXCEPT ![Runner] = NewRun]
    \/ \E c \in Commands : AppendTransition(c)
    \/ \E d \in Deciders : copy' = [copy EXCEPT ![d] = snapshot]
    \/ copy' = [copy EXCEPT ![Runner].recovery = TRUE]
    \/ /\ copy' = [copy EXCEPT ![Runner].result = reported]
       /\ reported \in Conforming /\ pc[Runner] = "inspect"
    \/ PublishPacket

LEMMA Frames ==
    ASSUME [Next]_vars
    PROVE  /\ StoreStep \/ UNCHANGED storeVars
           /\ WorkStep \/ UNCHANGED workVars
           /\ HistoryStep \/ UNCHANGED <<reported, approval, succeeded>>
           /\ CopyStep \/ UNCHANGED copy
<1> USE DEF Next, Shared, RunStep, DecideStep, Finished, vars, BeginRun,
        BeginDecide, TakeLock, AppendTransition, TransitionFails, WriteTransition,
        ReleaseLock, CreateState, AddWriterTree, RecordIntent, StartWriter,
        WaitForWriter, RecordSettlement, InspectResult, AddVerifierTree, Verify,
        WriteEvidence, PublishPacket, RemoveVerifierTree, CheckWriterTree, RecheckWriterTree, DeleteWriterTree,
        FinishUnwind, ReadRun, CheckApproval, Crash, WriterWorks, WriterExits
<1>1. StoreStep \/ UNCHANGED storeVars
  BY DEF StoreStep
<1>2. WorkStep \/ UNCHANGED workVars
  BY DEF WorkStep, workVars
<1>3. HistoryStep \/ UNCHANGED <<reported, approval, succeeded>>
  BY DEF HistoryStep, runnerVars
<1>4. CopyStep \/ UNCHANGED copy
  BY DEF CopyStep, End, Fail, RequireRecovery, ResultIsAcceptable, Commands
<1> QED
  BY <1>1, <1>2, <1>3, <1>4

-----------------------------------------------------------------------------
(* Types, continued *)

LEMMA StoreTypeStep == TypeInv /\ [Next]_vars => StoreTypeOK'
<1> SUFFICES ASSUME TypeInv, [Next]_vars PROVE StoreTypeOK'
    OBVIOUS
<1> USE DEF TypeInv, TypeOK
<1>1. CASE UNCHANGED storeVars
  BY <1>1 DEF storeVars, StoreTypeOK
<1>2. CASE CreateState
  BY <1>2, SnapshotIsTyped DEF CreateState, ControlTypeOK, Commands
<1>3. CASE RecordIntent
  BY <1>3, LogIsTyped DEF RecordIntent, LogTypes
<1>4. CASE RecordSettlement
  BY <1>4, LogIsTyped DEF RecordSettlement, LogTypes
<1>5. ASSUME NEW c \in Commands, TakeLock(c) \/ ReleaseLock(c) PROVE StoreTypeOK'
  BY <1>5, LockIsTyped DEF TakeLock, ReleaseLock
<1>6. ASSUME NEW c \in Commands, AppendTransition(c) PROVE StoreTypeOK'
  BY <1>6, LogIsTyped, MovesAreTyped DEF AppendTransition
<1>7. ASSUME NEW c \in Commands, TransitionFails(c) PROVE StoreTypeOK'
  BY <1>7, LogIsTyped, MovesAreTyped DEF TransitionFails, Accepts, storeVars, StoreTypeOK
<1>8. ASSUME NEW c \in Commands, WriteTransition(c) PROVE StoreTypeOK'
  BY <1>8, SnapshotIsTyped DEF WriteTransition, ControlTypeOK
<1>9. ASSUME NEW c \in Commands, Crash(c) PROVE StoreTypeOK'
  BY <1>9, LogIsTyped, AppendingIsTyped DEF Crash, storeVars, StoreTypeOK
<1> QED
  BY <1>1, <1>2, <1>3, <1>4, <1>5, <1>6, <1>7, <1>8, <1>9, Frames DEF StoreStep

LEMMA WorkTypeStep == TypeInv /\ [Next]_vars => WorkTypeOK'
<1> SUFFICES ASSUME TypeInv, [Next]_vars PROVE WorkTypeOK'
    OBVIOUS
<1> USE DEF TypeInv, TypeOK, WorkTypeOK
<1>1. CASE UNCHANGED workVars
  BY <1>1 DEF workVars
<1>2. CASE AddWriterTree
  <2>1. [present |-> TRUE, head |-> Base, dirty |-> FALSE] \in Trees
    BY DEF Trees, Heads
  <2> QED
    BY <1>2, <2>1 DEF AddWriterTree
<1>3. CASE StartWriter
  BY <1>3 DEF StartWriter
<1>4. CASE AddVerifierTree
  BY <1>4, EngineAssumption DEF AddVerifierTree, WorkInv
<1>5. CASE WriteEvidence
  BY <1>5 DEF WriteEvidence, EvidenceFiles
<1>6. CASE RemoveVerifierTree \/ DeleteWriterTree
  <2>1. ASSUME tree.present PROVE [tree EXCEPT !.dirty = TRUE] \in Trees
    <3>1. tree \in Trees
      BY <2>1 DEF NoTree
    <3> QED
      BY <3>1 DEF Trees
  <2> QED
    BY <1>6, <2>1 DEF RemoveVerifierTree, DeleteWriterTree
<1>7. CASE WriterWorks \/ WriterExits
  BY <1>7 DEF WriterWorks, WriterExits
<1> QED
  BY <1>1, <1>2, <1>3, <1>4, <1>5, <1>6, <1>7, Frames DEF WorkStep

LEMMA HistoryTypeStep == TypeInv /\ [Next]_vars => HistoryTypeOK'
<1> SUFFICES ASSUME TypeInv, [Next]_vars PROVE HistoryTypeOK'
    OBVIOUS
<1> USE DEF TypeInv, TypeOK, HistoryTypeOK
<1>1. CASE UNCHANGED <<reported, approval, succeeded>>
  BY <1>1
<1>2. CASE WaitForWriter
  BY <1>2, Records DEF WaitForWriter, WorkTypeOK, Trees
<1>3. ASSUME NEW c \in Commands, WriteTransition(c) PROVE HistoryTypeOK'
  BY <1>3 DEF WriteTransition, runnerVars
<1>4. ASSUME NEW d \in Deciders, BeginDecide(d) PROVE HistoryTypeOK'
  BY <1>4 DEF BeginDecide, runnerVars
<1>5. ASSUME NEW d \in Deciders, CheckApproval(d) PROVE HistoryTypeOK'
  BY <1>5 DEF CheckApproval, runnerVars, MayDecide, ValidateApproval
<1> QED
  BY <1>1, <1>2, <1>3, <1>4, <1>5, Frames DEF HistoryStep

LEMMA ControlTypeStep == TypeInv /\ [Next]_vars => ControlTypeOK'
<1> SUFFICES ASSUME TypeInv, [Next]_vars PROVE ControlTypeOK'
    OBVIOUS
<1> USE DEF TypeInv, TypeOK, ControlTypeOK, Commands, runnerVars
<1>1. CASE BeginRun
  BY <1>1, EndIsTyped, GotoIsTyped, Records, StepNames DEF BeginRun
<1>2. ASSUME NEW d \in Deciders, BeginDecide(d) PROVE ControlTypeOK'
  BY <1>2, GotoIsTyped, StepNames DEF BeginDecide
<1>3. ASSUME NEW c \in Commands, TakeLock(c) PROVE ControlTypeOK'
  BY <1>3, EndIsTyped, GotoIsTyped, StepNames DEF TakeLock
<1>4. ASSUME NEW c \in Commands, AppendTransition(c) PROVE ControlTypeOK'
  BY <1>4, GotoIsTyped, MovesAreTyped, StepNames DEF AppendTransition,
     RunRecords
<1>5. ASSUME NEW c \in Commands, TransitionFails(c) PROVE ControlTypeOK'
  BY <1>5, BailIsTyped DEF TransitionFails
<1>6. ASSUME NEW c \in Commands, WriteTransition(c) PROVE ControlTypeOK'
  BY <1>6, GotoIsTyped, BailIsTyped, AfterIsAStep DEF WriteTransition
<1>7. ASSUME NEW c \in Commands, ReleaseLock(c) PROVE ControlTypeOK'
  BY <1>7, EndIsTyped DEF ReleaseLock
<1>8. CASE CreateState
  BY <1>8, BailIsTyped, BeginIsTyped DEF CreateState, Events
<1>9. CASE AddWriterTree
  BY <1>9, FailIsTyped, BeginIsTyped DEF AddWriterTree, Events
<1>10. CASE RecordIntent
  BY <1>10, GotoIsTyped, BailIsTyped, StepNames DEF RecordIntent
<1>11. CASE StartWriter
  BY <1>11, RecoveryIsTyped, GotoIsTyped, StepNames DEF StartWriter
<1>12. CASE WaitForWriter
  BY <1>12, RecoveryIsTyped, GotoIsTyped, StepNames DEF WaitForWriter
<1>13. CASE RecordSettlement
  BY <1>13, RecoveryIsTyped, GotoIsTyped, StepNames DEF RecordSettlement
<1>14. CASE InspectResult
  BY <1>14, FailIsTyped, BeginIsTyped, EngineAssumption DEF InspectResult,
     Events, RunRecords, ResultIsAcceptable
<1>15. CASE AddVerifierTree
  BY <1>15, FailIsTyped, GotoIsTyped, StepNames DEF AddVerifierTree
<1>16. CASE Verify
  BY <1>16, FailIsTyped, GotoIsTyped, StepNames DEF Verify
<1>17. CASE WriteEvidence
  BY <1>17, BailIsTyped DEF WriteEvidence
<1>18. CASE PublishPacket
  BY <1>18, BeginIsTyped, EngineAssumption DEF PublishPacket, Events,
     RunRecords, Packets, WorkInv
<1>19. CASE RemoveVerifierTree
  BY <1>19 DEF RemoveVerifierTree
<1>20. CASE CheckWriterTree \/ RecheckWriterTree \/ DeleteWriterTree
  BY <1>20, GotoIsTyped, StepNames DEF CheckWriterTree, RecheckWriterTree, DeleteWriterTree
<1>21. CASE FinishUnwind
  BY <1>21, GotoIsTyped, StepNames DEF FinishUnwind
<1>22. ASSUME NEW d \in Deciders, ReadRun(d) PROVE ControlTypeOK'
  BY <1>22, EndIsTyped, GotoIsTyped, StepNames DEF ReadRun, StoreTypeOK
<1>23. ASSUME NEW d \in Deciders, CheckApproval(d) PROVE ControlTypeOK'
  BY <1>23, BailIsTyped, BeginIsTyped, EventsOfDecisions DEF CheckApproval,
     MayDecide, ValidateApproval
<1>24. ASSUME NEW c \in Commands, Crash(c) PROVE ControlTypeOK'
  BY <1>24, EndIsTyped DEF Crash
<1>25. CASE WriterWorks
  BY <1>25 DEF WriterWorks
<1>26. CASE WriterExits
  BY <1>26 DEF WriterExits
<1>27. CASE UNCHANGED vars
  BY <1>27 DEF vars
<1> QED
  BY <1>1, <1>2, <1>3, <1>4, <1>5, <1>6, <1>7, <1>8, <1>9, <1>10, <1>11,
     <1>12, <1>13, <1>14, <1>15, <1>16, <1>17, <1>18, <1>19, <1>20, <1>21,
     <1>22, <1>23, <1>24, <1>25, <1>26, <1>27 DEF Next, Shared, RunStep,
     DecideStep, Finished, Commands

LEMMA WorkInvStep == TypeInv /\ [Next]_vars => WorkInv'
<1> SUFFICES ASSUME TypeInv, [Next]_vars PROVE WorkInv'
    OBVIOUS
<1> USE EngineAssumption
    DEF TypeInv, TypeOK, ControlTypeOK, WorkInv, Commands, Goto, runnerVars, workVars
<1>1. CASE BeginRun
  BY <1>1 DEF BeginRun, End
<1>2. ASSUME NEW d \in Deciders, BeginDecide(d) PROVE WorkInv'
  BY <1>2 DEF BeginDecide
<1>3. ASSUME NEW c \in Commands, TakeLock(c) PROVE WorkInv'
  BY <1>3 DEF TakeLock, End
<1>4. ASSUME NEW c \in Commands, AppendTransition(c) PROVE WorkInv'
  BY <1>4 DEF AppendTransition
<1>5. ASSUME NEW c \in Commands, TransitionFails(c) PROVE WorkInv'
  BY <1>5 DEF TransitionFails, Bail
<1>6. ASSUME NEW c \in Commands, WriteTransition(c) PROVE WorkInv'
  BY <1>6 DEF WriteTransition, Bail, After
<1>7. ASSUME NEW c \in Commands, ReleaseLock(c) PROVE WorkInv'
  BY <1>7 DEF ReleaseLock, End
<1>8. CASE CreateState
  BY <1>8 DEF CreateState, Begin, Bail
<1>9. CASE AddWriterTree
  BY <1>9 DEF AddWriterTree, Begin, Fail
<1>10. CASE RecordIntent
  BY <1>10 DEF RecordIntent, Bail
<1>11. CASE StartWriter
  BY <1>11 DEF StartWriter, RequireRecovery, Begin
<1>12. CASE WaitForWriter
  BY <1>12 DEF WaitForWriter, RequireRecovery, Begin
<1>13. CASE RecordSettlement
  BY <1>13 DEF RecordSettlement, RequireRecovery, Begin
<1>14. CASE InspectResult
  BY <1>14 DEF InspectResult, Fail, Begin, ResultIsAcceptable
<1>15. CASE AddVerifierTree
  BY <1>15 DEF AddVerifierTree, Fail, Begin
<1>16. CASE Verify
  BY <1>16 DEF Verify, Fail, Begin
<1>17. CASE WriteEvidence
  BY <1>17 DEF WriteEvidence, Bail
<1>18. CASE PublishPacket
  BY <1>18 DEF PublishPacket, Begin
<1>19. CASE RemoveVerifierTree
  BY <1>19 DEF RemoveVerifierTree
<1>20. CASE CheckWriterTree \/ RecheckWriterTree \/ DeleteWriterTree
  BY <1>20 DEF CheckWriterTree, RecheckWriterTree, DeleteWriterTree
<1>21. CASE FinishUnwind
  BY <1>21 DEF FinishUnwind
<1>22. ASSUME NEW d \in Deciders, ReadRun(d) PROVE WorkInv'
  BY <1>22 DEF ReadRun, End
<1>23. ASSUME NEW d \in Deciders, CheckApproval(d) PROVE WorkInv'
  BY <1>23 DEF CheckApproval, Bail, Begin
<1>24. ASSUME NEW c \in Commands, Crash(c) PROVE WorkInv'
  BY <1>24 DEF Crash, End
<1>25. CASE WriterWorks
  BY <1>25 DEF WriterWorks
<1>26. CASE WriterExits
  BY <1>26 DEF WriterExits
<1>27. CASE UNCHANGED vars
  BY <1>27 DEF vars
<1> QED
  BY <1>1, <1>2, <1>3, <1>4, <1>5, <1>6, <1>7, <1>8, <1>9, <1>10, <1>11,
     <1>12, <1>13, <1>14, <1>15, <1>16, <1>17, <1>18, <1>19, <1>20, <1>21,
     <1>22, <1>23, <1>24, <1>25, <1>26, <1>27 DEF Next, Shared, RunStep,
     DecideStep, Finished, Commands

LEMMA TypeStep == TypeInv /\ [Next]_vars => TypeInv'
BY StoreTypeStep, WorkTypeStep, ControlTypeStep, HistoryTypeStep, WorkInvStep
   DEF TypeInv, TypeOK

\* Type correctness: every variable keeps its type, and the packet is always
\* about commits the engine accepted.
THEOREM TypeCorrect == Spec => []TypeOK
<1>1. TypeInv => TypeOK
  BY DEF TypeInv
<1> QED
  BY TypeInit, TypeStep, <1>1, PTL DEF Spec

-----------------------------------------------------------------------------
(* The lock *)

\* Whoever is past AcquireLock is the owner of the lock directory.
LockInv == \A c \in Commands : pc[c] \in Critical => lock = c

\* How a command moves through its steps: into the critical ones by TakeLock,
\* out of them by ReleaseLock or death, and never back to the first of them.
LEMMA ControlFrame ==
    ASSUME TypeInv, [Next]_vars, NEW c \in Commands
    PROVE  \/ TakeLock(c) \/ ReleaseLock(c) \/ Crash(c)
           \/ pc'[c] = pc[c]
           \/ pc[c] \in {"idle", "read"} /\ pc'[c] \in {"read", "lock", "returned"}
           \/ pc[c] \in Critical /\ pc'[c] \in Critical \ {"create", "check"}
<1> USE DEF TypeInv, TypeOK, ControlTypeOK, Steps, Critical, Commands, Goto
<1> DEFINE Flows == \/ TakeLock(c) \/ ReleaseLock(c) \/ Crash(c)
                    \/ pc'[c] = pc[c]
                    \/ /\ pc[c] \in {"idle", "read"}
                       /\ pc'[c] \in {"read", "lock", "returned"}
                    \/ pc[c] \in Critical /\ pc'[c] \in Critical \ {"create", "check"}
<1>1. CASE BeginRun \/ CreateState \/ AddWriterTree
  BY <1>1 DEF BeginRun, CreateState, AddWriterTree, Begin, Bail, End, Fail
<1>2. CASE RecordIntent \/ StartWriter \/ WaitForWriter \/ RecordSettlement
  BY <1>2 DEF RecordIntent, StartWriter, WaitForWriter, RecordSettlement, Begin, Bail,
     RequireRecovery
<1>3. CASE InspectResult \/ AddVerifierTree \/ Verify \/ WriteEvidence \/ PublishPacket
  BY <1>3 DEF InspectResult, AddVerifierTree, Verify, WriteEvidence, PublishPacket,
     Begin, Bail, Fail
<1>4. CASE RemoveVerifierTree \/ CheckWriterTree \/ RecheckWriterTree \/ DeleteWriterTree \/ FinishUnwind
  BY <1>4 DEF RemoveVerifierTree, CheckWriterTree, RecheckWriterTree, DeleteWriterTree, FinishUnwind
<1>5. ASSUME NEW d \in Deciders, BeginDecide(d) \/ ReadRun(d) PROVE Flows
  BY <1>5 DEF BeginDecide, ReadRun, End
<1>6. ASSUME NEW d \in Deciders, CheckApproval(d) PROVE Flows
  BY <1>6 DEF CheckApproval, Begin, Bail
<1>7. ASSUME NEW b \in Commands,
             AppendTransition(b) \/ TransitionFails(b) \/ WriteTransition(b)
      PROVE  Flows
  <2>1. /\ pc[b] \in {"append", "write"}
        /\ \E s \in Critical \ {"create", "check"} : pc' = [pc EXCEPT ![b] = s]
    BY <1>7 DEF AppendTransition, TransitionFails, WriteTransition, Bail, After
  <2> QED
    BY <2>1
<1>8. ASSUME NEW b \in Commands, TakeLock(b) \/ ReleaseLock(b) \/ Crash(b) PROVE Flows
  <2>1. \E s : pc' = [pc EXCEPT ![b] = s]
    BY <1>8 DEF TakeLock, ReleaseLock, Crash, End
  <2> QED
    BY <1>8, <2>1
<1>9. CASE WriterWorks \/ WriterExits \/ UNCHANGED vars
  BY <1>9 DEF WriterWorks, WriterExits, vars
<1> QED
  BY <1>1, <1>2, <1>3, <1>4, <1>5, <1>6, <1>7, <1>8, <1>9
     DEF Next, Shared, RunStep, DecideStep, Finished

\* Only AcquireLock and Release change the lock.
LEMMA LockFrame ==
    ASSUME [Next]_vars
    PROVE  UNCHANGED lock \/ \E c \in Commands : TakeLock(c) \/ ReleaseLock(c)
BY Frames DEF StoreStep, storeVars, CreateState, RecordIntent, RecordSettlement,
   AppendTransition, TransitionFails, WriteTransition, Crash, AppendEvent,
   CutAppend, AppendEventFails, WriteState, WriteStateFails

LEMMA LockStep == TypeInv /\ LockInv /\ [Next]_vars => LockInv'
<1> SUFFICES ASSUME TypeInv, LockInv, [Next]_vars PROVE LockInv'
    OBVIOUS
<1> USE EngineAssumption
    DEF TypeInv, TypeOK, ControlTypeOK, LockInv, Commands, Critical, Steps, Goto, End
<1>1. ASSUME NEW c \in Commands, TakeLock(c) PROVE LockInv'
  BY <1>1 DEF TakeLock, AcquireLock, AcquireLockFails
<1>2. ASSUME NEW c \in Commands, ReleaseLock(c) PROVE LockInv'
  BY <1>2 DEF ReleaseLock, Release, ReleaseFails
<1>3. CASE \A c \in Commands : ~TakeLock(c) /\ ~ReleaseLock(c)
  <2>1. \A c \in Commands : pc'[c] \in Critical => pc[c] \in Critical
    BY <1>3, ControlFrame DEF Crash
  <2> QED
    BY <1>3, <2>1, LockFrame
<1> QED
  BY <1>1, <1>2, <1>3

\* Mutual exclusion: the lock directory admits one command at a time, whatever
\* crashed, and whichever owner.json or removal failed.
THEOREM LockExcludes == Spec => []MutualExclusion
<1>1. Init => LockInv
  BY DEF Init, LockInv, Critical, Commands
<1>2. LockInv => MutualExclusion
  BY DEF LockInv, MutualExclusion
<1> QED
  BY TypeInit, TypeStep, LockStep, <1>1, <1>2, PTL DEF Spec

\* The lock is in the hands of a command that lives or died with it.
HolderInv == lock # NoOwner => pc[lock] \in Critical \cup {"crashed"}

LEMMA HolderStep ==
    ASSUME ~IoErrors PROVE TypeInv /\ HolderInv /\ [Next]_vars => HolderInv'
<1> SUFFICES ASSUME TypeInv, HolderInv, [Next]_vars PROVE HolderInv'
    OBVIOUS
<1> USE EngineAssumption
    DEF TypeInv, TypeOK, StoreTypeOK, ControlTypeOK, HolderInv, Critical, Steps, Goto, End
<1>1. ASSUME NEW c \in Commands, TakeLock(c) PROVE HolderInv'
  BY <1>1 DEF TakeLock, AcquireLock, AcquireLockFails
<1>2. ASSUME NEW c \in Commands, ReleaseLock(c) PROVE HolderInv'
  BY <1>2 DEF ReleaseLock, Release, ReleaseFails
<1>3. CASE \A c \in Commands : ~TakeLock(c) /\ ~ReleaseLock(c)
  <2>1. ASSUME NEW c \in Commands, pc[c] \in Critical \cup {"crashed"}
        PROVE  pc'[c] \in Critical \cup {"crashed"}
    BY <1>3, <2>1, ControlFrame DEF Crash
  <2> QED
    BY <1>3, <2>1, LockFrame
<1> QED
  BY <1>1, <1>2, <1>3

\* As long as the disk does not fail, no command returns and leaves its lock
\* behind.
THEOREM LockIsHeld == ASSUME ~IoErrors PROVE Spec => []LockHasHolder
<1>1. Init => HolderInv
  BY DEF Init, HolderInv
<1>2. HolderInv => LockHasHolder
  BY DEF HolderInv, LockHasHolder
<1> QED
  BY TypeInit, TypeStep, HolderStep, <1>1, <1>2, PTL DEF Spec

-----------------------------------------------------------------------------
(* The phases of a run *)

InTransition(events) == pc[Runner] \in {"append", "write"} /\ event[Runner] \in events

\* The writer's worktree has not been made yet.
First ==
    \/ pc[Runner] \in {"idle", "lock", "create", "addWriter"}
    \/ InTransition({"preparation_started"})

\* It has been made, and the writer has not been started.
Launch ==
    \/ pc[Runner] \in {"intent", "start"}
    \/ InTransition({"implementation_started"})

\* The writer has been started, and its settlement is not recorded.
Running == pc[Runner] \in {"wait", "settle"}

Early == First \/ Launch \/ Running

\* The settlement is recorded, and the run goes on.
Settled ==
    \/ pc[Runner] \in {"inspect", "addVerifier", "verify", "evidence"}
    \/ InTransition({"implementation_finished", "verification_finished"})

\* Where a decide can be.
DeciderSteps ==
    {"idle", "read", "lock", "check", "append", "write", "release", "returned", "crashed"}

\* What each phase has made so far; a removal is deferred for a worktree that
\* is there; decisions are the deciders' alone.
PhaseInv ==
    /\ First => ~tree.present /\ undo = {}
    /\ First \/ Launch => writer = "none"
    /\ Launch \/ Running => "writer" \in undo
    /\ "writer" \in undo => tree.present
    /\ pc[Runner] \in {"remove", "delete"} => "writer" \in undo
    /\ event[Runner] \notin DecisionEvents
    /\ pc[Runner] = "append" => event[Runner] # "none"
    /\ \A d \in Deciders :
        /\ event[d] \in DecisionEvents \cup {"none"}
        /\ pc[d] \in DeciderSteps

LEMMA PhaseInit == Init => PhaseInv
BY DEF Init, PhaseInv, First, Launch, Running, InTransition, NoTree, Commands,
   DecisionEvents, DeciderSteps

LEMMA PhaseStep == TypeInv /\ PhaseInv /\ [Next]_vars => PhaseInv'
<1> SUFFICES ASSUME TypeInv, PhaseInv, [Next]_vars PROVE PhaseInv'
    OBVIOUS
<1> USE EngineAssumption
    DEF TypeInv, TypeOK, ControlTypeOK, PhaseInv, First, Launch, Running, InTransition,
        Commands, Goto, runnerVars, workVars, DecisionEvents, DeciderSteps
<1>1. CASE BeginRun
  BY <1>1 DEF BeginRun, End
<1>2. ASSUME NEW d \in Deciders, BeginDecide(d) PROVE PhaseInv'
  BY <1>2 DEF BeginDecide
<1>3. ASSUME NEW c \in Commands, TakeLock(c) PROVE PhaseInv'
  BY <1>3 DEF TakeLock, End
<1>4. ASSUME NEW c \in Commands, AppendTransition(c) PROVE PhaseInv'
  BY <1>4 DEF AppendTransition
<1>5. ASSUME NEW c \in Commands, TransitionFails(c) PROVE PhaseInv'
  BY <1>5 DEF TransitionFails, Bail
<1>6. ASSUME NEW c \in Commands, WriteTransition(c) PROVE PhaseInv'
  BY <1>6 DEF WriteTransition, Bail, After
<1>7. ASSUME NEW c \in Commands, ReleaseLock(c) PROVE PhaseInv'
  BY <1>7 DEF ReleaseLock, End
<1>8. CASE CreateState
  BY <1>8 DEF CreateState, Begin, Bail
<1>9. CASE AddWriterTree
  BY <1>9 DEF AddWriterTree, Begin, Fail, NoTree
<1>10. CASE RecordIntent
  BY <1>10 DEF RecordIntent, Bail
<1>11. CASE StartWriter
  BY <1>11 DEF StartWriter, RequireRecovery, Begin
<1>12. CASE WaitForWriter
  BY <1>12 DEF WaitForWriter, RequireRecovery, Begin
<1>13. CASE RecordSettlement
  BY <1>13 DEF RecordSettlement, RequireRecovery, Begin
<1>14. CASE InspectResult
  BY <1>14 DEF InspectResult, Fail, Begin
<1>15. CASE AddVerifierTree
  BY <1>15 DEF AddVerifierTree, Fail, Begin
<1>16. CASE Verify
  BY <1>16 DEF Verify, Fail, Begin
<1>17. CASE WriteEvidence
  BY <1>17 DEF WriteEvidence, Bail
<1>18. CASE PublishPacket
  BY <1>18 DEF PublishPacket, Begin
<1>19. CASE RemoveVerifierTree
  BY <1>19 DEF RemoveVerifierTree
<1>20. CASE CheckWriterTree \/ RecheckWriterTree \/ DeleteWriterTree
  BY <1>20 DEF CheckWriterTree, RecheckWriterTree, DeleteWriterTree
<1>21. CASE FinishUnwind
  BY <1>21 DEF FinishUnwind
<1>22. ASSUME NEW d \in Deciders, ReadRun(d) PROVE PhaseInv'
  BY <1>22 DEF ReadRun, End
<1>23. ASSUME NEW d \in Deciders, CheckApproval(d) PROVE PhaseInv'
  BY <1>23, EventsOfDecisions DEF CheckApproval, Bail, Begin, MayDecide, ValidateApproval
<1>24. ASSUME NEW c \in Commands, Crash(c) PROVE PhaseInv'
  BY <1>24 DEF Crash, End
<1>25. CASE WriterWorks \/ WriterExits
  BY <1>25 DEF WriterWorks, WriterExits, Trees
<1>26. CASE UNCHANGED vars
  BY <1>26 DEF vars
<1> QED
  BY <1>1, <1>2, <1>3, <1>4, <1>5, <1>6, <1>7, <1>8, <1>9, <1>10, <1>11,
     <1>12, <1>13, <1>14, <1>15, <1>16, <1>17, <1>18, <1>19, <1>20, <1>21,
     <1>22, <1>23, <1>24, <1>25, <1>26 DEF Next, Shared, RunStep, DecideStep,
     Finished, Commands

-----------------------------------------------------------------------------
(* The human gate *)

\* What must be on disk and in the hands of a human for a record to say that
\* the run awaits approval, or is decided.
Vouched(r) ==
    /\ r.state \in Decided \cup {"AWAITING_APPROVAL"} =>
        evidence = EvidenceFiles /\ Logged("verification_finished")
    /\ r.state \in Decided => r.packet # NoPacket /\ ChosenByHuman(r)

\* What the event of a transition needs before it is appended.
Warranted(c) ==
    /\ event[c] = "verification_finished" => c = Runner /\ evidence = EvidenceFiles
    /\ event[c] \in DecisionEvents =>
        /\ c \in Deciders
        /\ copy[c].state = "AWAITING_APPROVAL"
        /\ event[c] = EventOf[approval[c].decision]
        /\ approval[c].decision \in Decisions
        /\ approval[c].packet = copy[c].packet
        /\ copy[c].packet # NoPacket

\* The Runner is in the body of engine.Run, and no append of its has failed.
Body ==
    \/ pc[Runner] \in {"idle", "lock", "create", "addWriter", "intent", "start", "wait",
                       "settle", "inspect", "addVerifier", "verify", "evidence"}
    \/ InTransition(Events \ {"write_ambiguous"})

\* A decide is about to append.
DecideAppends == \E d \in Deciders : pc[d] = "append" /\ Accepts(copy[d].state, event[d])

\* Until an append of the Runner fails every line of the log is complete.  Every record
\* is vouched for, the one on disk and the stale copies alike; an
\* event about to be appended is warranted; a decision is made once.
GateInv ==
    /\ Body => tail = "whole"
    /\ pc[Runner] \in {"idle", "lock"} => log = <<>>
    /\ Vouched(snapshot)
    /\ \A c \in Commands : Vouched(copy[c])
    /\ copy[Runner].state \notin Decided
    /\ \A c \in Commands : pc[c] = "append" => Warranted(c)
    /\ \A d \in Deciders :
        approval[d].decision # "none" => pc[d] \notin {"idle", "read", "lock", "check"}

\* Nothing that vouches for a record is ever lost.
Lasting ==
    /\ \A e \in Events \cup LogTypes : Logged(e) => Logged(e)'
    /\ ~Readable => ~Readable'
    /\ evidence = EvidenceFiles => evidence' = EvidenceFiles
    /\ \A d \in Deciders : approval[d].decision # "none" => approval'[d] = approval[d]

LEMMA LogGrows ==
    ASSUME log \in Seq(Events \cup LogTypes), NEW x \in Events \cup LogTypes,
           log' = log \/ log' = Append(log, x)
    PROVE  \A e \in Events \cup LogTypes : Logged(e) => Logged(e)'
BY DEF Logged

LEMMA AppendIsLogged ==
    ASSUME log \in Seq(Events \cup LogTypes), NEW x \in Events \cup LogTypes,
           log' = Append(log, x)
    PROVE  Logged(x)'
<1>1. Len(log) + 1 \in DOMAIN log' /\ log'[Len(log) + 1] = x
  OBVIOUS
<1> QED
  BY <1>1 DEF Logged

\* Where the log comes from: an append, whole or cut short.
LEMMA TailFrame ==
    ASSUME [Next]_vars
    PROVE  \/ UNCHANGED <<log, tail>>
           \/ \E c \in Commands :
                /\ Appending(c) # "none"
                /\ AppendEvent(Appending(c)) \/ CutAppend(Appending(c))
<1> DEFINE Goal == \/ UNCHANGED <<log, tail>>
                   \/ \E c \in Commands :
                        /\ Appending(c) # "none"
                        /\ AppendEvent(Appending(c)) \/ CutAppend(Appending(c))
<1>1. CASE UNCHANGED storeVars
  BY <1>1 DEF storeVars
<1>2. CASE CreateState
  BY <1>2 DEF CreateState, WriteState, WriteStateFails
<1>3. CASE RecordIntent \/ RecordSettlement
  <2>1. Appending(Runner) = IF pc[Runner] = "intent" THEN "effect_intent" ELSE "effect_settlement"
    BY <1>3 DEF RecordIntent, RecordSettlement, Appending
  <2> QED
    BY <1>3, <2>1 DEF RecordIntent, RecordSettlement, AppendEventFails, Commands
<1>4. ASSUME NEW c \in Commands, AppendTransition(c) \/ TransitionFails(c) PROVE Goal
  <2>1. pc[c] = "append"
    BY <1>4 DEF AppendTransition, TransitionFails
  <2>2. CASE Accepts(copy[c].state, event[c])
    <3>1. Appending(c) = event[c] /\ event[c] # "none"
      BY <2>1, <2>2, MovesAreTyped DEF Appending, Accepts, Events
    <3> QED
      BY <1>4, <2>2, <3>1 DEF AppendTransition, TransitionFails, AppendEventFails, storeVars
  <2>3. CASE ~Accepts(copy[c].state, event[c])
    BY <1>4, <2>3 DEF AppendTransition, TransitionFails, Accepts, storeVars
  <2> QED
    BY <2>2, <2>3
<1>5. ASSUME NEW c \in Commands, Crash(c) PROVE Goal
  BY <1>5 DEF Crash, storeVars
<1>6. ASSUME NEW c \in Commands, TakeLock(c) \/ WriteTransition(c) \/ ReleaseLock(c)
      PROVE  UNCHANGED <<log, tail>>
  BY <1>6 DEF TakeLock, WriteTransition, ReleaseLock, AcquireLock,
     AcquireLockFails, WriteState, WriteStateFails, Release, ReleaseFails
<1> QED
  BY <1>1, <1>2, <1>3, <1>4, <1>5, <1>6, Frames DEF StoreStep

LEMMA LastingStep == TypeInv /\ GateInv /\ [Next]_vars => Lasting
<1> SUFFICES ASSUME TypeInv, GateInv, [Next]_vars PROVE Lasting
    OBVIOUS
<1> USE DEF TypeInv, TypeOK
<1> DEFINE Grows == /\ \A e \in Events \cup LogTypes : Logged(e) => Logged(e)'
                    /\ ~Readable => ~Readable'
<1>1. Grows
  <2>1. CASE UNCHANGED <<log, tail>>
    BY <2>1 DEF Logged, Readable
  <2>2. CASE ~UNCHANGED <<log, tail>>
    <3>1. PICK c \in Commands :
            /\ Appending(c) # "none"
            /\ AppendEvent(Appending(c)) \/ CutAppend(Appending(c))
      BY <2>2, TailFrame
    <3>2. PICK x \in Events \cup LogTypes : x = Appending(c)
      BY <3>1, AppendingIsTyped
    <3>3. Readable /\ (log' = log \/ log' = Append(log, x))
      BY <3>1, <3>2 DEF AppendEvent, CutAppend
    <3>4. \A e \in Events \cup LogTypes : Logged(e) => Logged(e)'
      BY <3>3, LogGrows DEF StoreTypeOK
    <3> QED
      BY <3>3, <3>4
  <2> QED
    BY <2>1, <2>2
<1>2. evidence = EvidenceFiles => evidence' = EvidenceFiles
  BY Frames DEF WorkStep, workVars, AddWriterTree, StartWriter, AddVerifierTree,
     WriteEvidence, RemoveVerifierTree, CheckWriterTree, RecheckWriterTree, DeleteWriterTree, WriterWorks, WriterExits,
     EvidenceFiles
<1>3. \A d \in Deciders : approval[d].decision # "none" => approval'[d] = approval[d]
  BY Frames DEF HistoryTypeOK, GateInv, HistoryStep, WaitForWriter, WriteTransition,
     BeginDecide, CheckApproval
<1> QED
  BY <1>1, <1>2, <1>3 DEF Lasting

\* Where the record on disk comes from.
LEMMA SnapshotFrame ==
    ASSUME [Next]_vars
    PROVE  snapshot' = snapshot \/ \E c \in Commands : snapshot' = copy[c]
BY Frames DEF StoreStep, storeVars, CreateState, RecordIntent, RecordSettlement,
   TakeLock, AppendTransition, TransitionFails, WriteTransition, ReleaseLock, Crash,
   WriteState, WriteStateFails, AppendEvent, CutAppend, AppendEventFails, AcquireLock,
   AcquireLockFails, Release, ReleaseFails, Commands

\* How a command gets to the append of a transition.
LEMMA AppendFrame ==
    ASSUME TypeInv, [Next]_vars, NEW c \in Commands, pc'[c] = "append"
    PROVE  \/ pc[c] = "append" /\ event'[c] = event[c] /\ copy'[c] = copy[c]
           \/ event'[c] \notin DecisionEvents \cup {"verification_finished"}
           \/ PublishPacket /\ c = Runner
           \/ c \in Deciders /\ CheckApproval(c)
<1> USE EngineAssumption DEF TypeInv, TypeOK, ControlTypeOK, Commands, Goto, DecisionEvents
<1> DEFINE Goal == \/ pc[c] = "append" /\ event'[c] = event[c] /\ copy'[c] = copy[c]
                   \/ event'[c] \notin DecisionEvents \cup {"verification_finished"}
                   \/ PublishPacket /\ c = Runner
                   \/ c \in Deciders /\ CheckApproval(c)
<1>1. CASE BeginRun \/ CreateState \/ AddWriterTree \/ RecordIntent \/ StartWriter
  BY <1>1 DEF BeginRun, CreateState, AddWriterTree, RecordIntent, StartWriter,
     Begin, Bail, End, Fail, RequireRecovery
<1>2. CASE WaitForWriter \/ RecordSettlement \/ InspectResult \/ AddVerifierTree \/ Verify
  BY <1>2 DEF WaitForWriter, RecordSettlement, InspectResult, AddVerifierTree, Verify,
     Begin, Fail, RequireRecovery
<1>3. CASE \/ WriteEvidence \/ PublishPacket \/ RemoveVerifierTree
           \/ CheckWriterTree \/ RecheckWriterTree \/ DeleteWriterTree \/ FinishUnwind
  BY <1>3 DEF WriteEvidence, PublishPacket, RemoveVerifierTree, CheckWriterTree, RecheckWriterTree,
     DeleteWriterTree,
     FinishUnwind, Begin, Bail, runnerVars
<1>4. ASSUME NEW d \in Deciders, BeginDecide(d) \/ ReadRun(d) \/ CheckApproval(d)
      PROVE  Goal
  BY <1>4 DEF BeginDecide, ReadRun, CheckApproval, Begin, Bail, End
<1>5. ASSUME NEW b \in Commands,
             \/ TakeLock(b) \/ AppendTransition(b) \/ TransitionFails(b)
             \/ WriteTransition(b) \/ ReleaseLock(b) \/ Crash(b)
      PROVE  Goal
  BY <1>5 DEF TakeLock, AppendTransition, TransitionFails, WriteTransition,
     ReleaseLock, Crash, Bail, End, After
<1>6. CASE WriterWorks \/ WriterExits \/ UNCHANGED vars
  BY <1>6 DEF WriterWorks, WriterExits, vars
<1> QED
  BY <1>1, <1>2, <1>3, <1>4, <1>5, <1>6 DEF Next, Shared, RunStep, DecideStep, Finished

\* How the Runner stays in its body, and what happens to the log meanwhile.
LEMMA BodyFrame ==
    ASSUME TypeInv, PhaseInv, [Next]_vars, Body'
    PROVE  /\ Body
           /\ pc'[Runner] \in {"idle", "lock"} => pc[Runner] \in {"idle", "lock"}
           /\ \/ UNCHANGED <<log, tail>>
              \/ pc'[Runner] \notin {"idle", "lock"} /\ \E x : AppendEvent(x)
              \/ DecideAppends
<1> USE EngineAssumption
    DEF TypeInv, TypeOK, ControlTypeOK, Body, InTransition, Commands, Goto
<1> DEFINE Goal == /\ Body
                   /\ pc'[Runner] \in {"idle", "lock"} => pc[Runner] \in {"idle", "lock"}
                   /\ \/ UNCHANGED <<log, tail>>
                      \/ pc'[Runner] \notin {"idle", "lock"} /\ \E x : AppendEvent(x)
                      \/ DecideAppends
<1>1. CASE BeginRun \/ CreateState \/ AddWriterTree
  BY <1>1 DEF BeginRun, CreateState, AddWriterTree, End, Bail, Fail, Begin, storeVars,
     WriteState, WriteStateFails
<1>2. CASE RecordIntent \/ RecordSettlement
  BY <1>2 DEF RecordIntent, RecordSettlement, Bail, RequireRecovery, Begin
<1>3. CASE StartWriter \/ WaitForWriter
  BY <1>3 DEF StartWriter, WaitForWriter, RequireRecovery, Begin, storeVars
<1>4. CASE InspectResult \/ AddVerifierTree \/ Verify \/ WriteEvidence \/ PublishPacket
  BY <1>4 DEF InspectResult, AddVerifierTree, Verify, WriteEvidence, PublishPacket, Fail,
     Begin, Bail, storeVars
<1>5. CASE \/ RemoveVerifierTree \/ CheckWriterTree \/ RecheckWriterTree
           \/ DeleteWriterTree \/ FinishUnwind
  BY <1>5 DEF RemoveVerifierTree, CheckWriterTree, RecheckWriterTree, DeleteWriterTree,
     FinishUnwind, storeVars
<1>6. ASSUME NEW d \in Deciders, BeginDecide(d) \/ ReadRun(d) \/ CheckApproval(d)
      PROVE  Goal
  BY <1>6 DEF BeginDecide, ReadRun, CheckApproval, Begin, Bail, End, storeVars
<1>7. ASSUME NEW c \in Commands, TakeLock(c) \/ ReleaseLock(c) \/ WriteTransition(c)
      PROVE  Goal
  <2>1. UNCHANGED <<log, tail>>
    BY <1>7 DEF TakeLock, ReleaseLock, WriteTransition, AcquireLock, AcquireLockFails,
       Release, ReleaseFails, WriteState, WriteStateFails
  <2>2. CASE c = Runner
    BY <1>7, <2>1, <2>2 DEF TakeLock, ReleaseLock, WriteTransition, End, Bail, After,
       PhaseInv, DecisionEvents, Events
  <2>3. CASE c # Runner
    BY <1>7, <2>1, <2>3 DEF TakeLock, ReleaseLock, WriteTransition, End, Bail
  <2> QED
    BY <2>2, <2>3
<1>8. ASSUME NEW c \in Commands, AppendTransition(c) \/ TransitionFails(c) PROVE Goal
  <2>1. CASE c = Runner
    BY <1>8, <2>1 DEF AppendTransition, TransitionFails, Bail
  <2>2. CASE c # Runner
    BY <1>8, <2>2 DEF AppendTransition, TransitionFails, Bail, DecideAppends, storeVars,
       Accepts
  <2> QED
    BY <2>1, <2>2
<1>9. ASSUME NEW c \in Commands, Crash(c) PROVE Goal
  <2>1. CASE c = Runner
    BY <1>9, <2>1 DEF Crash, End
  <2>2. CASE c # Runner
    BY <1>9, <2>2 DEF Crash, End, DecideAppends, Appending, PhaseInv, DeciderSteps, storeVars
  <2> QED
    BY <2>1, <2>2
<1>10. CASE WriterWorks \/ WriterExits \/ UNCHANGED vars
  BY <1>10 DEF WriterWorks, WriterExits, vars, storeVars
<1> QED
  BY <1>1, <1>2, <1>3, <1>4, <1>5, <1>6, <1>7, <1>8, <1>9, <1>10
     DEF Next, Shared, RunStep, DecideStep, Finished

\* No decide appends before the Runner has published the packet.
LEMMA DecidesAppendLater ==
    ASSUME TypeInv, LockInv, PhaseInv, GateInv, Body PROVE ~DecideAppends
<1> SUFFICES ASSUME NEW d \in Deciders, pc[d] = "append", Accepts(copy[d].state, event[d])
             PROVE  FALSE
    BY DEF DecideAppends
<1>1. pc[Runner] \in {"idle", "lock"}
  BY EngineAssumption DEF LockInv, Body, InTransition, Critical, Steps, Commands
<1>2. event[d] \in DecisionEvents
  BY MovesAreTyped DEF Accepts, PhaseInv, Events
<1>3. copy[d].state = "AWAITING_APPROVAL"
  BY <1>2 DEF GateInv, Warranted, Commands
<1>4. Logged("verification_finished")
  BY <1>3 DEF GateInv, Vouched, Commands
<1>5. log = <<>>
  BY <1>1 DEF GateInv
<1> QED
  BY <1>4, <1>5 DEF Logged

LEMMA VouchedLasts ==
    ASSUME Lasting, NEW r, Vouched(r) PROVE Vouched(r)'
BY EventsOfDecisions DEF Vouched, Lasting, ChosenByHuman, Recorded, Logged, Readable, Events,
   Decisions

LEMMA GateStep == TypeInv /\ LockInv /\ PhaseInv /\ GateInv /\ [Next]_vars => GateInv'
<1> SUFFICES ASSUME TypeInv, LockInv, PhaseInv, GateInv, [Next]_vars PROVE GateInv'
    OBVIOUS
<1>0. Lasting
  BY LastingStep
<1> USE EngineAssumption, <1>0 DEF TypeInv, TypeOK, ControlTypeOK, GateInv, Commands
<1>1. Vouched(snapshot)'
  <2>1. PICK r : Vouched(r) /\ snapshot' = r
    BY SnapshotFrame
  <2>2. Vouched(r)'
    BY <2>1, VouchedLasts
  <2> QED
    BY <2>1, <2>2 DEF Vouched, ChosenByHuman
<1>2. ASSUME NEW c \in Commands PROVE Vouched(copy[c])'
  <2> USE DEF RunRecords
  <2>0. ASSUME NEW r, Vouched(r), copy'[c].state = r.state,
               copy'[c].packet = r.packet \/ r.state \notin Decided
        PROVE  Vouched(copy[c])'
    <3>1. Vouched(r)'
      BY <2>0, VouchedLasts
    <3> QED
      BY <2>0, <3>1 DEF Vouched, ChosenByHuman
  <2>1. CASE UNCHANGED copy
    BY <2>0, <2>1
  <2>2. CASE \E b \in Commands : copy' = [copy EXCEPT ![b] = NoRun]
    <3>1. copy'[c] = copy[c] \/ copy'[c] = NoRun
      BY <2>2
    <3>2. Vouched(NoRun)
      BY DEF Vouched, NoRun, Decided
    <3> QED
      BY <2>0, <3>1, <3>2
  <2>3. CASE copy' = [copy EXCEPT ![Runner] = NewRun]
    <3>1. copy'[c] = copy[c] \/ copy'[c] = NewRun
      BY <2>3
    <3>2. Vouched(NewRun)
      BY DEF Vouched, NewRun, NoRun, Decided
    <3> QED
      BY <2>0, <3>1, <3>2
  <2>4. ASSUME NEW b \in Commands, AppendTransition(b) PROVE Vouched(copy[c])'
    <3>1. CASE c # b
      BY <2>0, <2>4, <3>1 DEF AppendTransition
    <3>2. CASE c = b
      <4>1. PICK next \in RunStates :
                /\ <<copy[b].state, event[b], next>> \in Moves
                /\ AppendEvent(event[b])
                /\ copy' = [copy EXCEPT ![b].state = next]
        BY <2>4 DEF AppendTransition
      <4>2. Warranted(b) /\ event[b] \in Events
        BY <2>4, <4>1, MovesAreTyped DEF AppendTransition
      <4>3. tail = "whole" => \A e \in Events : e = event[b] => Logged(e)'
        BY <4>1, <4>2, AppendIsLogged DEF AppendEvent, StoreTypeOK
      <4>4. /\ copy'[c].state = next
            /\ copy'[c].packet = copy[c].packet
        BY <3>2, <4>1
      <4>5. CASE next = "AWAITING_APPROVAL"
        <5>1. event[b] = "verification_finished"
          BY <4>1, <4>5 DEF Moves, transitions, interrupts
        <5>2. tail = "whole"
          BY <2>4, <4>2, <5>1 DEF AppendTransition, Warranted, Body, InTransition, Events
        <5> QED
          BY <4>2, <4>3, <4>4, <4>5, <5>1, <5>2 DEF Warranted, Vouched, Lasting, Decided
      <4>6. CASE next \in Decided
        <5>1. event[b] \in DecisionEvents
          BY <4>1, <4>6 DEF Moves, transitions, interrupts, Decided, DecisionEvents
        <5>2. approval'[b] = approval[b]
          BY <4>2, <5>1 DEF Warranted, Lasting, Decisions
        <5>3. ChosenByHuman(copy[c])'
          <6>1. <<"AWAITING_APPROVAL", EventOf[approval'[b].decision], copy'[c].state>> \in Moves
            BY <4>1, <4>2, <4>4, <5>1, <5>2 DEF Warranted
          <6>2. /\ b \in Deciders /\ approval'[b].decision \in Decisions
                /\ approval'[b].packet = copy'[c].packet
            BY <3>2, <4>2, <4>4, <5>1, <5>2 DEF Warranted
          <6>3. event[b] = EventOf[approval'[b].decision]
            BY <4>2, <5>1, <5>2 DEF Warranted
          <6>4. (\E i \in DOMAIN log' : log'[i] = event[b]) \/ tail' = "torn"
            <7>1. CASE tail = "whole"
              BY <4>1, <4>2, <7>1, AppendIsLogged DEF AppendEvent, StoreTypeOK, Logged
            <7> QED
              BY <4>1, <7>1 DEF AppendEvent
          <6>5. Recorded(EventOf[approval[b].decision])'
            BY <2>4, <6>3, <6>4 DEF AppendTransition, Recorded, Readable, Logged
          <6> QED
            BY <6>1, <6>2, <6>5 DEF ChosenByHuman
        <5>4. evidence' = EvidenceFiles /\ Logged("verification_finished")'
          BY <4>2, <5>1 DEF Warranted, Vouched, Lasting, Events
        <5> QED
          BY <3>2, <4>2, <4>4, <5>1, <5>3, <5>4 DEF Warranted, Vouched
      <4> QED
        BY <4>4, <4>5, <4>6 DEF Vouched
    <3> QED
      BY <3>1, <3>2
  <2>5. CASE \E d \in Deciders : copy' = [copy EXCEPT ![d] = snapshot]
    <3>1. copy'[c] = copy[c] \/ copy'[c] = snapshot
      BY <2>5
    <3> QED
      BY <2>0, <3>1
  <2>6. CASE \/ copy' = [copy EXCEPT ![Runner].recovery = TRUE]
             \/ copy' = [copy EXCEPT ![Runner].result = reported]
    <3>1. copy'[c].state = copy[c].state /\ copy'[c].packet = copy[c].packet
      BY <2>6
    <3> QED
      BY <2>0, <3>1
  <2>7. CASE PublishPacket
    <3>1. copy'[c].state = copy[c].state
      BY <2>7 DEF PublishPacket
    <3>2. copy'[c].packet = copy[c].packet \/ c = Runner
      BY <2>7 DEF PublishPacket
    <3> QED
      BY <2>0, <3>1, <3>2
  <2> QED
    BY <2>1, <2>2, <2>3, <2>4, <2>5, <2>6, <2>7, Frames DEF CopyStep
<1>3. copy'[Runner].state \notin Decided
  <2>1. ASSUME NEW b \in Commands, AppendTransition(b) PROVE copy'[Runner].state \notin Decided
    <3>1. PICK next \in RunStates : /\ <<copy[b].state, event[b], next>> \in Moves
                                    /\ copy' = [copy EXCEPT ![b].state = next]
      BY <2>1 DEF AppendTransition
    <3>2. next \in Decided => event[b] \in DecisionEvents
      BY <3>1 DEF Moves, transitions, interrupts, Decided, DecisionEvents
    <3>3. next \in Decided => b # Runner
      BY <2>1, <3>2 DEF AppendTransition, Warranted
    <3> QED
      BY <3>1, <3>3 DEF RunRecords
  <2> QED
    BY <2>1, Frames DEF CopyStep, PublishPacket, NewRun, NoRun, RunRecords, Decided
<1>4. ASSUME NEW c \in Commands, pc'[c] = "append" PROVE Warranted(c)'
  <2>1. CASE pc[c] = "append" /\ event'[c] = event[c] /\ copy'[c] = copy[c]
    BY <2>1 DEF Warranted, Lasting, Decisions
  <2>2. CASE event'[c] \notin DecisionEvents \cup {"verification_finished"}
    BY <2>2 DEF Warranted
  <2>3. CASE PublishPacket /\ c = Runner
    BY <2>3 DEF Warranted, PublishPacket, Begin, workVars, DecisionEvents
  <2>4. CASE c \in Deciders /\ CheckApproval(c)
    <3>1. PICK decision \in Decisions, packet \in Packets :
              /\ packet # NoPacket /\ packet = copy[c].packet
              /\ approval'[c] = [task |-> approval[c].task, decision |-> decision,
                                 packet |-> packet]
              /\ event'[c] = EventOf[decision]
      BY <1>4, <2>4 DEF CheckApproval, Begin, Bail, Goto, HistoryTypeOK,
         MayDecide, ValidateApproval
    <3>2. event'[c] # "verification_finished"
      BY <3>1 DEF EventOf, Decisions
    <3>3. copy' = copy /\ copy[c].state = "AWAITING_APPROVAL"
      BY <1>4, <2>4 DEF CheckApproval, MayDecide, Bail, Goto
    <3> QED
      BY <2>4, <3>1, <3>2, <3>3 DEF Warranted
  <2> QED
    BY <1>4, <2>1, <2>2, <2>3, <2>4, AppendFrame
<1>5. ASSUME NEW d \in Deciders, approval'[d].decision # "none"
      PROVE  pc'[d] \notin {"idle", "read", "lock", "check"}
  <2>1. CASE CheckApproval(d)
    BY <1>5, <2>1, EventsOfDecisions DEF CheckApproval, HistoryTypeOK, Begin, Bail, Goto
  <2>2. ASSUME ~CheckApproval(d) PROVE approval'[d].decision = approval[d].decision
    <3>1. ASSUME NEW b \in Deciders, CheckApproval(b)
          PROVE  approval'[d].decision = approval[d].decision
      <4>1. b # d
        BY <2>2, <3>1
      <4> QED
        BY <3>1, <4>1 DEF CheckApproval, HistoryTypeOK
    <3>2. ASSUME NEW b \in Deciders, BeginDecide(b)
          PROVE  approval'[d].decision = approval[d].decision
      BY <3>2 DEF BeginDecide, HistoryTypeOK
    <3>3. \/ approval' = approval
          \/ \E b \in Deciders : BeginDecide(b) \/ CheckApproval(b)
      BY Frames DEF HistoryStep, WaitForWriter, WriteTransition
    <3> QED
      BY <3>1, <3>2, <3>3
  <2>3. pc'[d] \in {"idle", "read", "lock", "check"} =>
            pc[d] \in {"idle", "read", "lock", "check"}
    BY ControlFrame DEF TakeLock, ReleaseLock, Crash, End, Goto, Critical, Steps
  <2> QED
    BY <1>5, <2>1, <2>2, <2>3
<1>6. ASSUME Body' PROVE tail' = "whole" /\ (pc'[Runner] \in {"idle", "lock"} => log' = <<>>)
  <2>1. Body /\ tail = "whole" /\ ~DecideAppends
    BY <1>6, BodyFrame, DecidesAppendLater
  <2> QED
    BY <1>6, <2>1, BodyFrame DEF AppendEvent
<1> QED
  BY <1>1, <1>2, <1>3, <1>4, <1>5, <1>6 DEF Body

\* The human gate: whatever crashes, fails or overlaps, a run is decided only by
\* a human looking at the packet of its record, and only with the evidence.
THEOREM HumanGate == Spec => []DecisionIsHuman
<1>1. Init => GateInv
  BY DEF Init, GateInv, Vouched, NoRun, NoApproval, Commands, Decided
<1>2. Init => LockInv
  BY DEF Init, LockInv, Critical, Commands
<1>3. GateInv => DecisionIsHuman
  BY DEF GateInv, Vouched, DecisionIsHuman
<1> QED
  BY TypeInit, TypeStep, LockStep, PhaseInit, PhaseStep, GateStep, <1>1, <1>2, <1>3, PTL
     DEF Spec

=============================================================================
