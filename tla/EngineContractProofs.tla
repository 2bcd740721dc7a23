------------------------- MODULE EngineContractProofs -------------------------
(* The engine implements the contract of a run, for every number of decide  *)
(* commands, overlapping or not, every set of commits and every fault; and  *)
(* what follows for those that do not overlap.                              *)
EXTENDS EngineWorkProofs, FiniteSetTheorems

\* The state in which a decision may find the record on disk: decide commands
\* that overlap may have decided before.
Decidable(state) == state = "AWAITING_APPROVAL" \/ (Overlap /\ state \in Decided)

\* The record on disk when a command raises an event.
Due(r, e) ==
    /\ e = "preparation_started" => r.state = "CREATED"
    /\ e = "implementation_started" => r.state = "PREPARING"
    /\ e \in {"implementation_finished", "write_ambiguous"} => r.state = "IMPLEMENTING"
    /\ e = "verification_finished" => r.state = "VERIFYING"
    /\ e = "failed" => r.state \in {"PREPARING", "IMPLEMENTING", "VERIFYING"}
    /\ e \in DecisionEvents => Decidable(r.state)

\* What the record of a command has besides the one on disk when it raises e.
Amended(r, e, q) ==
    /\ e = "implementation_finished" =>
        q = [r EXCEPT !.state = q.state, !.result = q.result] /\ q.result \in Conforming
    /\ e = "verification_finished" =>
        q = [r EXCEPT !.state = q.state,
                      !.packet = [result |-> r.result, verified |-> r.result]]
    /\ e = "write_ambiguous" => q = [r EXCEPT !.state = q.state, !.recovery = TRUE]
    /\ e \notin {"implementation_finished", "verification_finished", "write_ambiguous"} =>
        q = [r EXCEPT !.state = q.state]

Preparing == {"addWriter"}
Implementing == {"intent", "start", "wait", "settle", "inspect"}
Verifying == {"addVerifier", "verify", "evidence"}

\* Between its transitions the Runner's record is the one on disk.
RunnerInv ==
    /\ pc[Runner] \in {"idle", "lock", "create"} => snapshot = NoRun
    /\ pc[Runner] \in {"lock", "create"} => copy[Runner] = NewRun
    /\ pc[Runner] \in Preparing \cup Implementing \cup Verifying => copy[Runner] = snapshot
    /\ pc[Runner] \in Preparing => snapshot.state = "PREPARING"
    /\ pc[Runner] \in Implementing => snapshot.state = "IMPLEMENTING"
    /\ pc[Runner] \in Verifying => snapshot.state = "VERIFYING"

\* The state that an event is applied to: a decision is applied to the record
\* that the command read before it had the lock.
Origin(r, e) == IF e \in DecisionEvents THEN "AWAITING_APPROVAL" ELSE r.state

\* Within a transition it is ahead of the one on disk by what the event brings.
TransitionInv ==
    \A c \in Commands :
        /\ pc[c] \in {"append", "write"} =>
            Due(snapshot, event[c]) /\ Amended(snapshot, event[c], copy[c])
        /\ pc[c] = "append" => copy[c].state = Origin(snapshot, event[c])
        /\ pc[c] = "write" => <<Origin(snapshot, event[c]), event[c], copy[c].state>> \in Moves

Active(d) == pc[d] \notin {"idle", "returned", "crashed"}

\* A decider that read the record awaiting the approval has it still, but for
\* the state when another one has decided since; a decision shows.  Without
\* overlap one decide command is active at a time and one succeeds at most.
DecisionInv ==
    /\ \A d \in Deciders :
        pc[d] \in {"lock", "check"} /\ copy[d].state = "AWAITING_APPROVAL" =>
            /\ Decidable(snapshot.state)
            /\ copy[d] = [snapshot EXCEPT !.state = "AWAITING_APPROVAL"]
    /\ \A d \in Deciders : d \in succeeded => snapshot.state \in Decided
    /\ ~Overlap => /\ \A c, d \in Deciders : Active(c) /\ Active(d) => c = d
                   /\ \A c, d \in Deciders : c \in succeeded /\ d \in succeeded => c = d

RecordInv == RunnerInv /\ TransitionInv /\ DecisionInv

Context == TypeInv /\ LockInv /\ PhaseInv /\ ResultInv

LEMMA RecordInit == Init => RecordInv
BY DEF Init, RecordInv, RunnerInv, TransitionInv, DecisionInv, Active, Commands,
   Preparing, Implementing, Verifying

\* Where the events of a command lead to.
LEMMA MoveTargets ==
    ASSUME NEW s, NEW e, NEW t, <<s, e, t>> \in Moves
    PROVE  /\ e = "preparation_started" => t = "PREPARING"
           /\ e = "implementation_started" => t = "IMPLEMENTING"
           /\ e = "implementation_finished" => t = "VERIFYING"
           /\ e = "verification_finished" => t = "AWAITING_APPROVAL"
           /\ e = "write_ambiguous" => t = "RECOVERY_REQUIRED"
           /\ e = "failed" => t = "FAILED"
           /\ e \in DecisionEvents => t \in Decided
           /\ s \in RunStates \ Terminal /\ e \in Events /\ t \in RunStates
BY DEF Moves, transitions, interrupts, DecisionEvents, Decided

LEMMA RunnerStep == Context /\ RecordInv /\ [Next]_vars => RunnerInv'
<1> SUFFICES ASSUME Context, RecordInv, [Next]_vars PROVE RunnerInv'
    OBVIOUS
<1> USE EngineAssumption
    DEF Context, TypeInv, TypeOK, ControlTypeOK, RecordInv, RunnerInv, Preparing,
        Implementing, Verifying, Commands, Goto, runnerVars, workVars
<1>1. CASE BeginRun
  BY <1>1 DEF BeginRun, End, NewRun, NoRun, storeVars
<1>2. ASSUME NEW d \in Deciders, BeginDecide(d) PROVE RunnerInv'
  BY <1>2 DEF BeginDecide, storeVars
<1>3. ASSUME NEW c \in Commands, TakeLock(c) PROVE RunnerInv'
  BY <1>3 DEF TakeLock, End, NoRun, AcquireLock, AcquireLockFails
<1>4. ASSUME NEW c \in Commands, AppendTransition(c) PROVE RunnerInv'
  BY <1>4 DEF AppendTransition, AppendEvent
<1>5. ASSUME NEW c \in Commands, TransitionFails(c) PROVE RunnerInv'
  BY <1>5 DEF TransitionFails, Bail, storeVars, AppendEventFails,
     AppendEvent, CutAppend
<1>6. ASSUME NEW c \in Commands, WriteTransition(c) PROVE RunnerInv'
  <2>1. <<Origin(snapshot, event[c]), event[c], copy[c].state>> \in Moves
        /\ Due(snapshot, event[c])
        /\ (snapshot' = snapshot \/ snapshot' = copy[c])
        /\ copy' = copy /\ pc' = [pc EXCEPT ![c] = pc'[c]]
    BY <1>6 DEF WriteTransition, Bail, WriteState, WriteStateFails, TransitionInv
  <2>2. CASE c # Runner
    <3>1. Decidable(snapshot.state) /\ pc'[Runner] = pc[Runner]
      BY <2>1, <2>2, MoveTargets DEF PhaseInv, Due, Events, DecisionEvents
    <3> QED
      BY <3>1 DEF NoRun, Decidable, Decided
  <2>3. CASE c = Runner
    <3>1. \/ pc'[Runner] = After(event[Runner]) /\ snapshot' = copy[Runner]
          \/ pc'[Runner] = "unwind"
      BY <1>6, <2>3 DEF WriteTransition, Bail, WriteState
    <3>2. event[Runner] \in Events \ DecisionEvents
      BY <2>1, <2>3, MoveTargets DEF PhaseInv
    <3> QED
      BY <2>1, <2>3, <3>1, <3>2, MoveTargets DEF After, Events, DecisionEvents
  <2> QED
    BY <2>2, <2>3
<1>7. ASSUME NEW c \in Commands, ReleaseLock(c) PROVE RunnerInv'
  BY <1>7 DEF ReleaseLock, End, NoRun, Release, ReleaseFails
<1>8. CASE CreateState
  BY <1>8 DEF CreateState, Begin, Bail, WriteState, WriteStateFails
<1>9. CASE AddWriterTree
  BY <1>9 DEF AddWriterTree, Begin, Fail, storeVars
<1>10. CASE RecordIntent
  BY <1>10 DEF RecordIntent, Bail, AppendEvent, AppendEventFails, CutAppend
<1>11. CASE StartWriter
  BY <1>11 DEF StartWriter, RequireRecovery, Begin, storeVars
<1>12. CASE WaitForWriter
  BY <1>12 DEF WaitForWriter, RequireRecovery, Begin, storeVars
<1>13. CASE RecordSettlement
  BY <1>13 DEF RecordSettlement, RequireRecovery, Begin, AppendEvent, AppendEventFails,
     CutAppend, storeVars
<1>14. CASE InspectResult
  BY <1>14 DEF InspectResult, Fail, Begin, ResultIsAcceptable, storeVars
<1>15. CASE AddVerifierTree
  BY <1>15 DEF AddVerifierTree, Fail, Begin, storeVars
<1>16. CASE Verify
  BY <1>16 DEF Verify, Fail, Begin, storeVars
<1>17. CASE WriteEvidence
  BY <1>17 DEF WriteEvidence, Bail, storeVars
<1>18. CASE PublishPacket
  BY <1>18 DEF PublishPacket, Begin, storeVars
<1>19. CASE RemoveVerifierTree
  BY <1>19 DEF RemoveVerifierTree, storeVars
<1>20. CASE CheckWriterTree \/ RecheckWriterTree \/ DeleteWriterTree
  BY <1>20 DEF CheckWriterTree, RecheckWriterTree, DeleteWriterTree, storeVars
<1>21. CASE FinishUnwind
  BY <1>21 DEF FinishUnwind, storeVars
<1>22. ASSUME NEW d \in Deciders, ReadRun(d) PROVE RunnerInv'
  BY <1>22 DEF ReadRun, End, storeVars
<1>23. ASSUME NEW d \in Deciders, CheckApproval(d) PROVE RunnerInv'
  BY <1>23 DEF CheckApproval, Bail, Begin, storeVars
<1>24. ASSUME NEW c \in Commands, Crash(c) PROVE RunnerInv'
  BY <1>24 DEF Crash, End, NoRun, storeVars, CutAppend
<1>25. CASE WriterWorks \/ WriterExits
  BY <1>25 DEF WriterWorks, WriterExits, storeVars
<1>26. CASE UNCHANGED vars
  BY <1>26 DEF vars, storeVars
<1> QED
  BY <1>1, <1>2, <1>3, <1>4, <1>5, <1>6, <1>7, <1>8, <1>9, <1>10,
     <1>11, <1>12, <1>13, <1>14, <1>15, <1>16, <1>17, <1>18, <1>19, <1>20,
     <1>21, <1>22, <1>23, <1>24, <1>25, <1>26 DEF Next, Shared, RunStep, DecideStep,
     Finished, Commands

\* Only the command that holds the lock is in a transition.
LEMMA OneTransition ==
    ASSUME Context, NEW c \in Commands, pc[c] \in {"create", "append", "write"}
    PROVE  \A b \in Commands \ {c} : pc[b] \notin {"create", "append", "write"}
BY EngineAssumption DEF Context, LockInv, Critical, Steps

\* Records that differ in what an event brings.
LEMMA Unamended == \A r \in RunRecords : r = [r EXCEPT !.state = r.state]
BY DEF RunRecords

LEMMA Amendments ==
    ASSUME NEW r \in RunRecords
    PROVE  /\ \A x \in Conforming :
                /\ Amended(r, "implementation_finished", [r EXCEPT !.result = x])
                /\ [r EXCEPT !.result = x].state = r.state
           /\ LET q == [r EXCEPT !.packet = [result |-> r.result, verified |-> r.result]] IN
                 Amended(r, "verification_finished", q) /\ q.state = r.state
           /\ LET q == [r EXCEPT !.recovery = TRUE] IN
                 Amended(r, "write_ambiguous", q) /\ q.state = r.state
BY DEF RunRecords, Amended

LEMMA Advanced ==
    ASSUME NEW r \in RunRecords, NEW e, NEW q, NEW next,
           Amended(r, e, q)
    PROVE  Amended(r, e, [q EXCEPT !.state = next])
BY DEF Amended, RunRecords

\* A command that begins a transition, and one that goes on without one.
LEMMA Begins ==
    ASSUME TypeInv, TransitionInv, NEW c \in Commands, NEW e, Begin(c, e),
           UNCHANGED snapshot, \A b \in Commands \ {c} : copy'[b] = copy[b],
           Due(snapshot, e), Amended(snapshot, e, copy'[c]),
           copy'[c].state = Origin(snapshot, e)
    PROVE  TransitionInv'
BY DEF TypeInv, TypeOK, ControlTypeOK, TransitionInv, Begin, Goto

LEMMA RunnerBegins ==
    ASSUME TypeInv, TransitionInv, NEW e, e \notin DecisionEvents, Begin(Runner, e),
           UNCHANGED snapshot, \A b \in Commands \ {Runner} : copy'[b] = copy[b],
           Due(snapshot, e), Amended(snapshot, e, copy'[Runner]),
           copy'[Runner].state = snapshot.state
    PROVE  TransitionInv'
BY Begins DEF Origin, Commands

LEMMA Goes ==
    ASSUME TypeInv, TransitionInv, NEW c \in Commands, NEW step, Goto(c, step),
           step \notin {"append", "write"},
           UNCHANGED <<snapshot, event>>, \A b \in Commands \ {c} : copy'[b] = copy[b]
    PROVE  TransitionInv'
BY DEF TypeInv, TypeOK, ControlTypeOK, TransitionInv, Goto

LEMMA FailBegins ==
    ASSUME TypeInv, TransitionInv, Fail, UNCHANGED snapshot, copy[Runner] = snapshot,
           snapshot.state \in {"PREPARING", "IMPLEMENTING", "VERIFYING"}
    PROVE  TransitionInv'
<1>1. Begin(Runner, "failed") /\ UNCHANGED copy /\ Runner \in Commands
  BY DEF Fail, Commands
<1>2. Due(snapshot, "failed") /\ Amended(snapshot, "failed", copy'[Runner])
  BY <1>1, Unamended DEF Due, Amended, DecisionEvents, TypeInv, TypeOK, StoreTypeOK
<1> QED
  BY <1>1, <1>2, RunnerBegins DEF DecisionEvents

LEMMA RecoveryBegins ==
    ASSUME TypeInv, TransitionInv, RequireRecovery, UNCHANGED snapshot, copy[Runner] = snapshot,
           snapshot.state = "IMPLEMENTING"
    PROVE  TransitionInv'
<1>1. /\ Begin(Runner, "write_ambiguous") /\ Runner \in Commands
      /\ copy' = [copy EXCEPT ![Runner].recovery = TRUE]
  BY DEF RequireRecovery, Commands
<1>2. copy'[Runner] = [snapshot EXCEPT !.recovery = TRUE]
  BY <1>1 DEF TypeInv, TypeOK, ControlTypeOK
<1>3. /\ Due(snapshot, "write_ambiguous") /\ Amended(snapshot, "write_ambiguous", copy'[Runner])
      /\ copy'[Runner].state = snapshot.state
  BY <1>2, Amendments DEF Due, DecisionEvents, TypeInv, TypeOK, StoreTypeOK
<1> QED
  BY <1>1, <1>3, RunnerBegins DEF DecisionEvents, TypeInv, TypeOK, ControlTypeOK

LEMMA TransitionStep == Context /\ RecordInv /\ [Next]_vars => TransitionInv'
<1> SUFFICES ASSUME Context, RecordInv, [Next]_vars PROVE TransitionInv'
    OBVIOUS
<1> USE EngineAssumption
    DEF Context, TypeInv, TypeOK, ControlTypeOK, RecordInv, TransitionInv,
        Commands, Goto, runnerVars, workVars
<1>1. CASE BeginRun
  BY <1>1 DEF BeginRun, End, NewRun, NoRun, storeVars
<1>2. ASSUME NEW d \in Deciders, BeginDecide(d) PROVE TransitionInv'
  BY <1>2 DEF BeginDecide, storeVars
<1>3. ASSUME NEW c \in Commands, TakeLock(c) PROVE TransitionInv'
  BY <1>3 DEF TakeLock, End, NoRun, AcquireLock, AcquireLockFails
<1>4. ASSUME NEW c \in Commands, AppendTransition(c) PROVE TransitionInv'
  <2>1. PICK next \in RunStates :
            /\ <<copy[c].state, event[c], next>> \in Moves
            /\ copy' = [copy EXCEPT ![c].state = next]
    BY <1>4 DEF AppendTransition
  <2>2. /\ pc[c] = "append" /\ pc' = [pc EXCEPT ![c] = "write"]
        /\ UNCHANGED <<snapshot, event>>
    BY <1>4 DEF AppendTransition, AppendEvent
  <2>3. ASSUME NEW b \in Commands, b # c PROVE copy'[b] = copy[b] /\ pc'[b] = pc[b]
    BY <2>1, <2>2, <2>3
  <2>4. Due(snapshot, event[c]) /\ Amended(snapshot, event[c], copy'[c])
    <3>1. Due(snapshot, event[c]) /\ Amended(snapshot, event[c], copy[c])
      BY <2>2
    <3>2. copy'[c] = [copy[c] EXCEPT !.state = next]
      BY <2>1
    <3>3. Amended(snapshot, event[c], [copy[c] EXCEPT !.state = next])
      BY <3>1, Advanced DEF StoreTypeOK
    <3> QED
      BY <3>1, <3>2, <3>3
  <2>5. <<Origin(snapshot, event[c]), event[c], copy'[c].state>> \in Moves
    <3>1. copy'[c].state = next
      BY <2>1 DEF RunRecords
    <3> QED
      BY <2>1, <2>2, <3>1
  <2> QED
    BY <2>2, <2>3, <2>4, <2>5
<1>5. ASSUME NEW c \in Commands, TransitionFails(c) PROVE TransitionInv'
  BY <1>5 DEF TransitionFails, Bail, storeVars, AppendEventFails,
     AppendEvent, CutAppend
<1>6. ASSUME NEW c \in Commands, WriteTransition(c) PROVE TransitionInv'
  <2>1. /\ pc[c] = "write" /\ copy' = copy /\ event' = event
        /\ \E s \in Steps \ {"append", "write"} : pc' = [pc EXCEPT ![c] = s]
    BY <1>6 DEF WriteTransition, Bail, After, Steps
  <2>2. \A b \in Commands \ {c} : pc[b] \notin {"create", "append", "write"}
    BY <2>1, OneTransition
  <2> QED
    BY <2>1, <2>2
<1>7. ASSUME NEW c \in Commands, ReleaseLock(c) PROVE TransitionInv'
  BY <1>7 DEF ReleaseLock, End, NoRun, Release, ReleaseFails
<1>8. CASE CreateState
  <2>1. /\ snapshot = NoRun /\ copy[Runner] = NewRun
        /\ pc[Runner] = "create" /\ UNCHANGED copy
    BY <1>8 DEF CreateState, RunnerInv
  <2>2. \A b \in Commands \ {Runner} : pc[b] \notin {"create", "append", "write"}
    BY <2>1, OneTransition
  <2>3. CASE WriteState(copy[Runner]) /\ Begin(Runner, "preparation_started")
    <3>1. snapshot' = NewRun /\ NewRun \in RunRecords
      BY <2>1, <2>3, Records DEF WriteState
    <3>2. Due(snapshot, "preparation_started")' /\ Amended(snapshot', "preparation_started", copy'[Runner])
      BY <2>1, <3>1, Unamended DEF Due, Amended, NewRun, NoRun, DecisionEvents
    <3> QED
      BY <2>1, <2>2, <2>3, <3>1, <3>2 DEF Begin, Origin, DecisionEvents
  <2>4. CASE Bail(Runner)
    BY <1>8, <2>1, <2>2, <2>4 DEF Bail, CreateState, Begin
  <2> QED
    BY <1>8, <2>3, <2>4 DEF CreateState
<1>9. CASE AddWriterTree
  <2>1. copy[Runner] = snapshot /\ snapshot.state = "PREPARING" /\ UNCHANGED snapshot
    BY <1>9 DEF RunnerInv, Preparing, Implementing, Verifying, AddWriterTree, storeVars,
       AppendEvent, AppendEventFails
  <2>3. CASE Fail
    BY <2>1, <2>3, FailBegins
  <2>4. CASE ~Fail
    <3>1. Begin(Runner, "implementation_started") /\ UNCHANGED copy
      BY <1>9, <2>4 DEF AddWriterTree
    <3>2. /\ Due(snapshot, "implementation_started")
          /\ Amended(snapshot, "implementation_started", copy'[Runner])
      BY <2>1, <3>1, Unamended DEF Due, Amended, DecisionEvents, StoreTypeOK
    <3> QED
      BY <2>1, <3>1, <3>2, RunnerBegins DEF DecisionEvents
  <2> QED
    BY <2>3, <2>4
<1>10. CASE RecordIntent
  BY <1>10 DEF RecordIntent, Bail, AppendEvent, AppendEventFails, CutAppend
<1>11. CASE StartWriter
  <2>1. copy[Runner] = snapshot /\ snapshot.state = "IMPLEMENTING" /\ UNCHANGED snapshot
    BY <1>11 DEF RunnerInv, Preparing, Implementing, Verifying, StartWriter, storeVars,
       AppendEvent, AppendEventFails
  <2>3. CASE RequireRecovery
    BY <2>1, <2>3, RecoveryBegins
  <2>4. CASE ~RequireRecovery
    BY <1>11, <2>1, <2>4, Goes DEF StartWriter
  <2> QED
    BY <2>3, <2>4
<1>12. CASE WaitForWriter
  <2>1. copy[Runner] = snapshot /\ snapshot.state = "IMPLEMENTING" /\ UNCHANGED snapshot
    BY <1>12 DEF RunnerInv, Preparing, Implementing, Verifying, WaitForWriter, storeVars,
       AppendEvent, AppendEventFails
  <2>3. CASE RequireRecovery
    BY <2>1, <2>3, RecoveryBegins
  <2>4. CASE ~RequireRecovery
    BY <1>12, <2>1, <2>4, Goes DEF WaitForWriter
  <2> QED
    BY <2>3, <2>4
<1>13. CASE RecordSettlement
  <2>1. copy[Runner] = snapshot /\ snapshot.state = "IMPLEMENTING" /\ UNCHANGED snapshot
    BY <1>13 DEF RunnerInv, Preparing, Implementing, Verifying, RecordSettlement,
       storeVars, AppendEvent, AppendEventFails, CutAppend
  <2>3. CASE RequireRecovery
    BY <2>1, <2>3, RecoveryBegins
  <2>4. CASE ~RequireRecovery
    BY <1>13, <2>1, <2>4, Goes DEF RecordSettlement
  <2> QED
    BY <2>3, <2>4
<1>14. CASE InspectResult
  <2>1. copy[Runner] = snapshot /\ snapshot.state = "IMPLEMENTING" /\ UNCHANGED snapshot
    BY <1>14 DEF RunnerInv, Preparing, Implementing, Verifying, InspectResult, storeVars,
       AppendEvent, AppendEventFails
  <2>3. CASE Fail
    BY <2>1, <2>3, FailBegins
  <2>4. CASE ~Fail
    <3>1. /\ Begin(Runner, "implementation_finished")
          /\ copy' = [copy EXCEPT ![Runner].result = reported]
          /\ reported \in Conforming
      BY <1>14, <2>4 DEF InspectResult, ResultIsAcceptable
    <3>2. copy'[Runner] = [snapshot EXCEPT !.result = reported]
      BY <2>1, <3>1
    <3>3. /\ Due(snapshot, "implementation_finished")
          /\ Amended(snapshot, "implementation_finished", copy'[Runner])
          /\ copy'[Runner].state = snapshot.state
      BY <2>1, <3>1, <3>2, Amendments DEF Due, DecisionEvents, StoreTypeOK
    <3> QED
      BY <2>1, <3>1, <3>3, RunnerBegins DEF DecisionEvents
  <2> QED
    BY <2>3, <2>4
<1>15. CASE AddVerifierTree
  <2>1. copy[Runner] = snapshot /\ snapshot.state = "VERIFYING" /\ UNCHANGED snapshot
    BY <1>15 DEF RunnerInv, Preparing, Implementing, Verifying, AddVerifierTree,
       storeVars, AppendEvent, AppendEventFails
  <2>3. CASE Fail
    BY <2>1, <2>3, FailBegins
  <2>4. CASE ~Fail
    BY <1>15, <2>1, <2>4, Goes DEF AddVerifierTree
  <2> QED
    BY <2>3, <2>4
<1>16. CASE Verify
  <2>1. copy[Runner] = snapshot /\ snapshot.state = "VERIFYING" /\ UNCHANGED snapshot
    BY <1>16 DEF RunnerInv, Preparing, Implementing, Verifying, Verify, storeVars,
       AppendEvent, AppendEventFails
  <2>3. CASE Fail
    BY <2>1, <2>3, FailBegins
  <2>4. CASE ~Fail
    BY <1>16, <2>1, <2>4, Goes DEF Verify
  <2> QED
    BY <2>3, <2>4
<1>17. CASE WriteEvidence
  BY <1>17 DEF WriteEvidence, Bail, storeVars
<1>18. CASE PublishPacket
  <2>1. copy[Runner] = snapshot /\ snapshot.state = "VERIFYING" /\ UNCHANGED snapshot
    BY <1>18 DEF RunnerInv, Preparing, Implementing, Verifying, PublishPacket, storeVars,
       AppendEvent, AppendEventFails
  <2>2. reported = snapshot.result /\ verifier = snapshot.result
    BY <1>18, <2>1 DEF PublishPacket, ResultInv, WorkInv
  <2>3. /\ Begin(Runner, "verification_finished")
        /\ copy' = [copy EXCEPT ![Runner].packet = [result |-> reported, verified |-> verifier]]
    BY <1>18 DEF PublishPacket
  <2>4. copy'[Runner] = [snapshot EXCEPT !.packet =
                            [result |-> snapshot.result, verified |-> snapshot.result]]
    BY <2>1, <2>2, <2>3
  <2>5. /\ Due(snapshot, "verification_finished")
        /\ Amended(snapshot, "verification_finished", copy'[Runner])
        /\ copy'[Runner].state = snapshot.state
    BY <2>1, <2>4, Amendments DEF Due, DecisionEvents, StoreTypeOK
  <2> QED
    BY <2>1, <2>3, <2>5, RunnerBegins DEF DecisionEvents
<1>19. CASE RemoveVerifierTree
  BY <1>19 DEF RemoveVerifierTree, storeVars
<1>20. CASE CheckWriterTree \/ RecheckWriterTree \/ DeleteWriterTree
  BY <1>20 DEF CheckWriterTree, RecheckWriterTree, DeleteWriterTree, storeVars
<1>21. CASE FinishUnwind
  BY <1>21 DEF FinishUnwind, storeVars
<1>22. ASSUME NEW d \in Deciders, ReadRun(d) PROVE TransitionInv'
  BY <1>22 DEF ReadRun, End, storeVars
<1>23. ASSUME NEW d \in Deciders, CheckApproval(d) PROVE TransitionInv'
  <2>1. UNCHANGED <<snapshot, copy>>
    BY <1>23 DEF CheckApproval, storeVars
  <2>2. CASE Bail(d) /\ UNCHANGED event
    BY <2>1, <2>2, Goes DEF Bail
  <2>3. CASE \E decision \in Decisions : copy[d].state = "AWAITING_APPROVAL" /\ Begin(d, EventOf[decision])
    <3>1. PICK e \in DecisionEvents : Begin(d, e)
      BY <2>3, EventsOfDecisions
    <3>2. /\ Decidable(snapshot.state)
          /\ copy[d] = [snapshot EXCEPT !.state = "AWAITING_APPROVAL"]
      BY <1>23, <2>3 DEF DecisionInv, CheckApproval
    <3>3. copy'[d] = [snapshot EXCEPT !.state = copy'[d].state]
      BY <2>1, <2>3, <3>2
    <3>4. Due(snapshot, e) /\ Amended(snapshot, e, copy'[d])
      BY <3>2, <3>3 DEF Due, Amended, DecisionEvents
    <3> QED
      BY <2>1, <2>3, <3>1, <3>4, Begins DEF Origin
  <2> QED
    BY <1>23, <2>2, <2>3 DEF CheckApproval, MayDecide, ValidateApproval
<1>24. ASSUME NEW c \in Commands, Crash(c) PROVE TransitionInv'
  BY <1>24 DEF Crash, End, NoRun, storeVars, CutAppend
<1>25. CASE WriterWorks \/ WriterExits
  BY <1>25 DEF WriterWorks, WriterExits, storeVars
<1>26. CASE UNCHANGED vars
  BY <1>26 DEF vars, storeVars
<1> QED
  BY <1>1, <1>2, <1>3, <1>4, <1>5, <1>6, <1>7, <1>8, <1>9, <1>10,
     <1>11, <1>12, <1>13, <1>14, <1>15, <1>16, <1>17, <1>18, <1>19, <1>20,
     <1>21, <1>22, <1>23, <1>24, <1>25, <1>26 DEF Next, Shared, RunStep, DecideStep,
     Finished, Commands

LEMMA DecisionStep == Context /\ RecordInv /\ [Next]_vars => DecisionInv'
<1> SUFFICES ASSUME Context, RecordInv, [Next]_vars PROVE DecisionInv'
    OBVIOUS
<1> USE EngineAssumption
    DEF Context, TypeInv, TypeOK, ControlTypeOK, RecordInv, DecisionInv, Active,
        Commands, Goto, runnerVars, workVars
<1>1. CASE BeginRun
  BY <1>1 DEF BeginRun, End, NewRun, NoRun, storeVars
<1>2. ASSUME NEW d \in Deciders, BeginDecide(d) PROVE DecisionInv'
  BY <1>2 DEF BeginDecide, Ended, storeVars
<1>3. ASSUME NEW c \in Commands, TakeLock(c) PROVE DecisionInv'
  BY <1>3 DEF TakeLock, End, NoRun, AcquireLock, AcquireLockFails
<1>4. ASSUME NEW c \in Commands, AppendTransition(c) PROVE DecisionInv'
  BY <1>4 DEF AppendTransition, AppendEvent
<1>5. ASSUME NEW c \in Commands, TransitionFails(c) PROVE DecisionInv'
  BY <1>5 DEF TransitionFails, Bail, storeVars, AppendEventFails,
     AppendEvent, CutAppend
<1>6. ASSUME NEW c \in Commands, WriteTransition(c) PROVE DecisionInv'
  <2>1. /\ pc[c] = "write" /\ copy' = copy
        /\ Due(snapshot, event[c]) /\ Amended(snapshot, event[c], copy[c])
        /\ <<Origin(snapshot, event[c]), event[c], copy[c].state>> \in Moves
        /\ snapshot' = snapshot \/ snapshot' = copy[c]
    BY <1>6 DEF WriteTransition, WriteState, WriteStateFails, TransitionInv
  <2>2. event[c] \in Events
    BY <2>1, MoveTargets
  <2>3. \A d \in Deciders : pc'[d] \in {"lock", "check"} => pc'[d] = pc[d] /\ d # c
    BY <1>6 DEF WriteTransition, Bail, After
  <2>4. \A d \in Deciders : Active(d)' => Active(d)
    BY <1>6, <2>1 DEF WriteTransition, Bail
  <2>5. CASE c = Runner
    <3>1. ~Decidable(snapshot.state) /\ snapshot.state \notin Decided
      BY <2>1, <2>2, <2>5 DEF PhaseInv, Due, Decidable, Decided, Events, DecisionEvents
    <3>2. succeeded' \subseteq succeeded \cup {Runner}
      BY <1>6, <2>5 DEF WriteTransition
    <3> QED
      BY <2>1, <2>3, <2>4, <3>1, <3>2
  <2>6. CASE c \in Deciders
    <3>1. event[c] \in DecisionEvents
      BY <2>2, <2>6 DEF PhaseInv, Events
    <3>2. Decidable(snapshot.state) /\ copy[c].state \in Decided
      BY <2>1, <3>1, MoveTargets DEF Due
    <3>3. copy[c] = [snapshot EXCEPT !.state = copy[c].state]
      BY <2>1, <3>1 DEF Amended, DecisionEvents
    <3>4. snapshot' = [snapshot EXCEPT !.state = snapshot'.state]
      BY <2>1, <3>3, Unamended DEF StoreTypeOK
    <3>5. succeeded' = succeeded \/ (succeeded' = succeeded \cup {c} /\ snapshot' = copy[c])
      BY <1>6 DEF WriteTransition, WriteState
    <3>6. ASSUME NEW d \in Deciders, pc'[d] \in {"lock", "check"},
                 copy'[d].state = "AWAITING_APPROVAL"
          PROVE  /\ Decidable(snapshot'.state)
                 /\ copy'[d] = [snapshot' EXCEPT !.state = "AWAITING_APPROVAL"]
      <4>1. /\ Decidable(snapshot.state)
            /\ copy[d] = [snapshot EXCEPT !.state = "AWAITING_APPROVAL"]
        BY <2>1, <2>3, <3>6
      <4>2. Overlap
        BY <2>1, <2>3, <2>6, <3>6
      <4>3. Decidable(snapshot'.state)
        BY <2>1, <3>2, <4>2 DEF Decidable
      <4>4. [snapshot' EXCEPT !.state = "AWAITING_APPROVAL"]
                = [snapshot EXCEPT !.state = "AWAITING_APPROVAL"]
        BY <3>4 DEF StoreTypeOK, RunRecords
      <4> QED
        BY <2>1, <4>1, <4>3, <4>4
    <3>7. \A d \in Deciders : d \in succeeded' => snapshot'.state \in Decided
      BY <2>1, <3>2, <3>5
    <3>8. ~Overlap => \A d \in Deciders : d \notin succeeded
      BY <3>2 DEF Decidable, Decided
    <3> QED
      BY <2>4, <3>5, <3>6, <3>7, <3>8
  <2> QED
    BY <2>5, <2>6
<1>7. ASSUME NEW c \in Commands, ReleaseLock(c) PROVE DecisionInv'
  BY <1>7 DEF ReleaseLock, End, NoRun, Release, ReleaseFails
<1>8. CASE CreateState
  <2>1. /\ snapshot = NoRun /\ pc[Runner] = "create"
        /\ UNCHANGED <<copy, succeeded>>
    BY <1>8 DEF CreateState, RunnerInv
  <2>2. \A d \in Deciders : pc'[d] = pc[d]
    BY <1>8 DEF CreateState, Begin, Bail
  <2> QED
    BY <2>1, <2>2 DEF NoRun, Decidable, Decided
<1>9. CASE AddWriterTree
  BY <1>9 DEF AddWriterTree, Begin, Fail, storeVars
<1>10. CASE RecordIntent
  BY <1>10 DEF RecordIntent, Bail, AppendEvent, AppendEventFails, CutAppend
<1>11. CASE StartWriter
  BY <1>11 DEF StartWriter, RequireRecovery, Begin, storeVars
<1>12. CASE WaitForWriter
  BY <1>12 DEF WaitForWriter, RequireRecovery, Begin, storeVars
<1>13. CASE RecordSettlement
  BY <1>13 DEF RecordSettlement, RequireRecovery, Begin, AppendEvent, AppendEventFails,
     CutAppend, storeVars
<1>14. CASE InspectResult
  BY <1>14 DEF InspectResult, Fail, Begin, ResultIsAcceptable, storeVars
<1>15. CASE AddVerifierTree
  BY <1>15 DEF AddVerifierTree, Fail, Begin, storeVars
<1>16. CASE Verify
  BY <1>16 DEF Verify, Fail, Begin, storeVars
<1>17. CASE WriteEvidence
  BY <1>17 DEF WriteEvidence, Bail, storeVars
<1>18. CASE PublishPacket
  BY <1>18 DEF PublishPacket, Begin, storeVars
<1>19. CASE RemoveVerifierTree
  BY <1>19 DEF RemoveVerifierTree, storeVars
<1>20. CASE CheckWriterTree \/ RecheckWriterTree \/ DeleteWriterTree
  BY <1>20 DEF CheckWriterTree, RecheckWriterTree, DeleteWriterTree, storeVars
<1>21. CASE FinishUnwind
  BY <1>21 DEF FinishUnwind, storeVars
<1>22. ASSUME NEW d \in Deciders, ReadRun(d) PROVE DecisionInv'
  <2>1. UNCHANGED <<snapshot, succeeded>> /\ pc[d] = "read"
        /\ pc'[d] \in {"lock", "returned"}
        /\ \A x \in Commands \ {d} : pc'[x] = pc[x] /\ copy'[x] = copy[x]
    BY <1>22 DEF ReadRun, End, storeVars
  <2>2. pc'[d] = "lock" => copy'[d] = snapshot
    BY <1>22 DEF ReadRun, End
  <2>3. \A x \in Deciders : Active(x)' => Active(x)
    BY <2>1
  <2>4. snapshot \in RunRecords /\ snapshot = [snapshot EXCEPT !.state = snapshot.state]
    BY Unamended DEF StoreTypeOK
  <2>5. ASSUME NEW x \in Deciders, pc'[x] \in {"lock", "check"},
               copy'[x].state = "AWAITING_APPROVAL"
        PROVE  /\ Decidable(snapshot.state)
               /\ copy'[x] = [snapshot EXCEPT !.state = "AWAITING_APPROVAL"]
    <3>1. CASE x = d
      BY <2>1, <2>2, <2>4, <2>5, <3>1 DEF Decidable
    <3>2. CASE x # d
      BY <2>1, <2>5, <3>2
    <3> QED
      BY <3>1, <3>2
  <2> QED
    BY <2>1, <2>3, <2>5
<1>23. ASSUME NEW d \in Deciders, CheckApproval(d) PROVE DecisionInv'
  BY <1>23 DEF CheckApproval, Bail, Begin, storeVars
<1>24. ASSUME NEW c \in Commands, Crash(c) PROVE DecisionInv'
  BY <1>24 DEF Crash, End, NoRun, storeVars, CutAppend
<1>25. CASE WriterWorks \/ WriterExits
  BY <1>25 DEF WriterWorks, WriterExits, storeVars
<1>26. CASE UNCHANGED vars
  BY <1>26 DEF vars, storeVars
<1> QED
  BY <1>1, <1>2, <1>3, <1>4, <1>5, <1>6, <1>7, <1>8, <1>9, <1>10,
     <1>11, <1>12, <1>13, <1>14, <1>15, <1>16, <1>17, <1>18, <1>19, <1>20,
     <1>21, <1>22, <1>23, <1>24, <1>25, <1>26 DEF Next, Shared, RunStep, DecideStep,
     Finished, Commands

-----------------------------------------------------------------------------
(* The theorems *)

RecordContext == WholeInv /\ LockInv /\ RecordInv

LEMMA RecordContextInit == Init => RecordContext
<1>1. Init => LockInv
  BY DEF Init, LockInv, Critical, Commands
<1> QED
  BY <1>1, WholeInit, RecordInit DEF RecordContext

LEMMA RecordContextStep ==
    RecordContext /\ SoundInv /\ [Next]_vars => RecordContext' /\ SoundInv'
BY WholeStep, LockStep, RunnerStep, TransitionStep, DecisionStep
   DEF RecordContext, RecordInv, Context, WholeInv

\* Who changes the record on disk.
LEMMA RecordWriters ==
    ASSUME [Next]_vars, snapshot' # snapshot
    PROVE  CreateState \/ \E c \in Commands : WriteTransition(c)
BY Frames DEF StoreStep, storeVars, RecordIntent, RecordSettlement, TakeLock,
   AppendTransition, TransitionFails, ReleaseLock, Crash, AppendEvent, AppendEventFails, CutAppend,
   AcquireLock, AcquireLockFails, Release, ReleaseFails

\* Every change of the record on disk is a move of the contract.
LEMMA SnapshotMoves ==
    ASSUME RecordContext, [Next]_vars, snapshot' # snapshot
    PROVE  \/ snapshot = NoRun /\ snapshot' = NewRun
           \/ \E e \in Events : /\ <<Origin(snapshot, e), e, snapshot'.state>> \in Moves
                                /\ Due(snapshot, e)
                                /\ Amended(snapshot, e, snapshot')
<1> USE DEF RecordContext, RecordInv
<1>1. CASE CreateState
  BY <1>1 DEF CreateState, WriteState, WriteStateFails, RunnerInv
<1>2. ASSUME NEW c \in Commands, WriteTransition(c)
      PROVE  \E e \in Events : /\ <<Origin(snapshot, e), e, snapshot'.state>> \in Moves
                               /\ Due(snapshot, e)
                               /\ Amended(snapshot, e, snapshot')
  <2>1. pc[c] = "write" /\ snapshot' = copy[c]
    BY <1>2 DEF WriteTransition, WriteState, WriteStateFails
  <2> QED
    BY <2>1, MoveTargets DEF TransitionInv
<1> QED
  BY <1>1, <1>2, RecordWriters

\* The contract has the transition table of the engine.
LEMMA SameTable ==
    /\ Contract!Moves = Moves /\ Contract!RunStates = RunStates
    /\ Contract!Terminal = Terminal /\ Contract!Decided = Decided
<1>1. /\ Contract!RunStates = RunStates /\ Contract!Terminal = Terminal
      /\ Contract!Events = Events /\ Contract!transitions = transitions
      /\ Contract!interrupts = interrupts /\ Contract!Decided = Decided
  BY DEF Contract!Decided, Decided, Contract!RunStates, RunStates, Contract!Terminal, Terminal, Contract!Events,
     Events,
     Contract!transitions, transitions, Contract!interrupts, interrupts
<1> QED
  BY <1>1 DEF Contract!Moves, Moves

LEMMA MovesAreContract ==
    ASSUME NEW e \in Events, <<Origin(snapshot, e), e, snapshot'.state>> \in Moves,
           Due(snapshot, e), Amended(snapshot, e, snapshot')
    PROVE  Contract!Next
<1> USE DEF Due, Origin, Amended, Contract!Next, DecisionEvents
<1>1. snapshot'.state \in RunStates
  BY MoveTargets
<1>2. CASE e \in {"preparation_started", "implementation_started", "failed"}
  <2>1. Contract!Advance
    BY <1>1, <1>2, SameTable DEF Contract!Advance, Contract!Working
  <2> QED
    BY <2>1
<1>3. CASE e = "implementation_finished"
  <2>1. Contract!FinishImplementation
    BY <1>3, MoveTargets DEF Contract!FinishImplementation
  <2> QED
    BY <2>1
<1>4. CASE e = "verification_finished"
  <2>1. Contract!FinishVerification
    BY <1>4, MoveTargets DEF Contract!FinishVerification
  <2> QED
    BY <2>1
<1>5. CASE e = "write_ambiguous"
  <2>1. Contract!LoseWriter
    BY <1>5, MoveTargets DEF Contract!LoseWriter
  <2> QED
    BY <2>1
<1>6. CASE e \in DecisionEvents
  <2>1. Contract!Decide
    BY <1>6, MoveTargets DEF Contract!Decide, Contract!Decided, Decided, Decidable
  <2> QED
    BY <2>1
<1> QED
  BY <1>2, <1>3, <1>4, <1>5, <1>6 DEF Events, DecisionEvents

\* What changes the record on disk is a step of the contract.
LEMMA ContractStep ==
    ASSUME RecordContext, [Next]_vars PROVE [Contract!Next]_snapshot
<1> SUFFICES ASSUME snapshot' # snapshot PROVE Contract!Next
    OBVIOUS
<1>1. CASE snapshot = NoRun /\ snapshot' = NewRun
  BY <1>1 DEF Contract!Next, Contract!Create, NewRun
<1> QED
  BY <1>1, SnapshotMoves, MovesAreContract

\* The engine implements the contract of a run, whatever crashes, whatever fails
\* and however many decide commands overlap.
THEOREM EngineImplementsContract == Spec => RefinesContract
<1>1. Init => Contract!Init
  BY DEF Init, Contract!Init
<1>2. RecordContext /\ [Next]_vars => [Contract!Next]_snapshot
  BY ContractStep
<1>3. RecordContext /\ SoundInv /\ [Next]_vars => RecordContext' /\ SoundInv'
  BY RecordContextStep
<1> QED
  BY RecordContextInit, SoundInit, <1>1, <1>2, <1>3, PTL DEF Spec, RefinesContract,
     Contract!Spec

-----------------------------------------------------------------------------
(* What the contract says of the record *)

\* No step of the contract leaves a terminal state but a decision that overlaps
\* an earlier one.
LEMMA ContractEnds ==
    ASSUME StoreTypeOK, Contract!Next, snapshot.state \in Terminal, snapshot' # snapshot
    PROVE  /\ Overlap /\ snapshot.state \in Decided /\ snapshot'.state \in Decided
           /\ snapshot' = [snapshot EXCEPT !.state = snapshot'.state]
<1> USE DEF Terminal
<1>1. snapshot.state \notin Contract!Working
  BY DEF Contract!Working
<1>2. ~Contract!Create
  BY DEF Contract!Create, NoRun
<1>3. ~(Contract!FinishImplementation \/ Contract!FinishVerification \/ Contract!LoseWriter)
  BY DEF Contract!FinishImplementation, Contract!FinishVerification, Contract!LoseWriter
<1>4. Contract!Decide
  BY <1>1, <1>2, <1>3 DEF Contract!Next, Contract!Advance
<1>5. PICK next \in Decided : snapshot' = [snapshot EXCEPT !.state = next]
  BY <1>4, SameTable DEF Contract!Decide
<1>6. snapshot'.state = next
  BY <1>5 DEF StoreTypeOK, RunRecords
<1> QED
  BY <1>4, <1>5, <1>6, SameTable DEF Contract!Decide

\* A record with a packet awaits the decision or is decided.
PacketInv == snapshot.packet # NoPacket => snapshot.state \in Decided \cup {"AWAITING_APPROVAL"}

\* From then on the contract changes its state alone.
LEMMA ContractFreezes ==
    ASSUME StoreTypeOK, PacketInv, [Contract!Next]_snapshot
    PROVE  /\ PacketInv'
           /\ snapshot.packet # NoPacket =>
                snapshot' = [snapshot EXCEPT !.state = snapshot'.state]
<1> USE DEF StoreTypeOK, RunRecords
<1>1. CASE UNCHANGED snapshot
  BY <1>1 DEF PacketInv
<1>2. CASE Contract!Create
  BY <1>2 DEF Contract!Create, PacketInv, NoRun
<1>3. CASE Contract!Advance
  <2>1. snapshot.packet = NoPacket
    BY <1>3 DEF Contract!Advance, Contract!Working, PacketInv, Decided
  <2>2. snapshot'.packet = snapshot.packet
    BY <1>3 DEF Contract!Advance
  <2> QED
    BY <2>1, <2>2 DEF PacketInv
<1>4. CASE \/ Contract!FinishImplementation \/ Contract!FinishVerification
           \/ Contract!LoseWriter
  BY <1>4 DEF Contract!FinishImplementation, Contract!FinishVerification,
     Contract!LoseWriter, PacketInv, Decided
<1>5. CASE Contract!Decide
  BY <1>5, SameTable DEF Contract!Decide, PacketInv
<1> QED
  BY <1>1, <1>2, <1>3, <1>4, <1>5 DEF Contract!Next

LEMMA PacketStep == RecordContext /\ PacketInv /\ [Next]_vars => PacketInv'
BY ContractStep, ContractFreezes DEF RecordContext, WholeInv, TypeInv, TypeOK

\* A terminal state is final as long as decides do not overlap: their overlap
\* is the only way to leave one.
THEOREM TerminalStays == ASSUME ~Overlap PROVE Spec => TerminalIsFinal
<1>1. RecordContext /\ [Next]_vars => [snapshot.state \in Terminal => snapshot' = snapshot]_snapshot
  <2>1. RecordContext => StoreTypeOK
    BY DEF RecordContext, WholeInv, TypeInv, TypeOK
  <2> QED
    BY <2>1, ContractStep, ContractEnds
<1>2. RecordContext /\ SoundInv /\ [Next]_vars => RecordContext' /\ SoundInv'
  BY RecordContextStep
<1> QED
  BY RecordContextInit, SoundInit, <1>1, <1>2, PTL DEF Spec, TerminalIsFinal

\* Whoever decides, and whatever fails or overlaps, the packet, its result and
\* the evidence stay what they were when the packet was published.
THEOREM PublishedStays == Spec => PublishedIsFrozen
<1>1. Init => PacketInv
  BY DEF Init, PacketInv, NoRun
<1>2. RecordContext /\ PacketInv /\ [Next]_vars =>
        /\ PacketInv'
        /\ [snapshot.packet # NoPacket =>
                /\ snapshot'.packet = snapshot.packet
                /\ snapshot'.result = snapshot.result
                /\ evidence' = evidence]_<<snapshot, evidence>>
  <2> SUFFICES ASSUME RecordContext, PacketInv, [Next]_vars
               PROVE  /\ PacketInv'
                      /\ snapshot.packet # NoPacket =>
                            /\ snapshot'.packet = snapshot.packet
                            /\ snapshot'.result = snapshot.result
                            /\ evidence' = evidence
      OBVIOUS
  <2>1. StoreTypeOK
    BY DEF RecordContext, WholeInv, TypeInv, TypeOK
  <2>2. PacketInv' /\ (snapshot.packet # NoPacket =>
                            snapshot' = [snapshot EXCEPT !.state = snapshot'.state])
    BY <2>1, ContractStep, ContractFreezes
  <2>3. evidence' # evidence => WriteEvidence
    BY Frames DEF WorkStep, workVars, AddWriterTree, StartWriter, AddVerifierTree,
       RemoveVerifierTree, DeleteWriterTree, WriterWorks, WriterExits
  <2>4. WriteEvidence => snapshot.state = "VERIFYING"
    BY DEF WriteEvidence, RecordContext, RecordInv, RunnerInv, Verifying
  <2> QED
    BY <2>1, <2>2, <2>3, <2>4 DEF PacketInv, Decided, StoreTypeOK, RunRecords
<1>3. RecordContext /\ SoundInv /\ [Next]_vars => RecordContext' /\ SoundInv'
  BY RecordContextStep
<1> QED
  BY RecordContextInit, SoundInit, <1>1, <1>2, <1>3, PTL DEF Spec, PublishedIsFrozen

\* A packet is decided once at most as long as decides do not overlap.
THEOREM OneDecision == ASSUME ~Overlap PROVE Spec => []AtMostOneDecisionSucceeds
<1>1. RecordContext => AtMostOneDecisionSucceeds
  <2> SUFFICES ASSUME RecordContext PROVE Cardinality(succeeded \cap Deciders) <= 1
      BY DEF AtMostOneDecisionSucceeds
  <2>1. \A c, d \in succeeded \cap Deciders : c = d
    BY DEF RecordContext, RecordInv, DecisionInv
  <2>2. CASE succeeded \cap Deciders = {}
    BY <2>2, FS_EmptySet
  <2>3. ASSUME NEW d \in succeeded \cap Deciders
        PROVE  Cardinality(succeeded \cap Deciders) <= 1
    <3>1. succeeded \cap Deciders = {d}
      BY <2>1, <2>3
    <3> QED
      BY <3>1, FS_Singleton
  <2> QED
    BY <2>2, <2>3
<1>2. RecordContext /\ SoundInv /\ [Next]_vars => RecordContext' /\ SoundInv'
  BY RecordContextStep
<1> QED
  BY RecordContextInit, SoundInit, <1>1, <1>2, PTL DEF Spec

-----------------------------------------------------------------------------
(* What the commands leave behind *)

\* What the other steps do to a command within its transition.
LEMMA WriteFrame ==
    ASSUME TypeInv, [Next]_vars
    PROVE  /\ \A c \in Commands : pc'[c] = "write" =>
                \/ pc[c] = "write" /\ copy'[c] = copy[c] /\ event'[c] = event[c]
                \/ AppendTransition(c)
           /\ \A c \in Commands : pc[c] = "write" =>
                pc'[c] = "write" \/ WriteTransition(c) \/ Crash(c)
           /\ \A c \in Commands : pc[c] = "crashed" => pc'[c] = "crashed"
<1> USE EngineAssumption DEF TypeInv, TypeOK, ControlTypeOK, Commands, Goto
<1> DEFINE Goal == /\ \A c \in Commands : pc'[c] = "write" =>
                        \/ pc[c] = "write" /\ copy'[c] = copy[c] /\ event'[c] = event[c]
                        \/ AppendTransition(c)
                   /\ \A c \in Commands : pc[c] = "write" =>
                        pc'[c] = "write" \/ WriteTransition(c) \/ Crash(c)
                   /\ \A c \in Commands : pc[c] = "crashed" => pc'[c] = "crashed"
<1>1. CASE BeginRun \/ CreateState \/ AddWriterTree \/ RecordIntent \/ StartWriter
  BY <1>1 DEF BeginRun, CreateState, AddWriterTree, RecordIntent, StartWriter,
     Begin, Bail, End, Fail, RequireRecovery
<1>2. CASE WaitForWriter \/ RecordSettlement \/ InspectResult \/ AddVerifierTree \/ Verify
  BY <1>2 DEF WaitForWriter, RecordSettlement, InspectResult, AddVerifierTree, Verify,
     Begin, Fail, RequireRecovery
<1>3. CASE \/ WriteEvidence \/ PublishPacket \/ RemoveVerifierTree
           \/ CheckWriterTree \/ RecheckWriterTree \/ DeleteWriterTree \/ FinishUnwind
  BY <1>3 DEF WriteEvidence, PublishPacket, RemoveVerifierTree, CheckWriterTree, RecheckWriterTree,
     DeleteWriterTree, FinishUnwind, Begin, Bail, runnerVars
<1>4. ASSUME NEW d \in Deciders, BeginDecide(d) \/ ReadRun(d) \/ CheckApproval(d)
      PROVE  Goal
  BY <1>4 DEF BeginDecide, ReadRun, CheckApproval, Begin, Bail, End
<1>5. ASSUME NEW b \in Commands,
             \/ TakeLock(b) \/ AppendTransition(b) \/ TransitionFails(b)
             \/ WriteTransition(b) \/ ReleaseLock(b) \/ Crash(b)
      PROVE  Goal
  <2>1. pc[b] # "crashed" /\ pc' = [pc EXCEPT ![b] = pc'[b]]
    BY <1>5 DEF TakeLock, AppendTransition, TransitionFails, WriteTransition,
       ReleaseLock, Crash, Bail, End, Ended
  <2>2. \A c \in Commands \ {b} : copy'[c] = copy[c] /\ event'[c] = event[c]
    BY <1>5 DEF TakeLock, AppendTransition, TransitionFails, WriteTransition,
       ReleaseLock, Crash, Bail, End
  <2>3. pc'[b] = "write" => AppendTransition(b)
    BY <1>5 DEF TakeLock, TransitionFails, WriteTransition, ReleaseLock, Crash, Bail,
       End, After
  <2>4. pc[b] = "write" => WriteTransition(b) \/ Crash(b)
    BY <1>5 DEF TakeLock, AppendTransition, TransitionFails, ReleaseLock
  <2> QED
    BY <2>1, <2>2, <2>3, <2>4
<1>6. CASE WriterWorks \/ WriterExits \/ UNCHANGED vars
  BY <1>6 DEF WriterWorks, WriterExits, vars
<1> QED
  BY <1>1, <1>2, <1>3, <1>4, <1>5, <1>6 DEF Next, Shared, RunStep, DecideStep, Finished

\* The decision of d, made or in the middle of its transition: its event was
\* appended, and it is about the packet on disk.
Granted(d) ==
    /\ approval[d].decision \in Decisions
    /\ approval[d].packet # NoPacket
    /\ snapshot.packet = approval[d].packet
    /\ Recorded(EventOf[approval[d].decision])

\* The state on disk is the one that the decision of d leads to.
Kept(d) == <<"AWAITING_APPROVAL", EventOf[approval[d].decision], snapshot.state>> \in Moves

\* The part of a command's success that its transition establishes.
SuccessInv ==
    /\ Runner \in succeeded => snapshot.packet # NoPacket
    /\ \A d \in Deciders :
        /\ pc[d] = "write" => Granted(d) /\ event[d] = EventOf[approval[d].decision]
        /\ d \in succeeded => Granted(d)
        /\ d \in succeeded /\ ~Overlap => Kept(d)

LEMMA SuccessInit == Init => SuccessInv
BY DEF Init, SuccessInv, Commands

LEMMA GrantedLasts ==
    ASSUME Lasting, StoreTypeOK, PacketInv, [Contract!Next]_snapshot,
           NEW d \in Deciders, Granted(d)
    PROVE  Granted(d)' /\ approval'[d] = approval[d]
<1>1. snapshot.packet # NoPacket
  BY DEF Granted
<1>2. snapshot'.packet = snapshot.packet
  BY <1>1, ContractFreezes DEF StoreTypeOK, RunRecords
<1>3. approval'[d] = approval[d]
  BY DEF Granted, Lasting, Decisions
<1>4. Recorded(EventOf[approval[d].decision])'
  <2>1. PICK e \in Events : e = EventOf[approval[d].decision] /\ e = EventOf[approval'[d].decision]
    BY <1>3, EventsOfDecisions DEF Granted
  <2>2. Logged(e) \/ ~Readable
    BY <2>1 DEF Granted, Recorded
  <2>3. Logged(e)' \/ ~Readable'
    BY <2>2 DEF Lasting
  <2> QED
    BY <2>1, <2>3 DEF Recorded, Logged
<1> QED
  BY <1>1, <1>2, <1>3, <1>4 DEF Granted

\* A command succeeds by writing the state of its last transition.
LEMMA SuccessFrame ==
    ASSUME TypeInv, PhaseInv, RecordInv, [Next]_vars, NEW c \in Commands,
           c \in succeeded', c \notin succeeded
    PROVE  /\ pc[c] = "write" /\ snapshot' = copy[c]
           /\ c = Runner => copy[c].state = "AWAITING_APPROVAL"
           /\ c \in Deciders => event[c] \in DecisionEvents
<1>1. WriteTransition(c)
  BY Frames DEF HistoryStep, WaitForWriter, WriteTransition, BeginDecide, CheckApproval
<1>2. /\ pc[c] = "write" /\ snapshot' = copy[c]
      /\ event[c] \in DecisionEvents \cup {"verification_finished"}
  BY <1>1 DEF WriteTransition, WriteState
<1>3. <<Origin(snapshot, event[c]), event[c], copy[c].state>> \in Moves
  BY <1>2 DEF RecordInv, TransitionInv
<1>4. CASE c = Runner
  <2>1. event[c] = "verification_finished"
    BY <1>2, <1>4 DEF PhaseInv
  <2> QED
    BY <1>2, <1>3, <1>4, <2>1, MoveTargets, EngineAssumption
<1>5. CASE c \in Deciders
  BY <1>2, <1>5, EngineAssumption DEF PhaseInv, DecisionEvents
<1> QED
  BY <1>4, <1>5 DEF Commands

LEMMA SuccessStep ==
    RecordContext /\ SoundInv' /\ PacketInv /\ SuccessInv /\ [Next]_vars => SuccessInv'
<1> SUFFICES ASSUME RecordContext, SoundInv', PacketInv, SuccessInv, [Next]_vars
             PROVE  SuccessInv'
    OBVIOUS
<1> USE DEF RecordContext, WholeInv
<1>1. Lasting /\ StoreTypeOK /\ [Contract!Next]_snapshot
  BY LastingStep, ContractStep DEF TypeInv, TypeOK
<1>2. ASSUME Runner \in succeeded' PROVE snapshot'.packet # NoPacket
  <2>1. CASE Runner \in succeeded
    BY <1>1, <2>1, ContractFreezes DEF SuccessInv, StoreTypeOK, RunRecords
  <2>2. CASE Runner \notin succeeded
    <3>1. snapshot'.state = "AWAITING_APPROVAL"
      BY <1>2, <2>2, SuccessFrame DEF Commands
    <3> QED
      BY <3>1, StateNames DEF SoundInv, Sound
  <2> QED
    BY <2>1, <2>2
<1>3. ASSUME NEW d \in Deciders, pc'[d] = "write"
      PROVE  Granted(d)' /\ event'[d] = EventOf[approval'[d].decision]
  <2>1. CASE pc[d] = "write" /\ event'[d] = event[d]
    <3>1. Granted(d)' /\ approval'[d] = approval[d]
      BY <1>1, <2>1, GrantedLasts DEF SuccessInv
    <3> QED
      BY <2>1, <3>1 DEF SuccessInv
  <2>2. CASE AppendTransition(d)
    <3>1. PICK next \in RunStates : <<copy[d].state, event[d], next>> \in Moves
      BY <2>2 DEF AppendTransition
    <3>2. pc[d] = "append" /\ AppendEvent(event[d]) /\ UNCHANGED <<snapshot, event, approval>>
      BY <2>2 DEF AppendTransition, AppendEvent
    <3>3. event[d] \in DecisionEvents /\ event[d] \in Events
      BY <3>1, MoveTargets DEF PhaseInv, Events
    <3>4. Warranted(d)
      BY <3>2 DEF GateInv, Commands
    <3>5. copy[d].packet = snapshot.packet
      <4>1. copy[d] = [snapshot EXCEPT !.state = copy[d].state]
        BY <3>2, <3>3 DEF RecordInv, TransitionInv, Amended, DecisionEvents, Commands
      <4> QED
        BY <1>1, <4>1 DEF StoreTypeOK, RunRecords
    <3>6. Recorded(event[d])'
      <4>1. CASE tail = "whole"
        BY <1>1, <3>2, <3>3, <4>1, AppendIsLogged DEF AppendEvent, Recorded, StoreTypeOK,
           Logged
      <4>2. CASE tail # "whole"
        BY <3>2, <4>2 DEF AppendEvent, Recorded, Readable
      <4> QED
        BY <4>1, <4>2
    <3> QED
      BY <3>2, <3>3, <3>4, <3>5, <3>6 DEF Warranted, Granted, Recorded, Logged, Readable
  <2> QED
    BY <1>3, <2>1, <2>2, WriteFrame DEF Commands
<1>4. ASSUME NEW d \in Deciders, d \in succeeded'
      PROVE  Granted(d)' /\ (~Overlap => Kept(d)')
  <2>1. CASE d \in succeeded
    <3>1. Granted(d)' /\ approval'[d] = approval[d]
      BY <1>1, <2>1, GrantedLasts DEF SuccessInv
    <3>2. ~Overlap => snapshot' = snapshot
      <4> SUFFICES ASSUME ~Overlap, snapshot' # snapshot PROVE FALSE
          OBVIOUS
      <4>1. snapshot.state \in Decided
        BY <2>1 DEF RecordInv, DecisionInv
      <4>2. snapshot # NoRun
        BY <4>1 DEF NoRun, Decided
      <4>3. PICK e \in Events : Due(snapshot, e)
        BY <4>2, SnapshotMoves
      <4> QED
        BY <4>1, <4>3 DEF Due, Decidable, Decided, Events, DecisionEvents
    <3> QED
      BY <2>1, <3>1, <3>2 DEF SuccessInv, Kept
  <2>2. CASE d \notin succeeded
    <3>1. pc[d] = "write" /\ snapshot' = copy[d] /\ event[d] \in DecisionEvents
      BY <1>4, <2>2, SuccessFrame DEF Commands
    <3>2. Granted(d) /\ event[d] = EventOf[approval[d].decision]
      BY <3>1 DEF SuccessInv
    <3>3. Granted(d)' /\ approval'[d] = approval[d]
      BY <1>1, <3>2, GrantedLasts
    <3>4. <<"AWAITING_APPROVAL", event[d], copy[d].state>> \in Moves
      BY <3>1 DEF RecordInv, TransitionInv, Origin, Commands
    <3> QED
      BY <3>1, <3>2, <3>3, <3>4 DEF Kept
  <2> QED
    BY <2>1, <2>2
<1> QED
  BY <1>2, <1>3, <1>4 DEF SuccessInv

\* What an exit status of zero stands for is on disk, whatever crashes, fails or
\* overlaps: a packet after `orch run`, and after `orch decide` a decided run with
\* the packet of that human, whose decision was appended to the log.  Another
\* decision may replace its state when decide commands overlap.
THEOREM SuccessHolds == Spec => []SuccessIsOnDisk
<1>1. RecordContext /\ SoundInv /\ SuccessInv => SuccessIsOnDisk
  BY DEF RecordContext, RecordInv, DecisionInv, SoundInv, Sound, SuccessInv, Granted,
     SuccessIsOnDisk
<1>2. Init => PacketInv
  BY DEF Init, PacketInv, NoRun
<1>3. RecordContext /\ SoundInv /\ PacketInv /\ SuccessInv /\ [Next]_vars =>
        RecordContext' /\ SoundInv' /\ PacketInv' /\ SuccessInv'
  BY RecordContextStep, PacketStep, SuccessStep
<1> QED
  BY RecordContextInit, SoundInit, SuccessInit, <1>1, <1>2, <1>3, PTL DEF Spec

\* A decision that was reported as made is never replaced as long as decides do
\* not overlap.
THEOREM DecisionKept == ASSUME ~Overlap PROVE Spec => []DecisionIsKept
<1>1. SuccessInv /\ AtMostOneDecisionSucceeds => DecisionIsKept
  BY DEF SuccessInv, Kept, DecisionIsKept
<1>2. Init => PacketInv
  BY DEF Init, PacketInv, NoRun
<1>3. RecordContext /\ SoundInv /\ PacketInv /\ SuccessInv /\ [Next]_vars =>
        RecordContext' /\ SoundInv' /\ PacketInv' /\ SuccessInv'
  BY RecordContextStep, PacketStep, SuccessStep
<1> QED
  BY RecordContextInit, SoundInit, SuccessInit, OneDecision, <1>1, <1>2, <1>3, PTL DEF Spec
=============================================================================
