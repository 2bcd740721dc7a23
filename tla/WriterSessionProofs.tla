------------------------- MODULE WriterSessionProofs -------------------------
(* Theorems about the session of a writer, for any number of descendants.   *)
EXTENDS WriterSession, TLAPS

Lemmas == INSTANCE ProcessRunnerProofs

\* Every step of the session is a step of process.Run or leaves it alone.
LEMMA ProcessSteps == [Next]_vars => [Process!Next]_(Process!vars)
<1> SUFFICES ASSUME [Next]_vars PROVE [Process!Next]_(Process!vars)
    OBVIOUS
<1> USE DEF Process!vars, Process!procVars
<1>1. CASE RunProcess
  BY <1>1 DEF RunProcess, Process!Next
<1>2. CASE ProcessesStep
  BY <1>2 DEF ProcessesStep, Process!Next
<1>3. CASE DeadlinePasses
  BY <1>3 DEF DeadlinePasses, Process!Next, Process!Expire
<1>4. CASE Cancel
  BY <1>4 DEF Cancel, Process!Next, Process!Expire
<1>5. CASE UNCHANGED procVars
  BY <1>5 DEF procVars
<1>6. \/ StartStep \/ SessionStep \/ Wait \/ DrainEvents \/ HostExits \/ WriteMessage
      \/ Finished
      => UNCHANGED procVars
  BY DEF StartStep, SessionStep, Wait, DrainEvents, HostExits, WriteMessage, Finished,
     vars, procVars
<1> QED
  BY <1>1, <1>2, <1>3, <1>4, <1>5, <1>6 DEF Next, vars, procVars

\* The session executes process.Run: what holds of ProcessRunner holds of it.
THEOREM RunsProcess == Spec => Process!Spec
<1>1. Init => Process!Init
  BY DEF Init
<1> QED
  BY <1>1, ProcessSteps, PTL DEF Spec, Process!Spec

LEMMA SameSteps == [Process!Next]_(Process!vars) <=> [Lemmas!Next]_(Lemmas!vars)
BY DEF Process!Next, Lemmas!Next, Process!vars, Lemmas!vars, Process!procVars,
     Lemmas!procVars, Process!Procs, Lemmas!Procs, Process!RunStep, Lemmas!RunStep,
     Process!ProcessStep, Lemmas!ProcessStep, Process!WaitReturns,
     Lemmas!WaitReturns, Process!Expire, Lemmas!Expire, Process!Finished,
     Lemmas!Finished, Process!Start, Lemmas!Start, Process!TakeResult,
     Lemmas!TakeResult, Process!KillGroup, Lemmas!KillGroup, Process!Drain,
     Lemmas!Drain, Process!Collect, Lemmas!Collect, Process!Return, Lemmas!Return,
     Process!Reachable, Lemmas!Reachable, Process!Fork, Lemmas!Fork,
     Process!LeaveGroup, Lemmas!LeaveGroup, Process!CloseOutput, Lemmas!CloseOutput,
     Process!Exit, Lemmas!Exit

LEMMA SameInit == Process!Init <=> Lemmas!Init
BY DEF Process!Init, Lemmas!Init, Process!Procs, Lemmas!Procs

\* What was proved of ProcessRunner carries over to the session.
ProcessFacts ==
    /\ Lemmas!TypeOK
    /\ Lemmas!OutputIsComplete
    /\ Lemmas!SuccessIsOwn
    /\ Lemmas!LeaderRuns
    /\ Lemmas!LeaderGone

LEMMA ProcessFactsHold == Spec => []ProcessFacts
<1>1. Lemmas!ProcessAssumption
  BY SessionAssumption DEF Lemmas!ProcessAssumption, Lemmas!Procs
<1>2. Lemmas!Spec => []ProcessFacts
  BY <1>1, Lemmas!TypeCorrect, Lemmas!OutputComplete, Lemmas!SuccessIsTheLeaders,
     Lemmas!LeaderIsGone, PTL DEF ProcessFacts
<1> QED
  BY <1>2, SameInit, SameSteps, RunsProcess, PTL DEF Process!Spec, Lemmas!Spec

\* The hand-overs: process.Run has succeeded before session.run goes on to the
\* result, the result is set before the channel is closed, and Wait reads it
\* only then.
HandOverInv ==
    /\ result \in {"unset", "ok", "error"}
    /\ outcome = "ok" => pc = "returned"
    /\ stage \in {"read", "head", "emit", "settle"} \/ result = "ok" => outcome = "ok"
    /\ result # "unset" <=> stage \in {"closeDone", "closeEvents", "remove", "over"}
    /\ answer # "unset"
    /\ answer \in {"ok", "error"} => result = answer
    /\ answer = "start_error" => stage = "refused"

LEMMA HandOverHolds == Spec => []HandOverInv
<1> USE DEF HandOverInv
<1>1. Init => HandOverInv
  BY DEF Init, Process!Init
<1>2. HandOverInv /\ [Next]_vars => HandOverInv'
  <2> SUFFICES ASSUME HandOverInv, [Next]_vars PROVE HandOverInv'
      OBVIOUS
  <2>1. CASE RunProcess
    BY <2>1 DEF RunProcess, sessionVars, Process!RunStep, Process!WaitReturns,
       Process!Start, Process!TakeResult, Process!KillGroup, Process!Drain,
       Process!Collect, Process!Return, Process!procVars
  <2>2. CASE SessionStep
    BY <2>2 DEF SessionStep, ProcessReturned, ReadResult, ResolveHead, EmitFinished,
       SetResult, CloseChannels, RemoveMessage, SetError, procVars
  <2>3. CASE Wait
    BY <2>3 DEF Wait, DoneClosed, procVars
  <2>4. CASE ProcessesStep
    BY <2>4 DEF ProcessesStep, sessionVars, Process!ProcessStep, Process!Fork,
       Process!LeaveGroup, Process!CloseOutput, Process!Exit
  <2>5. CASE DrainEvents \/ HostExits
    BY <2>5 DEF DrainEvents, HostExits, procVars
  <2>6. CASE DeadlinePasses \/ Cancel
    BY <2>6 DEF DeadlinePasses, Cancel, sessionVars
  <2>7. CASE StartStep \/ WriteMessage
    BY <2>7 DEF StartStep, CreateMessage, StartSession, RefuseStart, WriteMessage,
       procVars
  <2>8. CASE UNCHANGED vars
    BY <2>8 DEF vars, procVars, sessionVars
  <2> QED
    BY <2>1, <2>2, <2>3, <2>4, <2>5, <2>6, <2>7, <2>8 DEF Next, Finished
<1> QED
  BY <1>1, <1>2, PTL DEF Spec

\* A result that Wait returns is the result of a writer that has exited with 0
\* and whose output nobody can write to any more.
THEOREM WaitHonest == Spec => []WaitIsHonest
<1>1. HandOverInv /\ ProcessFacts => WaitIsHonest
  BY DEF HandOverInv, WaitIsHonest, ProcessFacts, Lemmas!OutputIsComplete,
     Lemmas!SuccessIsOwn
<1> QED
  BY <1>1, HandOverHolds, ProcessFactsHold, PTL

-----------------------------------------------------------------------------
(* The temporary file *)

\* The process does not run before the session does, has returned when the
\* session goes on, and the file is there only in between.
MessageInv ==
    /\ Starting => pc = "start"
    /\ ~Starting /\ stage # "run" => pc = "returned"
    /\ stage = "idle" => message = "none"
    /\ MessageIsRemoved

\* The last message of a writer that can be signalled does not outlive its
\* session on disk.
THEOREM MessageRemoved == Spec => []MessageIsRemoved
<1> USE DEF MessageInv, MessageIsRemoved, Starting
<1>1. Init => MessageInv
  BY DEF Init, Process!Init
<1>2. MessageInv /\ ProcessFacts /\ [Next]_vars => MessageInv'
  <2> SUFFICES ASSUME MessageInv, ProcessFacts, [Next]_vars PROVE MessageInv'
      OBVIOUS
  <2>1. CASE RunProcess
    BY <2>1 DEF RunProcess, sessionVars, Process!RunStep, Process!WaitReturns,
       Process!Start, Process!TakeResult, Process!KillGroup, Process!Drain,
       Process!Collect, Process!Return, Process!procVars
  <2>2. CASE StartStep
    BY <2>2 DEF StartStep, CreateMessage, StartSession, RefuseStart, procVars
  <2>3. CASE SessionStep
    BY <2>3 DEF SessionStep, ProcessReturned, ReadResult, ResolveHead, EmitFinished,
       SetResult, CloseChannels, RemoveMessage, SetError, procVars
  <2>4. CASE WriteMessage
    BY <2>4 DEF WriteMessage, procVars, ProcessFacts, Lemmas!LeaderRuns,
       Lemmas!LeaderGone
  <2>5. CASE ProcessesStep
    BY <2>5 DEF ProcessesStep, sessionVars, Process!ProcessStep, Process!Fork,
       Process!LeaveGroup, Process!CloseOutput, Process!Exit
  <2>6. CASE Wait \/ DrainEvents \/ HostExits
    BY <2>6 DEF Wait, DrainEvents, HostExits, procVars
  <2>7. CASE DeadlinePasses \/ Cancel
    BY <2>7 DEF DeadlinePasses, Cancel, sessionVars
  <2>8. CASE UNCHANGED vars
    BY <2>8 DEF vars, procVars, sessionVars
  <2> QED
    BY <2>1, <2>2, <2>3, <2>4, <2>5, <2>6, <2>7, <2>8 DEF Next, Finished
<1>3. MessageInv => MessageIsRemoved
  OBVIOUS
<1> QED
  BY <1>1, <1>2, <1>3, ProcessFactsHold, PTL DEF Spec

-----------------------------------------------------------------------------
(* The events *)

EventNames == {"session_started", "session_finished"}

Sent(e) == (\E i \in DOMAIN seen : seen[i] = e) \/ (\E i \in DOMAIN events : events[i] = e)

\* TypeOK without the variables of process.Run.
SessionTypeOK ==
    /\ stage \in {"idle", "prompt", "refused", "run", "read", "head", "emit",
                  "settle", "closeDone", "closeEvents", "remove", "over"}
    /\ result \in {"unset", "ok", "error"}
    /\ events \in Seq(EventNames)
    /\ seen \in Seq(EventNames)
    /\ deadline \in BOOLEAN
    /\ answer \in {"pending", "start_error", "context", "ok", "error", "unset"}
    /\ host \in {"up", "exited"}
    /\ message \in {"none", "empty", "written"}

\* The end is announced exactly when a result is about to be set, and the
\* events that were sent are either in the buffer or received.
EventsInv ==
    /\ SessionTypeOK
    /\ Starting => seen = <<>> /\ events = <<>>
    /\ result # "unset" => stage \in {"closeDone", "closeEvents", "remove", "over"}
    /\ Sent("session_finished") <=> stage = "settle" \/ result = "ok"
    /\ Len(seen) + Len(events) <= IF Sent("session_finished") THEN 2 ELSE 1

LEMMA SentTogether ==
    ASSUME seen \in Seq(EventNames), events \in Seq(EventNames)
    PROVE  (\E i \in DOMAIN (seen \o events) : (seen \o events)[i] = "session_finished")
           <=> Sent("session_finished")
<1>1. \A i \in DOMAIN seen : i \in DOMAIN (seen \o events) /\ (seen \o events)[i] = seen[i]
  OBVIOUS
<1>2. \A i \in DOMAIN events : /\ Len(seen) + i \in DOMAIN (seen \o events)
                              /\ (seen \o events)[Len(seen) + i] = events[i]
  OBVIOUS
<1>3. \A i \in DOMAIN (seen \o events) :
        \/ i \in DOMAIN seen
        \/ i - Len(seen) \in DOMAIN events /\ (seen \o events)[i] = events[i - Len(seen)]
  OBVIOUS
<1> QED
  BY <1>1, <1>2, <1>3 DEF Sent

\* Receiving moves an event and loses none.
LEMMA DrainKeeps ==
    ASSUME seen \in Seq(EventNames), events \in Seq(EventNames), events # <<>>,
           seen' = Append(seen, Head(events)), events' = Tail(events)
    PROVE  /\ seen' \in Seq(EventNames) /\ events' \in Seq(EventNames)
           /\ Len(seen') + Len(events') = Len(seen) + Len(events)
           /\ \A e \in EventNames : Sent(e)' <=> Sent(e)
<1>1. Len(seen') = Len(seen) + 1 /\ Len(events') = Len(events) - 1
  OBVIOUS
<1>2. /\ \A i \in DOMAIN seen : seen'[i] = seen[i]
      /\ seen'[Len(seen) + 1] = events[1]
      /\ \A i \in DOMAIN events' : events'[i] = events[i + 1]
  OBVIOUS
<1>3. ASSUME NEW e \in EventNames, Sent(e) PROVE Sent(e)'
  <2>1. CASE \E i \in DOMAIN seen : seen[i] = e
    BY <1>1, <1>2, <2>1 DEF Sent
  <2>2. CASE \E i \in DOMAIN events : events[i] = e
    <3>1. PICK i \in DOMAIN events : events[i] = e
      BY <2>2
    <3>2. CASE i = 1
      BY <1>1, <1>2, <3>1, <3>2 DEF Sent
    <3>3. CASE i # 1
      <4>1. i - 1 \in DOMAIN events' /\ events'[i - 1] = e
        BY <1>1, <1>2, <3>1, <3>3
      <4> QED
        BY <4>1 DEF Sent
    <3> QED
      BY <3>2, <3>3
  <2> QED
    BY <1>3, <2>1, <2>2 DEF Sent
<1>4. ASSUME NEW e \in EventNames, Sent(e)' PROVE Sent(e)
  BY <1>1, <1>2, <1>4 DEF Sent
<1> QED
  BY <1>1, <1>3, <1>4

LEMMA SendAdds ==
    ASSUME seen \in Seq(EventNames), events \in Seq(EventNames),
           NEW e \in EventNames, events' = Append(events, e), UNCHANGED seen
    PROVE  /\ events' \in Seq(EventNames) /\ Len(events') = Len(events) + 1
           /\ Sent(e)'
<1>1. Len(events) + 1 \in DOMAIN events' /\ events'[Len(events) + 1] = e
  OBVIOUS
<1> QED
  BY <1>1 DEF Sent

LEMMA EventsHold == Spec => []EventsInv
<1>1. Init => EventsInv
  <2> SUFFICES ASSUME Init PROVE EventsInv
      OBVIOUS
  <2>1. seen = <<>> /\ events = <<>>
    BY DEF Init
  <2>2. SessionTypeOK
    <3>1. <<>> \in Seq(EventNames)
      OBVIOUS
    <3> QED
      BY <2>1, <3>1 DEF Init, SessionTypeOK
  <2>3. ~Sent("session_finished")
    BY <2>1 DEF Sent
  <2> QED
    BY <2>1, <2>2, <2>3 DEF Init, EventsInv
<1>2. EventsInv /\ [Next]_vars => EventsInv'
  <2> SUFFICES ASSUME EventsInv, [Next]_vars PROVE EventsInv'
      OBVIOUS
  <2> USE DEF EventsInv, SessionTypeOK, Starting
  <2>1. ASSUME UNCHANGED <<seen, events>> PROVE Sent("session_finished")' <=> Sent("session_finished")
    BY <2>1 DEF Sent
  <2>2. CASE CreateMessage /\ StartStep
    BY <2>1, <2>2 DEF StartStep, CreateMessage, RefuseStart
  <2>3. CASE StartSession /\ StartStep
    <3>1. ASSUME events' = <<"session_started">>, seen' = <<>>
          PROVE  /\ events' \in Seq(EventNames) /\ seen' \in Seq(EventNames)
                 /\ ~Sent("session_finished")'
                 /\ Len(seen') + Len(events') = 1
      BY <3>1 DEF Sent, EventNames
    <3>2. CASE RefuseStart
      BY <2>1, <2>3, <3>2 DEF StartStep, StartSession, RefuseStart
    <3>3. CASE ~RefuseStart
      <4>1. /\ events' = <<"session_started">> /\ seen' = <<>>
            /\ stage' = "run" /\ result' = "unset"
            /\ UNCHANGED <<answer, message, deadline, host>>
        BY <2>3, <3>3 DEF StartStep, StartSession
      <4> QED
        BY <3>1, <4>1
    <3> QED
      BY <3>2, <3>3
  <2>4. CASE SessionStep
    <3>1. CASE EmitFinished
      <4>1. /\ events' \in Seq(EventNames) /\ Len(events') = Len(events) + 1
            /\ Sent("session_finished")'
        BY <3>1, SendAdds DEF EmitFinished, EventNames
      <4>2. ~Sent("session_finished")
        BY <3>1 DEF EmitFinished
      <4> QED
        BY <2>4, <3>1, <4>1, <4>2 DEF SessionStep, EmitFinished, ProcessReturned,
           ReadResult, ResolveHead, SetResult, CloseChannels, RemoveMessage
    <3>2. CASE ~EmitFinished
      BY <2>1, <2>4, <3>2 DEF SessionStep, ProcessReturned, ReadResult, ResolveHead,
         SetResult, CloseChannels, RemoveMessage, SetError
    <3> QED
      BY <3>1, <3>2
  <2>5. CASE DrainEvents
    <3>1. /\ seen' \in Seq(EventNames) /\ events' \in Seq(EventNames)
          /\ Len(seen') + Len(events') = Len(seen) + Len(events)
          /\ Sent("session_finished")' <=> Sent("session_finished")
      BY <2>5, DrainKeeps DEF DrainEvents, EventNames
    <3> QED
      BY <2>5, <3>1 DEF DrainEvents
  <2>6. CASE Wait
    BY <2>1, <2>6 DEF Wait
  <2>7. CASE RunProcess \/ ProcessesStep \/ WriteMessage
    BY <2>1, <2>7 DEF RunProcess, ProcessesStep, WriteMessage, sessionVars
  <2>8. CASE DeadlinePasses \/ Cancel \/ HostExits
    BY <2>1, <2>8 DEF DeadlinePasses, Cancel, HostExits, sessionVars
  <2>9. CASE UNCHANGED vars
    BY <2>1, <2>9 DEF vars, sessionVars
  <2> QED
    BY <2>2, <2>3, <2>4, <2>5, <2>6, <2>7, <2>8, <2>9 DEF Next, Finished, StartStep
<1> QED
  BY <1>1, <1>2, PTL DEF Spec

\* Type correctness, with the bound on the events that the buffer relies on.
THEOREM TypeCorrect == Spec => []TypeOK
<1>1. EventsInv /\ ProcessFacts => TypeOK
  BY DEF EventsInv, SessionTypeOK, EventNames, TypeOK, ProcessFacts, Lemmas!TypeOK,
     Process!TypeOK, Lemmas!Procs, Process!Procs
<1> QED
  BY <1>1, EventsHold, ProcessFactsHold, PTL

\* What the events say of the end of a session agrees with what Wait returns,
\* unless Wait gives up at its deadline, and with the result of the session once
\* the channel is closed.
THEOREM FinishAnnounced == Spec => []FinishIsAnnounced
<1>1. EventsInv /\ HandOverInv => FinishIsAnnounced
  <2> SUFFICES ASSUME EventsInv, HandOverInv PROVE FinishIsAnnounced
      OBVIOUS
  <2>1. Announced <=> stage = "settle" \/ result = "ok"
    BY SentTogether DEF EventsInv, SessionTypeOK, Announced
  <2> QED
    BY <2>1 DEF EventsInv, SessionTypeOK, HandOverInv, FinishIsAnnounced, EventsClosed
<1> QED
  BY <1>1, EventsHold, HandOverHolds, PTL
==============================================================================
