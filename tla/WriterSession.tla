---------------------------- MODULE WriterSession ----------------------------
(* The session of a writer: internal/adapters/codex/adapter.go, with the    *)
(* part of engine.Run that waits for it and the end of the `orch run`       *)
(* process around them.                                                     *)
(*                                                                          *)
(* Four goroutines of that process run concurrently: session.run executes   *)
(* the writer with process.Run (ProcessRunner), whose own goroutine is in   *)
(* cmd.Wait; the engine is in Session.Wait; and one drains the events.  The *)
(* host process ends when the engine returns, whatever the others are       *)
(* doing; the writer's processes do not end with it.                        *)
(*                                                                          *)
(* Abstractions: the result is "ok" or "error"; of the content of the last  *)
(* message only whether there is one is left, and it may fail to parse; the *)
(* writer's leader writes it; os.Remove of its file succeeds.               *)
EXTENDS Naturals, Sequences

CONSTANTS Leader, Kids, Privileged, MayEscape

VARIABLES live, unborn, group, holding, status, waited, expired, pc, outcome, timedOut

VARIABLES
    stage,      \* where Start and session.run are
    result,     \* session.outcome: "unset" is the zero value
    events,     \* the buffer of the events channel
    seen,       \* the events that were received
    deadline,   \* ctx.Err() of engine.Run
    answer,     \* what Wait returned
    host,       \* whether the orch process runs
    message     \* the temporary file of the writer's last message

Process == INSTANCE ProcessRunner

ASSUME SessionAssumption ==
    /\ Leader \notin Kids
    /\ Privileged \subseteq {Leader} \cup Kids
    /\ MayEscape \in BOOLEAN

procVars == <<live, unborn, group, holding, status, waited, expired, pc, outcome, timedOut>>
sessionVars == <<stage, result, events, seen, deadline, answer, host, message>>
vars == <<procVars, sessionVars>>

\* Mutant: room for the first event only.
Capacity_One == 1

Capacity == 8

\* The engine is about to call Start.
Init ==
    /\ Process!Init
    /\ stage = "idle"
    /\ result = "unset"
    /\ events = <<>>
    /\ seen = <<>>
    /\ deadline = FALSE
    /\ answer = "pending"
    /\ host = "up"
    /\ message = "none"

-----------------------------------------------------------------------------
(* Start *)

Starting == stage \in {"idle", "prompt", "refused"}

\* Start returns an error, and so does the engine.
RefuseStart == stage' = "refused" /\ answer' = "start_error"

\* The evidence directory, the schema and the temporary file.
CreateMessage ==
    /\ stage = "idle"
    /\ \/ stage' = "prompt" /\ message' = "empty" /\ UNCHANGED answer
       \/ RefuseStart /\ UNCHANGED message
    /\ UNCHANGED events

\* Close and buildPrompt, whose errors remove the file; then the session.
StartSession ==
    /\ stage = "prompt"
    /\ \/ /\ events' = <<"session_started">>
          /\ stage' = "run"
          /\ UNCHANGED <<answer, message>>
       \/ RefuseStart /\ message' = "none" /\ UNCHANGED events

StartStep ==
    /\ host = "up"
    /\ CreateMessage \/ StartSession
    /\ UNCHANGED <<procVars, result, seen, deadline, host>>

-----------------------------------------------------------------------------
(* session.run *)

\* close(s.done) comes before close(s.events).
DoneClosed == stage \in {"closeEvents", "remove", "over"}
EventsClosed == stage \in {"remove", "over"}

\* The process and its goroutine, inside process.Run.
RunProcess ==
    /\ host = "up"
    /\ \/ stage = "run" /\ Process!RunStep
       \/ Process!WaitReturns
    /\ UNCHANGED sessionVars

\* --output-last-message: the file is created if it is not there.
WriteMessage ==
    /\ Leader \in live
    /\ message' = "written"
    /\ UNCHANGED <<procVars, stage, result, events, seen, deadline, answer, host>>

SetError ==
    /\ result' = "error"
    /\ stage' = "closeDone"

\* Mutant: the session ends at the deadline without waiting for the process.
ProcessReturned_AtDeadline ==
    /\ stage = "run"
    /\ IF pc = "returned" /\ outcome = "ok" THEN stage' = "read" /\ UNCHANGED result
       ELSE (pc = "returned" \/ deadline) /\ SetError
    /\ UNCHANGED <<events, seen>>

\* Mutant: the error of process.Run is dropped.
ProcessReturned_ErrorDropped ==
    /\ stage = "run"
    /\ pc = "returned"
    /\ stage' = "read" /\ UNCHANGED result
    /\ UNCHANGED <<events, seen>>

ProcessReturned ==
    /\ stage = "run"
    /\ pc = "returned"
    /\ IF outcome = "ok" THEN stage' = "read" /\ UNCHANGED result ELSE SetError
    /\ UNCHANGED <<events, seen>>

\* Mutant: the end is announced before HEAD has been resolved.
ReadResult_Announcing ==
    /\ stage = "read"
    /\ stage' = "head"
    /\ events' = Append(events, "session_finished")
    /\ UNCHANGED <<result, seen>>

\* ReadFile and ParseStructuredResult
ReadResult ==
    /\ stage = "read"
    /\ \/ message = "written" /\ stage' = "head" /\ UNCHANGED result
       \/ SetError
    /\ UNCHANGED <<events, seen>>

\* workspace.Head fails under an expired context.
ResolveHead ==
    /\ stage = "head"
    /\ \/ expired = "no" /\ stage' = "emit" /\ UNCHANGED result
       \/ SetError
    /\ UNCHANGED <<events, seen>>

\* Mutant: the event may be sent again.
EmitFinished_Again ==
    /\ stage = "emit"
    /\ Len(events) < Capacity
    /\ events' = Append(events, "session_finished")
    /\ UNCHANGED <<stage, result, seen>>

\* The send blocks while the buffer is full.
EmitFinished ==
    /\ stage = "emit"
    /\ Len(events) < Capacity
    /\ events' = Append(events, "session_finished")
    /\ stage' = "settle"
    /\ UNCHANGED <<result, seen>>

SetResult ==
    /\ stage = "settle"
    /\ result' = "ok"
    /\ stage' = "closeDone"
    /\ UNCHANGED <<events, seen>>

\* The deferred calls, last in first out.
CloseChannels ==
    /\ \/ stage = "closeDone" /\ stage' = "closeEvents"
       \/ stage = "closeEvents" /\ stage' = "remove"
    /\ UNCHANGED <<result, events, seen>>

RemoveMessage ==
    /\ stage = "remove"
    /\ message' = "none"
    /\ stage' = "over"
    /\ UNCHANGED <<result, events, seen>>

SessionStep ==
    /\ host = "up"
    /\ \/ /\ \/ ProcessReturned
             \/ ReadResult
             \/ ResolveHead
             \/ EmitFinished
             \/ SetResult
             \/ CloseChannels
          /\ UNCHANGED message
       \/ RemoveMessage
    /\ UNCHANGED <<procVars, deadline, answer, host>>

-----------------------------------------------------------------------------
(* engine.Run and its host process *)

\* Mutant: Wait does not look at its context.
Wait_DoneOnly ==
    /\ host = "up" /\ answer = "pending"
    /\ DoneClosed /\ answer' = result
    /\ UNCHANGED <<procVars, stage, result, events, seen, deadline, host, message>>

\* The select: when both cases are ready either is taken.
Wait ==
    /\ host = "up" /\ answer = "pending"
    /\ ~Starting
    /\ \/ DoneClosed /\ answer' = result
       \/ deadline /\ answer' = "context"
    /\ UNCHANGED <<procVars, stage, result, events, seen, deadline, host, message>>

\* for range session.Events()
DrainEvents ==
    /\ host = "up"
    /\ events # <<>>
    /\ seen' = Append(seen, Head(events))
    /\ events' = Tail(events)
    /\ UNCHANGED <<procVars, stage, result, deadline, answer, host, message>>

\* The context of the session and that of process.Run are its descendants.
DeadlinePasses ==
    /\ ~deadline
    /\ deadline' = TRUE
    /\ IF expired = "no" THEN expired' = "deadline" ELSE UNCHANGED expired
    /\ UNCHANGED <<live, unborn, group, holding, status, waited, pc, outcome, timedOut,
                   stage, result, events, seen, answer, host, message>>

\* Session.Cancel
Cancel ==
    /\ host = "up" /\ answer = "pending"
    /\ ~Starting
    /\ expired = "no"
    /\ expired' = "canceled"
    /\ UNCHANGED <<live, unborn, group, holding, status, waited, pc, outcome, timedOut,
                   sessionVars>>

\* engine.Run and main return: after an error at once, after a result when the
\* rest of the run is over.
HostExits ==
    /\ host = "up" /\ answer # "pending"
    /\ host' = "exited"
    /\ UNCHANGED <<procVars, stage, result, events, seen, deadline, answer, message>>

ProcessesStep == Process!ProcessStep /\ UNCHANGED sessionVars

\* The orch process has ended, and so have the writer's processes.
Finished == host = "exited" /\ live = {} /\ UNCHANGED vars

Next ==
    \/ StartStep
    \/ RunProcess
    \/ SessionStep
    \/ Wait
    \/ DrainEvents
    \/ DeadlinePasses
    \/ Cancel
    \/ HostExits
    \/ ProcessesStep
    \/ WriteMessage
    \/ Finished

Spec == Init /\ [][Next]_vars

\* The goroutines run and time passes.  Nobody has to receive the events, to
\* cancel or to exit.
FairSpec ==
    /\ Spec
    /\ WF_vars(StartStep) /\ WF_vars(RunProcess) /\ WF_vars(SessionStep)
    /\ WF_vars(Wait) /\ WF_vars(DeadlinePasses)

-----------------------------------------------------------------------------
(* Properties *)

\* Every variable keeps its type; a session sends at most two events.
TypeOK ==
    /\ Process!TypeOK
    /\ stage \in {"idle", "prompt", "refused", "run", "read", "head", "emit",
                  "settle", "closeDone", "closeEvents", "remove", "over"}
    /\ result \in {"unset", "ok", "error"}
    /\ events \in Seq({"session_started", "session_finished"})
    /\ seen \in Seq({"session_started", "session_finished"})
    /\ Len(seen) + Len(events) <= 2
    /\ deadline \in BOOLEAN
    /\ answer \in {"pending", "start_error", "context", "ok", "error", "unset"}
    /\ host \in {"up", "exited"}
    /\ message \in {"none", "empty", "written"}

\* session.Wait: it never returns the zero outcome as a success, and a result
\* means that the writer's command exited with 0 and that nobody can write to
\* its output, through four hand-overs between goroutines.
WaitIsHonest ==
    /\ answer # "unset"
    /\ answer = "ok" => status = "ok" /\ Leader \notin live /\ holding = {}

Announced == \E i \in DOMAIN (seen \o events) : (seen \o events)[i] = "session_finished"

\* docs/exec-plans/human-task-mvp.md, "Terminal events ... cannot substitute
\* for Result": where the end was announced Wait returns the result, or gives up at
\* its deadline, but never an error of the session; where Wait returned a result
\* the end had been announced; and once the channel is closed whoever received
\* its events knows whether the session has a result.
FinishIsAnnounced ==
    /\ Announced => answer \in {"pending", "ok", "context"}
    /\ answer = "ok" => Announced
    /\ EventsClosed => (Announced <=> result = "ok")

\* Start and session.run: the writer's last message does not outlive the
\* session on disk, however it ends, and nobody writes it again afterwards.
MessageIsRemoved ==
    Leader \notin Privileged /\ stage \in {"refused", "over"} => message = "none"

\* session.Wait: the engine gets an answer by its deadline, even when
\* process.Run does not return.
WaitIsBounded == answer = "pending" ~> answer # "pending"

\* session.run: it ends although nobody may be receiving its events, unless
\* process.Run does not return.
SessionEnds ==
    <>[](holding \subseteq Process!Reachable) =>
        (stage = "run" ~> stage = "over" \/ host = "exited")

\* docs/exec-plans/human-task-mvp.md, "Cancellation terminates the child
\* process group": a run that gave up on its writer leaves none of the group.
WriterStopsWithRun ==
    answer = "context" /\ host = "exited" => live \cap group \subseteq Privileged
=============================================================================
