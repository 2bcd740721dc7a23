---------------------------- MODULE ProcessRunner ----------------------------
(* One call of process.Run, internal/runtime/process/runner.go: the way the *)
(* writer, git and every acceptance command are executed.                   *)
(*                                                                          *)
(* The caller, the goroutine in cmd.Wait and the processes the command      *)
(* starts run concurrently.  The command leads a process group of its own;  *)
(* its descendants inherit the group and the pipes of stdout and stderr,    *)
(* and may leave the one (setsid) and close the other.  cmd.Wait returns    *)
(* when the leader has exited and no process holds the pipes.               *)
(*                                                                          *)
(* Abstractions: the output is not modelled, only who can still write it;   *)
(* the kill of a group is one step; a process identifier is not reused; a   *)
(* process that may not be signalled forks only ones that may not either.   *)
EXTENDS FiniteSets

CONSTANTS
    Leader,
    Kids,           \* the descendants the leader may come to have
    Privileged,     \* processes that the caller may not signal
    MayEscape       \* whether descendants may leave the group

Procs == {Leader} \cup Kids

ASSUME ProcessAssumption ==
    /\ Leader \notin Kids
    /\ Privileged \subseteq Procs
    /\ MayEscape \in BOOLEAN

VARIABLES
    live,       \* the processes that run
    unborn,     \* those not forked yet
    group,      \* the members of the leader's process group
    holding,    \* the processes that have the pipes open
    status,     \* the exit status of the leader
    waited,     \* the channel of the wait goroutine
    expired,    \* runCtx.Err()
    pc,         \* where Run is
    outcome,    \* what Run returned
    timedOut    \* Result.TimedOut

procVars == <<live, unborn, group, holding, status>>
vars == <<procVars, waited, expired, pc, outcome, timedOut>>

Init ==
    /\ live = {} /\ group = {} /\ holding = {}
    /\ unborn = Procs
    /\ status = "none"
    /\ waited = "no"
    /\ expired = "no"
    /\ pc = "start"
    /\ outcome = "none"
    /\ timedOut = FALSE

-----------------------------------------------------------------------------
(* The processes *)

Fork(p, k) ==
    /\ p \in live /\ k \in unborn
    /\ p \in Privileged => k \in Privileged
    /\ live' = live \cup {k}
    /\ unborn' = unborn \ {k}
    /\ group' = IF p \in group THEN group \cup {k} ELSE group
    /\ holding' = IF p \in holding THEN holding \cup {k} ELSE holding
    /\ UNCHANGED <<status, waited, expired, pc, outcome, timedOut>>

\* A group leader cannot leave its group.
LeaveGroup(k) ==
    /\ MayEscape
    /\ k \in (live \cap group) \ {Leader}
    /\ group' = group \ {k}
    /\ UNCHANGED <<live, unborn, holding, status, waited, expired, pc, outcome, timedOut>>

CloseOutput(p) ==
    /\ p \in holding
    /\ holding' = holding \ {p}
    /\ UNCHANGED <<live, unborn, group, status, waited, expired, pc, outcome, timedOut>>

Exit(p) ==
    /\ p \in live
    /\ live' = live \ {p}
    /\ holding' = holding \ {p}
    /\ group' = group \ {p}
    /\ IF p = Leader THEN status' \in {"ok", "failed"} ELSE UNCHANGED status
    /\ UNCHANGED <<unborn, waited, expired, pc, outcome, timedOut>>

\* The deadline of the call, or the cancellation of its parent context.
Expire ==
    /\ expired = "no"
    /\ expired' \in {"deadline", "canceled"}
    /\ UNCHANGED <<procVars, waited, pc, outcome, timedOut>>

-----------------------------------------------------------------------------
(* Run *)

Return(result) == pc' = "returned" /\ outcome' = result

\* Mutant: the command may be started again while it runs.
Start_Again ==
    /\ pc \in {"start", "select"}
    /\ live' = {Leader} /\ group' = {Leader} /\ holding' = {Leader}
    /\ pc' = "select"
    /\ UNCHANGED <<unborn, status, waited, expired, outcome, timedOut>>

\* The command is started without the context: an expired one does not stop it.
Start ==
    /\ pc = "start"
    /\ \/ /\ live' = {Leader} /\ group' = {Leader} /\ holding' = {Leader}
          /\ unborn' = unborn \ {Leader}
          /\ pc' = "select"
          /\ UNCHANGED outcome
       \/ Return("start_error") /\ UNCHANGED <<live, group, holding, unborn>>
    /\ UNCHANGED <<status, waited, expired, timedOut>>

\* Mutant: cmd.Process.Wait, which does not wait for the output.
WaitReturns_ProcessOnly ==
    /\ waited = "no"
    /\ status # "none"
    /\ waited' = "ready"
    /\ UNCHANGED <<procVars, expired, pc, outcome, timedOut>>

\* go func() { wait <- cmd.Wait() }()
WaitReturns ==
    /\ pc # "start"
    /\ waited = "no"
    /\ status # "none"
    /\ holding = {}
    /\ waited' = "ready"
    /\ UNCHANGED <<procVars, expired, pc, outcome, timedOut>>

\* case waitErr = <-wait
TakeResult ==
    /\ pc = "select"
    /\ waited = "ready"
    /\ waited' = "taken"
    /\ pc' = "collect"
    /\ UNCHANGED <<procVars, expired, outcome, timedOut>>

Reachable == (live \cap group) \ Privileged

\* Mutant: the signal goes to the leader alone.
KillGroup_LeaderOnly ==
    /\ pc = "select"
    /\ expired # "no"
    /\ live' = live \ {Leader} /\ holding' = holding \ {Leader} /\ group' = group \ {Leader}
    /\ status' = IF Leader \in live THEN "killed" ELSE status
    /\ pc' = "drain"
    /\ UNCHANGED <<unborn, waited, expired, outcome, timedOut>>

\* case <-runCtx.Done(): kill(2) fails with ESRCH if the group is empty, which
\* is fine, and with EPERM if no member of it could be signalled.
KillGroup ==
    /\ pc = "select"
    /\ expired # "no"
    /\ \/ /\ live \cap group = {} \/ Reachable # {}
          /\ live' = live \ Reachable
          /\ holding' = holding \ Reachable
          /\ group' = group \ Reachable
          /\ status' = IF Leader \in Reachable THEN "killed" ELSE status
          /\ pc' = "drain"
          /\ UNCHANGED <<unborn, outcome>>
       \/ /\ live \cap group # {} /\ Reachable = {}
          /\ Return("kill_error")
          /\ UNCHANGED procVars
    /\ UNCHANGED <<waited, expired, timedOut>>

\* waitErr = <-wait, after the kill
Drain ==
    /\ pc = "drain"
    /\ waited = "ready"
    /\ waited' = "taken"
    /\ timedOut' = (expired = "deadline")
    /\ pc' = "collect"
    /\ UNCHANGED <<procVars, expired, outcome>>

\* Mutant: the context is not looked at again, only the exit status.
Collect_StatusOnly ==
    /\ pc = "collect"
    /\ Return(IF status # "ok" THEN "exit_error" ELSE "ok")
    /\ UNCHANGED <<procVars, waited, expired, timedOut>>

\* The buffers are read, and the context is looked at before the status.
Collect ==
    /\ pc = "collect"
    /\ Return(IF expired # "no" THEN "context_error"
              ELSE IF status # "ok" THEN "exit_error" ELSE "ok")
    /\ UNCHANGED <<procVars, waited, expired, timedOut>>

-----------------------------------------------------------------------------

RunStep == Start \/ TakeResult \/ KillGroup \/ Drain \/ Collect

ProcessStep ==
    \/ \E p, k \in Procs : Fork(p, k)
    \/ \E p \in Procs : LeaveGroup(p) \/ CloseOutput(p) \/ Exit(p)

\* Nothing is left to happen: Run has returned and the processes are gone.
Finished == pc = "returned" /\ live = {} /\ UNCHANGED vars

Next == RunStep \/ WaitReturns \/ Expire \/ ProcessStep \/ Finished

Spec == Init /\ [][Next]_vars

\* Every call of the program has a positive timeout.  No process need exit.
FairSpec ==
    /\ Spec
    /\ WF_vars(RunStep) /\ WF_vars(WaitReturns) /\ WF_vars(Expire)

-----------------------------------------------------------------------------
(* Properties *)

\* Every variable keeps its type, and only live processes are in the group or
\* hold the pipes.
TypeOK ==
    /\ live \subseteq Procs /\ unborn \subseteq Procs \ live
    /\ group \subseteq live
    /\ holding \subseteq live
    /\ status \in {"none", "ok", "failed", "killed"}
    /\ waited \in {"no", "ready", "taken"}
    /\ expired \in {"no", "deadline", "canceled"}
    /\ pc \in {"start", "select", "drain", "collect", "returned"}
    /\ outcome \in {"none", "start_error", "kill_error", "context_error",
                    "exit_error", "ok"}
    /\ timedOut \in BOOLEAN

\* Run, the reads of the two buffers: when they are read the leader is gone and
\* no process can write to them, now or later, whatever has been forked.
OutputIsComplete ==
    pc = "collect" \/ outcome \in {"ok", "exit_error", "context_error"} =>
        status # "none" /\ Leader \notin live /\ holding = {}

\* "Cancellation terminates the child process group": once the kill went
\* through, only processes that may not be signalled are left of the group.
GroupIsTerminated ==
    pc = "drain" \/ timedOut => live \cap group \subseteq Privileged

\* Run, the answer: Run returns a success only if the leader exited with 0 on its
\* own and the context is not done at that moment, though the deadline may pass
\* after the exit, after the select or after a kill that found nobody; a timed
\* out result comes with the error of the context.
AnswerIsHonest ==
    [][pc # "returned" /\ pc' = "returned" =>
        /\ outcome' = "ok" => status = "ok" /\ expired = "no"
        /\ timedOut' => outcome' = "context_error"]_vars

\* Run, the wait after the kill: the deadline bounds the call, unless there is
\* for ever a process that holds the pipes and that the kill does not reach.
RunReturnsUnlessEscaped ==
    <>[](holding \subseteq Reachable) => (pc = "select" ~> pc = "returned")

\* docs/design/agent-orchestrator.md, "Runtime launches bounded jobs": the
\* deadline bounds the call.
RunReturns == pc = "select" ~> pc = "returned"
=============================================================================
