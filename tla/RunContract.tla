----------------------------- MODULE RunContract -----------------------------
(* What a run promises to whoever reads its state.json, whatever the number *)
(* of commands, worktrees, log lines and locks behind it: the specification *)
(* that Engine implements.                                                  *)
(*                                                                          *)
(*  - the state follows the transition table, one move at a time, and       *)
(*    nothing changes once it is terminal;                                  *)
(*  - the result commit is fixed when the implementation is finished, and   *)
(*    it is a commit that passed the engine's checks;                       *)
(*  - the packet a human decides on is published with the end of the        *)
(*    verification, is about the result, and never changes;                 *)
(*  - approval, rework, rejection and cancellation come only from a human   *)
(*    looking at that packet, and nobody else moves the run from there on.  *)
(*                                                                          *)
(* Decide commands that overlap take one promise back, and only that one: a *)
(* decision may replace an earlier decision on the same packet.             *)
EXTENDS RunLifecycle

CONSTANTS Conforming, NoRun, Overlap

VARIABLE run

Init == run = NoRun

Create == run = NoRun /\ run' = [NoRun EXCEPT !.state = "CREATED"]

\* The states in which the engine works, before it asks a human.
Working == {"CREATED", "PREPARING", "IMPLEMENTING", "VERIFYING"}

\* The moves that fix nothing.
Advance ==
    /\ run.state \in Working
    /\ \E next \in RunStates, e \in {"preparation_started", "implementation_started", "failed"} :
            /\ <<run.state, e, next>> \in Moves
            /\ run' = [run EXCEPT !.state = next]

FinishImplementation ==
    /\ run.state = "IMPLEMENTING"
    /\ \E commit \in Conforming :
        run' = [run EXCEPT !.state = "VERIFYING", !.result = commit]

FinishVerification ==
    /\ run.state = "VERIFYING"
    /\ run' = [run EXCEPT !.state = "AWAITING_APPROVAL",
                          !.packet = [result |-> run.result, verified |-> run.result]]

\* The writer's effect has an unknown outcome: its worktree is kept.
LoseWriter ==
    /\ run.state = "IMPLEMENTING"
    /\ run' = [run EXCEPT !.state = "RECOVERY_REQUIRED", !.recovery = TRUE]

Decide ==
    /\ run.state = "AWAITING_APPROVAL" \/ (Overlap /\ run.state \in Decided)
    /\ \E next \in Decided : run' = [run EXCEPT !.state = next]

Next ==
    \/ Create
    \/ Advance
    \/ FinishImplementation
    \/ FinishVerification
    \/ LoseWriter
    \/ Decide

Spec == Init /\ [][Next]_run
==============================================================================
