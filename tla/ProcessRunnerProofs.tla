------------------------- MODULE ProcessRunnerProofs -------------------------
(* Theorems about process.Run, for any number of descendants, of which any  *)
(* may be privileged and all may leave the group.                           *)
EXTENDS ProcessRunner, TLAPS

LeaderRuns ==
    /\ live # {} => Leader \notin unborn
    /\ pc = "start" => live = {} /\ status = "none" /\ waited = "no" /\ outcome = "none"
    /\ status # "none" => Leader \notin live /\ Leader \notin unborn

\* The pipes are closed for good once cmd.Wait has returned: only a holder can
\* hand them on.
OutputInv ==
    /\ waited # "no" => status # "none" /\ holding = {}
    /\ pc = "collect" \/ outcome \in {"ok", "exit_error", "context_error"} =>
        waited # "no"

\* What is left of the group is privileged and stays so: only a member can
\* fork a member.
GroupInv ==
    /\ timedOut => pc \in {"collect", "returned"}
    /\ GroupIsTerminated

\* The context does not recover, and the outcome is decided once.
AnswerInv ==
    /\ outcome # "none" => pc = "returned"
    /\ timedOut => expired # "no"
    /\ outcome = "ok" => status = "ok"

\* The leader cannot leave its group, so that a kill reaches it.
LeaderInv ==
    /\ Leader \in live => Leader \in group
    /\ pc \in {"collect", "returned"} /\ Leader \notin Privileged => Leader \notin live

Inv == TypeOK /\ LeaderRuns /\ OutputInv /\ GroupInv /\ AnswerInv /\ LeaderInv

LEMMA InitInv == Init => Inv
BY ProcessAssumption DEF Init, Inv, TypeOK, LeaderRuns, OutputInv, GroupInv,
   GroupIsTerminated, AnswerInv, LeaderInv, Procs

LEMMA StepInv == Inv /\ [Next]_vars => Inv'
<1> SUFFICES ASSUME Inv, [Next]_vars PROVE Inv'
    OBVIOUS
<1> USE ProcessAssumption
    DEF Inv, TypeOK, LeaderRuns, OutputInv, GroupInv, GroupIsTerminated,
            AnswerInv, LeaderInv, procVars
<1>1. CASE Start
  <2>1. TypeOK'
    BY <1>1 DEF Start, Return, Procs
  <2>2. LeaderRuns' /\ OutputInv'
    BY <1>1 DEF Start, Return, Procs
  <2>3. GroupInv' /\ AnswerInv' /\ LeaderInv'
    BY <1>1 DEF Start, Return
  <2> QED
    BY <2>1, <2>2, <2>3
<1>2. CASE TakeResult
  BY <1>2 DEF TakeResult
<1>3. CASE KillGroup
  BY <1>3 DEF KillGroup, Return, Reachable
<1>4. CASE Drain
  BY <1>4 DEF Drain
<1>5. CASE Collect
  BY <1>5 DEF Collect, Return
<1>6. CASE WaitReturns
  BY <1>6 DEF WaitReturns
<1>7. CASE Expire
  BY <1>7 DEF Expire
<1>8. ASSUME NEW p \in Procs, NEW k \in Procs, Fork(p, k) PROVE Inv'
  BY <1>8 DEF Fork
<1>9. ASSUME NEW p \in Procs, LeaveGroup(p) \/ CloseOutput(p) \/ Exit(p) PROVE Inv'
  BY <1>9 DEF LeaveGroup, CloseOutput, Exit
<1>10. CASE UNCHANGED vars
  BY <1>10 DEF vars
<1> QED
  BY <1>1, <1>2, <1>3, <1>4, <1>5, <1>6, <1>7, <1>8, <1>9, <1>10
     DEF Next, RunStep, ProcessStep, Finished

\* Type correctness of the call.
THEOREM TypeCorrect == Spec => []TypeOK
<1>1. Inv => TypeOK
  BY DEF Inv
<1> QED
  BY InitInv, StepInv, <1>1, PTL DEF Spec

\* The buffers are complete when they are read, whatever the descendants do.
THEOREM OutputComplete == Spec => []OutputIsComplete
<1>1. Inv => OutputIsComplete
  BY DEF Inv, OutputInv, LeaderRuns, OutputIsComplete
<1> QED
  BY InitInv, StepInv, <1>1, PTL DEF Spec

\* A kill leaves nothing of the group that could have been signalled, and no
\* later fork brings anything back.
THEOREM GroupTerminated == Spec => []GroupIsTerminated
<1>1. Inv => GroupIsTerminated
  BY DEF Inv, GroupInv
<1> QED
  BY InitInv, StepInv, <1>1, PTL DEF Spec

\* The steps that return from Run.
LEMMA AnswerFrame ==
    ASSUME [Next]_vars, pc # "returned", pc' = "returned"
    PROVE  Start \/ KillGroup \/ Collect
BY DEF Next, RunStep, TakeResult, Drain, WaitReturns, Expire, ProcessStep, Fork,
   LeaveGroup, CloseOutput, Exit, Finished, vars

\* A success is a success of the leader's own that came in time, and a timed out
\* call ends with the error of the context, however exits, forks, the kill and the
\* deadline interleave.
THEOREM AnswerHonest == Spec => AnswerIsHonest
<1>1. Inv /\ [Next]_vars =>
        [pc # "returned" /\ pc' = "returned" =>
            /\ outcome' = "ok" => status = "ok" /\ expired = "no"
            /\ timedOut' => outcome' = "context_error"]_vars
  <2> SUFFICES ASSUME Inv, [Next]_vars, pc # "returned", pc' = "returned"
               PROVE  /\ outcome' = "ok" => status = "ok" /\ expired = "no"
                      /\ timedOut' => outcome' = "context_error"
      OBVIOUS
  <2>1. CASE Start \/ KillGroup
    BY <2>1 DEF Start, KillGroup, Return, Inv, AnswerInv, GroupInv
  <2>2. CASE Collect
    BY <2>2 DEF Collect, Return, Inv, AnswerInv
  <2> QED
    BY <2>1, <2>2, AnswerFrame
<1> QED
  BY InitInv, StepInv, <1>1, PTL DEF Spec, AnswerIsHonest

\* What stays of it: the leader of a successful call exited with 0.
SuccessIsOwn == outcome = "ok" => status = "ok"

LEMMA SuccessIsTheLeaders == Spec => []SuccessIsOwn
<1>1. Inv => SuccessIsOwn
  BY DEF Inv, AnswerInv, SuccessIsOwn
<1> QED
  BY InitInv, StepInv, <1>1, PTL DEF Spec

\* When Run has returned the leader is gone, unless it may not be signalled.
LeaderGone == pc = "returned" /\ Leader \notin Privileged => Leader \notin live

LEMMA LeaderIsGone == Spec => [](LeaderRuns /\ LeaderGone)
<1>1. Inv => LeaderRuns /\ LeaderGone
  BY DEF Inv, LeaderInv, LeaderGone
<1> QED
  BY InitInv, StepInv, <1>1, PTL DEF Spec
==============================================================================
