----------------------------- MODULE ApprovedRun -----------------------------
(* The end-to-end composition: a task passes the gate (TaskGate), and the   *)
(* run that was admitted verifies its acceptance commands and publishes the *)
(* evidence (Acceptance).  What the writer does in between is in Engine and *)
(* takes part of the budget here.                                           *)
EXTENDS Integers, Sequences

CONSTANTS Places, Commits, Branch, Works, MaxExecution, NoTask, NoJob

VARIABLES toplevel, tip, approved, command, pc, loaded, task, repository

VARIABLES step, job, now, started, results, diff, bundle, packet, files, record

Gate == INSTANCE TaskGate

\* What engine.Run uses of a task after it has been admitted.
JobOf(t) ==
    [digest |-> Gate!Digest(t), base |-> t.ref, acceptance |-> t.work.acceptance,
     seconds |-> t.work.seconds]

Jobs == {JobOf(t) : t \in {u \in Gate!Tasks : Gate!ValidateTask(u)}}
Argvs == UNION {{t.work.acceptance[i].argv : i \in DOMAIN t.work.acceptance} : t \in Gate!Tasks}

Check == INSTANCE Acceptance

ASSUME TaskAssumption ==
    /\ Branch \notin Commits
    /\ NoTask \notin Gate!Tasks
    /\ NoJob \notin Jobs
    /\ MaxExecution \in Nat
    /\ Works \subseteq [complete : BOOLEAN, delegation : STRING, attempts : Int,
                       seconds : Int,
                       acceptance : Seq([argv : Seq(STRING), timeout : Int])]

gateVars == <<toplevel, tip, approved, command, pc, loaded, task, repository>>
checkVars == <<step, job, now, started, results, diff, bundle, packet, files, record>>
vars == <<gateVars, checkVars>>

Init == Gate!Init /\ Check!Init

PassGate == Gate!Next /\ UNCHANGED checkVars

\* The writer took `used` seconds and produced an acceptable commit.
Verify ==
    /\ pc = "admitted"
    /\ \E used \in 0..task.work.seconds : Check!Begin(JobOf(task), used)
    /\ UNCHANGED gateVars

CheckStep == Check!Step /\ UNCHANGED gateVars

Finished == Check!Ended /\ UNCHANGED vars

Next ==
    \/ PassGate
    \/ Verify
    \/ CheckStep
    \/ Finished

\* The engine runs and time passes once the verification has begun; nobody has
\* to edit, approve or run a task.
Spec == Init /\ [][Next]_vars
FairSpec ==
    /\ Spec
    /\ WF_vars(Check!EngineStep /\ UNCHANGED gateVars)
    /\ WF_vars(Check!Tick /\ UNCHANGED gateVars)

-----------------------------------------------------------------------------
(* Properties *)

\* Every variable keeps its type.
TypeOK == Gate!TypeOK /\ Check!TypeOK

\* Of TaskGate: the run is admitted with exactly what the human approved.
AdmittedIsApproved == Gate!AdmittedIsApproved

\* Of TaskGate: a moved branch does not invalidate an approval.
VerbatimTaskMatches == Gate!VerbatimTaskMatches

\* Of Acceptance: a packet says that every command succeeded in time.
PacketProvesAcceptance == Check!PacketProvesAcceptance

\* Of Acceptance: record, packet, bundle and diff belong together.
EvidenceChain == Check!EvidenceChain

\* Of Acceptance: the verification never goes back, and its steps are bounded.
VerificationAdvances == Check!VerificationAdvances

\* Of Acceptance: the verification ends.
VerificationEnds == Check!VerificationEnds

\* docs/exec-plans/human-task-mvp.md:486: the published packet is about the task
\* the human approved, made from its base commit with its commands alone.
PacketIsForApprovedTask ==
    step = "published" =>
        /\ files[3].task = Gate!Digest(approved)
        /\ files[2].base = approved.ref
        /\ [i \in DOMAIN files[2].verification |-> files[2].verification[i].argv] =
               [i \in DOMAIN approved.work.acceptance |-> approved.work.acceptance[i].argv]
=============================================================================
