----------------------------- MODULE Acceptance -----------------------------
(* The acceptance commands of a run and the evidence made of their results: *)
(* internal/verification, internal/evidence and the last part of engine.Run.*)
(*                                                                          *)
(* Two clocks limit a command: its own timeout and the budget of the whole  *)
(* run, of which the writer has used a part.  The outputs of the commands   *)
(* and the diff are then redacted, digested with the commands, written to   *)
(* three files and named by the run's record.                               *)
(*                                                                          *)
(* Abstractions: time passes in whole seconds since engine.Run began; a     *)
(* text is plain, or has a secret in it, or had one; a digest stands for    *)
(* what it is computed from; what process.Run does at its limit is the      *)
(* module ProcessRunner, and here it returns; the commits and the worktrees *)
(* are in Engine.                                                           *)
EXTENDS Integers, Sequences

CONSTANTS
    Jobs,       \* the digest, base commit, commands and budget of a run
    NoJob,
    Argvs       \* the argvs of the commands

VARIABLES
    step,       \* where the run is
    job,
    now,        \* seconds since the budget of the run began
    started,    \* when the running command was started
    results,    \* verificationResults
    diff,       \* sanitizedDiff; the raw diff before it is sanitized
    bundle,     \* the EvidenceBundle, <<>> before it exists
    packet,     \* the DecisionPacket
    files,      \* the evidence files, in the order they are written
    record      \* the digests of the run's record

checkVars == <<step, job, now, started, results, diff, bundle, packet, files, record>>

Texts == {"plain", "secret", "redacted"}

Redact(text) == IF text = "secret" THEN "redacted" ELSE text

\* evidence.Digest and ArtifactFromBytes
Digest(value) == value

Results == [argv : Argvs, exit : {0, 1}, output : Texts, started : Nat, finished : Nat]

\* Mutant: the timeout counts and the budget does not.
Limit_OwnTimeout(j, i, start) == start + j.acceptance[i].timeout

\* The context of process.Run: the earlier of its own and its parent's deadline.
Limit(j, i, start) ==
    LET own == start + j.acceptance[i].timeout IN
    IF own < j.seconds THEN own ELSE j.seconds

Current == Len(results) + 1

Result(exit, output) ==
    [argv |-> job.acceptance[Current].argv, exit |-> exit, output |-> output,
     started |-> started, finished |-> now]

-----------------------------------------------------------------------------
(* verification.Run *)

\* The writer has produced a commit and used some of the budget.
Begin(j, used) ==
    /\ step = "waiting"
    /\ job' = j
    /\ now' = used
    /\ diff' \in {"plain", "secret"}
    /\ step' = "next"
    /\ UNCHANGED <<started, results, bundle, packet, files, record>>

StartCommand ==
    /\ step = "next"
    /\ Current <= Len(job.acceptance)
    /\ started' = now
    /\ step' = "running"
    /\ UNCHANGED <<job, now, results, diff, bundle, packet, files, record>>

Tick ==
    /\ step = "running"
    /\ now < Limit(job, Current, started)
    /\ now' = now + 1
    /\ UNCHANGED <<step, job, started, results, diff, bundle, packet, files, record>>

\* A command that exits at its limit is reported as an error.
CommandSucceeds ==
    /\ step = "running"
    /\ now < Limit(job, Current, started)
    /\ \E output \in {"plain", "secret"} : results' = Append(results, Result(0, output))
    /\ step' = "next"
    /\ UNCHANGED <<job, now, started, diff, bundle, packet, files, record>>

\* It cannot be started, or it exits with another status: no command follows.
CommandFails ==
    /\ step = "running"
    /\ \E output \in {"plain", "secret"} : results' = Append(results, Result(1, output))
    /\ step' = "failed"
    /\ UNCHANGED <<job, now, started, diff, bundle, packet, files, record>>

\* Mutant: a command that was killed is started again.
CommandTimesOut_Retrying ==
    /\ step = "running"
    /\ now = Limit(job, Current, started)
    /\ step' = "next"
    /\ UNCHANGED <<job, now, started, results, diff, bundle, packet, files, record>>

CommandTimesOut ==
    /\ step = "running"
    /\ now = Limit(job, Current, started)
    /\ \E output \in {"plain", "secret"} : results' = Append(results, Result(1, output))
    /\ step' = "failed"
    /\ UNCHANGED <<job, now, started, diff, bundle, packet, files, record>>

-----------------------------------------------------------------------------
(* engine.Run, after the verification *)

\* Standard output and standard error; the argv of a command is kept as the task has
\* it, also where a secret stands in it.
Sanitized == [i \in DOMAIN results |-> [results[i] EXCEPT !.output = Redact(@)]]

Bundle(j, rs, text) ==
    [task |-> j.digest, base |-> j.base, artifact |-> Digest(text), verification |-> rs]

Packet(b, rs) ==
    [task |-> b.task, evidence |-> Digest(b), verification |-> Digest(rs)]

\* Mutant: the packet is computed from what has not been redacted yet.
Assemble_Early ==
    /\ step = "next"
    /\ Current > Len(job.acceptance)
    /\ results' = Sanitized
    /\ diff' = Redact(diff)
    /\ bundle' = Bundle(job, results', diff')
    /\ packet' = Packet(bundle', results)
    /\ step' = "write"
    /\ UNCHANGED <<job, now, started, files, record>>

Assemble ==
    /\ step = "next"
    /\ Current > Len(job.acceptance)
    /\ results' = Sanitized
    /\ diff' = Redact(diff)
    /\ bundle' = Bundle(job, results', diff')
    /\ packet' = Packet(bundle', results')
    /\ step' = "write"
    /\ UNCHANGED <<job, now, started, files, record>>

\* diff.patch, evidence-bundle.json, decision-packet.json
Contents == <<diff, bundle, packet>>

\* A file that exists or cannot be written ends the run without a transition.
WriteFile ==
    /\ step = "write"
    /\ Len(files) < Len(Contents)
    /\ \/ files' = Append(files, Contents[Len(files) + 1]) /\ UNCHANGED step
       \/ step' = "aborted" /\ UNCHANGED files
    /\ UNCHANGED <<job, now, started, results, diff, bundle, packet, record>>

Publish ==
    /\ step = "write"
    /\ Len(files) = Len(Contents)
    /\ record' = [verification |-> Digest(results), evidence |-> Digest(bundle),
                  packet |-> Digest(packet)]
    /\ step' = "published"
    /\ UNCHANGED <<job, now, started, results, diff, bundle, packet, files>>

-----------------------------------------------------------------------------

Init ==
    /\ step = "waiting"
    /\ job = NoJob
    /\ now = 0
    /\ started = 0
    /\ results = <<>>
    /\ diff = "plain"
    /\ bundle = <<>>
    /\ packet = <<>>
    /\ files = <<>>
    /\ record = <<>>

Ends == {"failed", "aborted", "published"}
Ended == step \in Ends

\* The engine's own steps; the exit of a command is not among them.
EngineStep ==
    \/ StartCommand
    \/ CommandTimesOut
    \/ Assemble
    \/ WriteFile
    \/ Publish

Step ==
    \/ EngineStep
    \/ Tick
    \/ CommandSucceeds
    \/ CommandFails

Next ==
    \/ \E j \in Jobs : \E used \in 0..j.seconds : Begin(j, used)
    \/ Step

\* Time passes, and nobody has to make a command exit.
Fairness == WF_checkVars(EngineStep) /\ WF_checkVars(Tick)

Spec == Init /\ [][Next]_checkVars

-----------------------------------------------------------------------------
(* Properties *)

\* Every variable keeps its type; no clock runs past the budget.
TypeOK ==
    /\ step \in {"waiting", "next", "running", "write"} \cup Ends
    /\ job \in Jobs \cup {NoJob}
    /\ now \in IF job = NoJob THEN {0} ELSE 0..job.seconds
    /\ started \in 0..now
    /\ results \in Seq(Results)
    /\ diff \in Texts
    /\ Len(files) <= Len(Contents)

\* verification.Run: a packet exists only if every command of the task ran
\* once, in order, and succeeded, each within its own timeout and all of them
\* within what the writer left of the budget.
PacketProvesAcceptance ==
    step = "published" =>
        LET verified == files[2].verification IN
        /\ Len(verified) = Len(job.acceptance)
        /\ \A i \in DOMAIN verified :
            LET v == verified[i] IN
            /\ v.argv = job.acceptance[i].argv
            /\ v.exit = 0
            /\ v.finished - v.started < job.acceptance[i].timeout
            /\ v.finished < job.seconds
            /\ i > 1 => verified[i - 1].finished <= v.started

\* docs/exec-plans/human-task-mvp.md:657: the record names the packet on disk,
\* the packet the bundle, the bundle the diff and the results: what was redacted is
\* what was digested, what is on disk and what the record names.  No output and no
\* diff on disk has a secret in it that the redactor knows; nothing is said of the
\* argvs, which are those of the task.
EvidenceChain ==
    step = "published" =>
        /\ record.packet = Digest(files[3])
        /\ record.evidence = Digest(files[2])
        /\ files[3].evidence = Digest(files[2])
        /\ files[3].verification = Digest(files[2].verification)
        /\ record.verification = files[3].verification
        /\ files[2].artifact = Digest(files[1])
        /\ files[3].task = files[2].task
        /\ files[1] # "secret"
        /\ \A i \in DOMAIN files[2].verification : files[2].verification[i].output # "secret"

\* An upper bound of the steps ahead: two for each command that is left, one for
\* each second of the budget, and those that write and publish the evidence.
StepsLeft ==
    CASE step = "next" ->
            2 * (Len(job.acceptance) - Len(results)) + (job.seconds - now) + 6
      [] step = "running" ->
            2 * (Len(job.acceptance) - Len(results)) + (job.seconds - now) + 5
      [] step = "write" -> 4 - Len(files)
      [] OTHER -> 0

\* verification.Run, engine.Run: no command is run twice, no file is written twice,
\* and nothing happens after an end.  Every step leaves fewer steps, so that the
\* number of commands and the budget bound the verification, also one in which
\* every command runs into its limit.
VerificationAdvances ==
    [][step # "waiting" => step' # "waiting" /\ StepsLeft' \in 0 .. StepsLeft - 1]_checkVars

\* verification.Run: it ends, whatever the commands do.
VerificationEnds == step = "next" ~> Ended
=============================================================================
