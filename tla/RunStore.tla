------------------------------ MODULE RunStore ------------------------------
(* One run's directory on disk: internal/store/file.go and lock.go.         *)
(* state.json is the snapshot, events.jsonl the log, lock/ the lock.        *)
(*                                                                          *)
(* A failing call leaves whatever the code may have done before it failed,  *)
(* so every operation that can fail has a second action `...Fails` that     *)
(* describes the disk it leaves.  Abstraction: an event is its type, because *)
(* the program writes one effect identifier and one generation, so neither  *)
(* tells two events apart and the generation fence never rejects.           *)
EXTENDS Naturals, Sequences

CONSTANTS
    NoOwner,    \* the owner of a lock directory that does not exist
    Faults      \* the faults of the environment that a run considers

ASSUME FaultsAssumption == Faults \subseteq {"io_error", "crash"}

VARIABLES
    snapshot,   \* state.json: the last Run record written
    log,        \* events.jsonl: the lines that are complete, in order
    tail,       \* what follows them: nothing ("whole"), a line that does not
                \* decode ("torn"), or an event that only lacks its newline
    lock        \* the command that created lock/, or NoOwner

IoErrors == "io_error" \in Faults

LogTypes == {"effect_intent", "effect_settlement"}

\* ReadEvents decodes every line, and one that does not decode fails the call.
Readable == tail # "torn"

\* What it decodes: the scanner returns the last line without a newline, too.
Lines == IF tail \in {"whole", "torn"} THEN log ELSE Append(log, tail)

\* Mutant: an error of the write is dropped.
AppendEvent_ErrorDropped(event) ==
    /\ log' \in {log, Append(log, event)}
    /\ UNCHANGED <<snapshot, tail, lock>>

\* The new line joins an earlier one that has no newline: the call succeeds, and
\* the line that the two make does not decode.
AppendEvent(event) ==
    /\ Readable
    /\ \/ tail = "whole" /\ log' = Append(log, event) /\ UNCHANGED tail
       \/ tail # "whole" /\ tail' = "torn" /\ UNCHANGED log
    /\ UNCHANGED <<snapshot, lock>>

\* A write that stops within the line, or that only leaves out the newline.
CutAppend(event) ==
    /\ Readable
    /\ \/ tail' = "torn"
       \/ tail = "whole" /\ tail' = event
    /\ UNCHANGED <<snapshot, log, lock>>

\* Unreadable log, or nothing written; a short write; written but not synced.
AppendEventFails(event) ==
    \/ (~Readable \/ IoErrors) /\ UNCHANGED <<snapshot, log, tail, lock>>
    \/ IoErrors /\ CutAppend(event)
    \/ IoErrors /\ AppendEvent(event)

\* The temporary file and the rename make the replacement atomic.
WriteState(run) ==
    /\ snapshot' = run
    /\ UNCHANGED <<log, tail, lock>>

\* An error before the rename keeps the old file; an error of the directory
\* sync is returned although the new file is in place.
WriteStateFails(run) ==
    /\ IoErrors
    /\ snapshot' \in {snapshot, run}
    /\ UNCHANGED <<log, tail, lock>>

\* Mutant: MkdirAll instead of Mkdir, which does not mind the directory.
AcquireLock_MkdirAll(owner) ==
    /\ lock' = owner
    /\ UNCHANGED <<snapshot, log, tail>>

AcquireLock(owner) ==
    /\ lock = NoOwner
    /\ lock' = owner
    /\ UNCHANGED <<snapshot, log, tail>>

\* The directory exists (ErrLocked), or it could not be made, or owner.json
\* could not be written and removing the new directory may have failed too.
AcquireLockFails(owner) ==
    /\ \/ lock # NoOwner /\ UNCHANGED lock
       \/ IoErrors /\ lock = NoOwner /\ lock' \in {NoOwner, owner}
    /\ UNCHANGED <<snapshot, log, tail>>

Release ==
    /\ lock' = NoOwner
    /\ UNCHANGED <<snapshot, log, tail>>

\* The callers drop the error of Release.
ReleaseFails ==
    /\ IoErrors
    /\ UNCHANGED <<snapshot, log, tail, lock>>

\* AmbiguousEffects for the one effect of a run: an intent with no settlement
\* after it.
Pending(lines) ==
    \E i \in DOMAIN lines :
        /\ lines[i] = "effect_intent"
        /\ \A j \in DOMAIN lines : j > i => lines[j] # "effect_settlement"

EffectIsAmbiguous == Pending(Lines)

Logged(event) == \E i \in DOMAIN log : log[i] = event

\* An event that was appended and may have joined a line without a newline.
Recorded(event) == Logged(event) \/ ~Readable
=============================================================================
