--------------------------- MODULE EngineLogProofs ---------------------------
(* Theorems about an engine whose disk does not fail, for every number of   *)
(* commands and whichever of them crash: the log replays to the state on    *)
(* disk as long as decide commands do not overlap, and a run comes to rest  *)
(* even if they do.                                                         *)
EXTENDS EngineContractProofs, SequenceTheorems

-----------------------------------------------------------------------------
(* What Replay computes *)

\* A set of natural numbers that is not empty has a least element.
LEMMA LeastNumber ==
    ASSUME NEW T, T \subseteq Nat, T # {}
    PROVE  \E n \in T : \A m \in T : n <= m
<1>1. PICK n \in T : \A m \in T : ~(<<m, n>> \in OpToRel(<, Nat))
  BY NatLessThanWellFounded, WFMin
<1>2. \A m \in T : ~(m < n)
  BY <1>1 DEF OpToRel
<1> QED
  BY <1>2

\* The states that the lines of a log lead through, as Replay defines them.
IsPath(path, lines) ==
    path = [i \in 0..Len(lines) |->
               IF i = 0 THEN "CREATED" ELSE Follow(path[i - 1], lines[i])]

LEMMA ReplayIsPath ==
    ASSUME NEW lines PROVE Replay(lines) = (CHOOSE path : IsPath(path, lines))[Len(lines)]
BY DEF Replay, IsPath

Extension(path, lines, e) ==
    [i \in 0..Len(lines) + 1 |-> IF i <= Len(lines) THEN path[i]
                                                    ELSE Follow(path[Len(lines)], e)]

LEMMA ExtendPath ==
    ASSUME NEW S, NEW lines \in Seq(S), NEW e \in S, NEW path, IsPath(path, lines)
    PROVE  IsPath(Extension(path, lines, e), Append(lines, e))
<1> DEFINE longer == Extension(path, lines, e)
           all == Append(lines, e)
<1>1. /\ Len(lines) \in Nat /\ Len(all) = Len(lines) + 1
      /\ \A i \in 1..Len(lines) : all[i] = lines[i]
      /\ all[Len(lines) + 1] = e
  OBVIOUS
<1>2. \A i \in 0..Len(lines) :
        path[i] = IF i = 0 THEN "CREATED" ELSE Follow(path[i - 1], lines[i])
  BY DEF IsPath
<1>3. \A i \in 0..Len(lines) + 1 :
        longer[i] = IF i = 0 THEN "CREATED" ELSE Follow(longer[i - 1], all[i])
  <2> SUFFICES ASSUME NEW i \in 0..Len(lines) + 1
               PROVE  longer[i] = IF i = 0 THEN "CREATED" ELSE Follow(longer[i - 1], all[i])
      OBVIOUS
  <2>1. CASE i = 0
    BY <1>1, <1>2, <2>1 DEF Extension
  <2>2. CASE i \in 1..Len(lines)
    <3>1. longer[i] = path[i] /\ longer[i - 1] = path[i - 1] /\ all[i] = lines[i]
      BY <1>1, <2>2 DEF Extension
    <3> QED
      BY <1>2, <2>2, <3>1
  <2>3. CASE i = Len(lines) + 1
    <3>1. longer[i] = Follow(path[Len(lines)], e) /\ longer[i - 1] = path[Len(lines)]
      BY <1>1, <2>3 DEF Extension
    <3> QED
      BY <1>1, <2>3, <3>1
  <2> QED
    BY <1>1, <2>1, <2>2, <2>3
<1>4. longer = [i \in 0..Len(lines) + 1 |-> longer[i]]
  BY DEF Extension
<1> QED
  BY <1>1, <1>3, <1>4 DEF IsPath

LEMMA PathExists ==
    ASSUME NEW S, NEW lines \in Seq(S) PROVE \E path : IsPath(path, lines)
<1> DEFINE T == {n \in Nat : \E s \in Seq(S) : Len(s) = n /\ ~\E path : IsPath(path, s)}
<1> SUFFICES ASSUME T # {} PROVE FALSE
    OBVIOUS
<1>1. PICK n \in T : \A m \in T : n <= m
  BY LeastNumber
<1>2. PICK s \in Seq(S) : Len(s) = n /\ ~\E path : IsPath(path, s)
  OBVIOUS
<1>3. CASE s = <<>>
  <2>1. IsPath([i \in {0} |-> "CREATED"], s)
    BY <1>3 DEF IsPath
  <2> QED
    BY <1>2, <2>1
<1>4. CASE s # <<>>
  <2>1. PICK front \in Seq(S), e \in S : s = Append(front, e)
    BY <1>4, SequenceEmptyOrAppend
  <2>2. Len(front) \in Nat /\ Len(front) < n
    BY <1>2, <2>1
  <2>3. PICK path : IsPath(path, front)
    BY <1>1, <2>2
  <2> QED
    BY <1>2, <2>1, <2>3, ExtendPath
<1> QED
  BY <1>3, <1>4

LEMMA PathIsUnique ==
    ASSUME NEW lines, Len(lines) \in Nat, NEW p, NEW q, IsPath(p, lines), IsPath(q, lines)
    PROVE  p = q
<1> DEFINE T == {n \in 0..Len(lines) : p[n] # q[n]}
<1>1. \A i \in 0..Len(lines) :
        /\ p[i] = IF i = 0 THEN "CREATED" ELSE Follow(p[i - 1], lines[i])
        /\ q[i] = IF i = 0 THEN "CREATED" ELSE Follow(q[i - 1], lines[i])
  BY DEF IsPath
<1>2. T = {}
  <2> SUFFICES ASSUME T # {} PROVE FALSE
      OBVIOUS
  <2>1. T \subseteq Nat
    OBVIOUS
  <2>2. PICK n \in T : \A m \in T : n <= m
    BY <2>1, LeastNumber
  <2>3. n # 0
    BY <1>1
  <2>4. n - 1 \in 0..Len(lines) /\ n - 1 \notin T
    BY <2>2, <2>3
  <2> QED
    BY <1>1, <2>3, <2>4
<1>3. p = [i \in 0..Len(lines) |-> p[i]] /\ q = [i \in 0..Len(lines) |-> q[i]]
  BY DEF IsPath
<1> QED
  BY <1>2, <1>3

LEMMA ReplayOfPath ==
    ASSUME NEW S, NEW lines \in Seq(S), NEW path, IsPath(path, lines)
    PROVE  Replay(lines) = path[Len(lines)]
<1>1. IsPath(CHOOSE p : IsPath(p, lines), lines)
  OBVIOUS
<1> QED
  BY <1>1, ReplayIsPath, PathIsUnique

LEMMA ReplayEmpty == Replay(<<>>) = "CREATED"
<1>1. IsPath([i \in {0} |-> "CREATED"], <<>>)
  BY DEF IsPath
<1> QED
  BY <1>1, ReplayOfPath

\* A log replays line by line.
LEMMA ReplayAppend ==
    ASSUME NEW S, NEW lines \in Seq(S), NEW e \in S
    PROVE  Replay(Append(lines, e)) = Follow(Replay(lines), e)
<1>1. PICK path : IsPath(path, lines)
  BY PathExists
<1>2. Replay(lines) = path[Len(lines)]
  BY <1>1, ReplayOfPath
<1>3. IsPath(Extension(path, lines, e), Append(lines, e))
  BY <1>1, ExtendPath
<1>4. Append(lines, e) \in Seq(S) /\ Len(Append(lines, e)) = Len(lines) + 1
  OBVIOUS
<1>5. Replay(Append(lines, e)) = Extension(path, lines, e)[Len(lines) + 1]
  BY <1>3, <1>4, ReplayOfPath
<1> QED
  BY <1>2, <1>5 DEF Extension

-----------------------------------------------------------------------------
(* A line that is cut off *)

\* On a disk that does not fail only the death of a command cuts a line off, and
\* the lock of a dead command shuts the others out.
TornInv == tail # "whole" => \E c \in Commands : pc[c] = "crashed" /\ lock = c

\* A living command past AcquireLock finds complete lines.
LEMMA LogIsWhole ==
    ASSUME LockInv, TornInv, NEW c \in Commands, pc[c] \in Critical
    PROVE  tail = "whole"
BY DEF LockInv, TornInv, Critical, Steps

\* Once a line is cut off the run's directory does not change any more.
LEMMA DeadDisk ==
    ASSUME TypeInv, LockInv, TornInv, tail # "whole", [Next]_vars
    PROVE  UNCHANGED storeVars
<1>1. PICK c \in Commands : pc[c] = "crashed" /\ lock = c
  BY DEF TornInv
<1>2. \A b \in Commands : pc[b] \notin Critical
  BY LogIsWhole
<1>3. ~(CreateState \/ RecordIntent \/ RecordSettlement)
  BY <1>2 DEF CreateState, RecordIntent, RecordSettlement, Critical, Steps, Commands
<1>4. ASSUME NEW b \in Commands
      PROVE  ~(AppendTransition(b) \/ TransitionFails(b) \/ WriteTransition(b) \/ ReleaseLock(b))
  BY <1>2 DEF AppendTransition, TransitionFails, WriteTransition, ReleaseLock, Critical, Steps
<1>5. ASSUME NEW b \in Commands, TakeLock(b) PROVE UNCHANGED storeVars
  BY <1>1, <1>5, EngineAssumption
     DEF TakeLock, AcquireLock, AcquireLockFails, Commands, storeVars
<1>6. ASSUME NEW b \in Commands, Crash(b) PROVE UNCHANGED storeVars
  <2>1. Appending(b) = "none"
    BY <1>2, AppendingIsTyped DEF Critical, Steps
  <2> QED
    BY <1>6, <2>1 DEF Crash
<1> QED
  BY <1>3, <1>4, <1>5, <1>6, Frames DEF StoreStep

\* How a line is cut off.
LEMMA CutFrame ==
    ASSUME ~IoErrors, TypeInv, LockInv, TornInv, [Next]_vars, tail' # "whole", tail = "whole"
    PROVE  \E c \in Commands :
              Crash(c) /\ Appending(c) # "none" /\ CutAppend(Appending(c))
BY Frames DEF StoreStep, storeVars, CreateState, RecordIntent, RecordSettlement, TakeLock,
   AppendTransition, TransitionFails, WriteTransition, ReleaseLock, Crash, WriteState,
   WriteStateFails, AppendEvent, AppendEventFails, AcquireLock, AcquireLockFails, Release,
   ReleaseFails

LEMMA TornStep ==
    ASSUME ~IoErrors PROVE TypeInv /\ LockInv /\ TornInv /\ [Next]_vars => TornInv'
<1> SUFFICES ASSUME TypeInv, LockInv, TornInv, [Next]_vars, tail' # "whole"
             PROVE  \E c \in Commands : pc'[c] = "crashed" /\ lock' = c
    BY DEF TornInv
<1>1. CASE tail = "whole"
  <2>1. PICK c \in Commands : Crash(c) /\ Appending(c) # "none" /\ CutAppend(Appending(c))
    BY <1>1, CutFrame
  <2>2. lock' = c
    BY <2>1, AppendingIsTyped DEF LockInv, Critical, Steps, CutAppend
  <2>3. pc'[c] = "crashed"
    BY <2>1 DEF Crash, End, Goto, TypeInv, TypeOK, ControlTypeOK
  <2> QED
    BY <2>2, <2>3
<1>2. CASE tail # "whole"
  <2>1. PICK c \in Commands : pc[c] = "crashed" /\ lock = c
    BY <1>2 DEF TornInv
  <2> QED
    BY <1>2, <2>1, WriteFrame, DeadDisk DEF storeVars
<1> QED
  BY <1>1, <1>2

-----------------------------------------------------------------------------
(* The log and the record *)

\* The transition table gives a state and an event one next state at most.
LEMMA MovesAreAFunction ==
    ASSUME NEW s, NEW e, NEW t, NEW u, <<s, e, t>> \in Moves, <<s, e, u>> \in Moves
    PROVE  t = u
BY DEF Moves, transitions, interrupts

LEMMA FollowMove ==
    ASSUME NEW s, NEW e, NEW t, <<s, e, t>> \in Moves PROVE Follow(s, e) = t
<1>1. e \in Events /\ e \notin LogTypes /\ t \in RunStates
  BY MovesAreTyped DEF Events, LogTypes
<1>2. \A next \in RunStates : <<s, e, next>> \in Moves => next = t
  BY MovesAreAFunction
<1>3. (CHOOSE next \in RunStates : <<s, e, next>> \in Moves) = t
  BY <1>1, <1>2
<1> QED
  BY <1>1, <1>3 DEF Follow, Accepts

LEMMA FollowEffect == \A s : \A e \in LogTypes : Follow(s, e) = s
BY DEF Follow, LogTypes, Events

LogAgrees == snapshot = NoRun \/ snapshot.state = Replay(log)

\* The event is in the log, and the record is not on disk.
LogIsAhead == log # <<>> /\ snapshot.state = Replay(Front(log))

\* The command that should write the record is dead, and its lock stays.
WriteIsLost ==
    /\ LogIsAhead
    /\ Replay(log) \in RunStates
    /\ \E c \in Commands : lock = c /\ pc[c] = "crashed"

\* The command that died in an append left a line that only lacks its newline: the
\* next move of the record, or a line of the effect.
LineIsLast ==
    tail \notin {"whole", "torn"} =>
        /\ snapshot.state \in RunStates
        /\ Follow(snapshot.state, tail) \in RunStates
        /\ LogAgrees

\* The log is ahead of the record from the append of a transition to its write,
\* and for ever when the command dies in between.
LogInv ==
    /\ snapshot = NoRun => log = <<>>
    /\ \A c \in Commands : pc[c] = "write" => LogIsAhead /\ Replay(log) = copy[c].state
    /\ (\A c \in Commands : pc[c] # "write") => LogAgrees \/ WriteIsLost
    /\ LineIsLast

LEMMA LogInit == Init => LogInv /\ TornInv
BY DEF Init, LogInv, LogAgrees, LineIsLast, TornInv

\* Nobody else is in the middle of a transition, and nobody died there.
LEMMA HolderAgrees ==
    ASSUME RecordContext, LogInv, NEW c \in Commands,
           pc[c] \in Critical, pc[c] # "write"
    PROVE  LogAgrees /\ \A b \in Commands : pc[b] # "write"
<1>1. \A b \in Commands : pc[b] # "write"
  BY DEF RecordContext, LockInv, Critical, Steps
<1>2. ~WriteIsLost
  BY DEF RecordContext, LockInv, Critical, WriteIsLost
<1> QED
  BY <1>1, <1>2 DEF LogInv

\* Decides that do not overlap are applied to the record on disk.
LEMMA OriginIsOnDisk ==
    ASSUME ~Overlap, NEW e, Due(snapshot, e) PROVE Origin(snapshot, e) = snapshot.state
BY DEF Due, Decidable, Origin

\* A line that goes to the end of the log.
LEMMA AppendIsAhead ==
    ASSUME TypeInv, LogAgrees, snapshot.state \in RunStates, UNCHANGED snapshot,
           NEW x \in Events \cup LogTypes, log' = Append(log, x)
    PROVE  LogIsAhead' /\ Replay(log') = Follow(snapshot.state, x)
<1>1. log \in Seq(Events \cup LogTypes)
  BY DEF TypeInv, TypeOK, StoreTypeOK
<1>2. Replay(log') = Follow(Replay(log), x)
  BY <1>1, ReplayAppend
<1>3. log' # <<>> /\ Front(log') = log
  BY <1>1 DEF Front
<1>4. snapshot.state = Replay(log)
  BY DEF LogAgrees, NoRun, RunStates
<1> QED
  BY <1>2, <1>3, <1>4 DEF LogIsAhead

\* A command that dies in an append leaves the line it was appending.
LEMMA LineStep ==
    ASSUME ~Overlap, ~IoErrors
    PROVE  RecordContext /\ TornInv /\ LogInv /\ [Next]_vars => LineIsLast'
<1> SUFFICES ASSUME RecordContext, TornInv, LogInv, [Next]_vars, tail' \notin {"whole", "torn"}
             PROVE  /\ snapshot'.state \in RunStates
                    /\ Follow(snapshot'.state, tail') \in RunStates
                    /\ LogAgrees'
    BY DEF LineIsLast
<1> USE DEF RecordContext, WholeInv
<1>1. CASE tail # "whole"
  <2>1. UNCHANGED <<snapshot, log, tail>>
    BY <1>1, DeadDisk DEF storeVars
  <2> QED
    BY <2>1 DEF LogInv, LineIsLast, LogAgrees
<1>2. CASE tail = "whole"
  <2>1. PICK c \in Commands : Crash(c) /\ Appending(c) # "none" /\ CutAppend(Appending(c))
    BY <1>2, CutFrame
  <2>2. UNCHANGED <<snapshot, log>> /\ tail' = Appending(c)
    BY <2>1 DEF CutAppend
  <2>3. pc[c] \in {"append", "intent", "settle"}
    BY <2>1, AppendingIsTyped
  <2>4. LogAgrees
    BY <2>3, HolderAgrees DEF Critical, Steps
  <2>5. CASE pc[c] = "append"
    <3>1. tail' = event[c] /\ Accepts(copy[c].state, event[c])
      BY <2>1, <2>2, <2>5 DEF Appending
    <3>2. PICK next \in RunStates : <<copy[c].state, event[c], next>> \in Moves
      BY <3>1 DEF Accepts
    <3>3. <<snapshot.state, event[c], next>> \in Moves
      BY <2>5, <3>2, OriginIsOnDisk DEF RecordInv, TransitionInv
    <3> QED
      BY <2>2, <2>4, <3>1, <3>3, FollowMove, MovesAreTyped DEF LogAgrees
  <2>6. CASE pc[c] \in {"intent", "settle"}
    <3>1. c = Runner
      BY <2>6 DEF PhaseInv, DeciderSteps, Commands
    <3>2. snapshot.state = "IMPLEMENTING"
      BY <2>6, <3>1 DEF RecordInv, RunnerInv, Implementing
    <3>3. tail' \in LogTypes
      BY <2>2, <2>6 DEF Appending, LogTypes
    <3> QED
      BY <2>2, <2>4, <3>2, <3>3, FollowEffect DEF LogAgrees, RunStates
  <2> QED
    BY <2>3, <2>5, <2>6
<1> QED
  BY <1>1, <1>2

LEMMA LogStep ==
    ASSUME ~Overlap, ~IoErrors
    PROVE  RecordContext /\ TornInv /\ LogInv /\ [Next]_vars => LogInv'
<1> SUFFICES ASSUME RecordContext, TornInv, LogInv, [Next]_vars PROVE LogInv'
    OBVIOUS
<1>0. TypeInv /\ LockInv /\ LineIsLast'
  BY LineStep DEF RecordContext, WholeInv
<1> USE <1>0
<1>1. ASSUME NEW c \in Commands, AppendTransition(c) PROVE LogInv'
  <2>1. PICK next \in RunStates :
        /\ <<copy[c].state, event[c], next>> \in Moves
        /\ log' = Append(log, event[c])
        /\ copy' = [copy EXCEPT ![c].state = next]
    BY <1>1, LogIsWhole DEF AppendTransition, AppendEvent, Critical, Steps
  <2>2. pc[c] = "append" /\ UNCHANGED snapshot
    BY <1>1 DEF AppendTransition, AppendEvent
  <2>3. <<snapshot.state, event[c], next>> \in Moves
    BY <2>1, <2>2, OriginIsOnDisk DEF RecordContext, RecordInv, TransitionInv
  <2>4. snapshot.state \in RunStates /\ event[c] \in Events
    BY <2>3, MovesAreTyped
  <2>5. LogAgrees /\ \A b \in Commands : pc[b] # "write"
    BY <2>2, HolderAgrees DEF Critical, Steps
  <2>6. LogIsAhead' /\ Replay(log') = next
    BY <2>1, <2>2, <2>3, <2>4, <2>5, AppendIsAhead, FollowMove
  <2>7. copy'[c].state = next
    BY <2>1 DEF TypeInv, TypeOK, ControlTypeOK, RunRecords
  <2>8. \A b \in Commands : pc'[b] = "write" => b = c
    BY <1>1, <2>5 DEF AppendTransition, Goto
  <2>9. pc'[c] = "write" /\ snapshot' # NoRun
    BY <1>1, <2>2, <2>4 DEF AppendTransition, Goto, TypeInv, TypeOK, ControlTypeOK, NoRun,
       RunStates
  <2> QED
    BY <2>6, <2>7, <2>8, <2>9 DEF LogInv
<1>2. ASSUME NEW c \in Commands, WriteTransition(c) PROVE LogInv'
  <2>1. pc[c] = "write" /\ snapshot' = copy[c] /\ log' = log
    BY <1>2 DEF WriteTransition, WriteState, WriteStateFails
  <2>2. Replay(log) = copy[c].state /\ copy[c].state \in RunStates
    BY <2>1, MovesAreTyped DEF LogInv, RecordContext, RecordInv, TransitionInv
  <2>3. \A b \in Commands \ {c} : pc[b] \notin {"append", "write"}
    BY <2>1, OneTransition DEF Context, RecordContext, WholeInv
  <2>4. \A b \in Commands : pc'[b] # "write"
    <3>1. pc'[c] # "write"
      BY <1>2 DEF WriteTransition, Goto, After, Bail, TypeInv, TypeOK, ControlTypeOK
    <3> QED
      BY <2>1, <2>3, <3>1, WriteFrame DEF AppendTransition
  <2> QED
    BY <2>1, <2>2, <2>4 DEF LogInv, LogAgrees, NoRun, RunStates
<1>3. CASE CreateState
  <2>1. /\ pc[Runner] = "create" /\ snapshot = NoRun /\ log' = log
        /\ snapshot' = NewRun
    BY <1>3 DEF CreateState, WriteState, WriteStateFails, RecordContext, RecordInv, RunnerInv
  <2>2. log = <<>>
    BY <2>1 DEF LogInv
  <2>3. \A b \in Commands : pc[b] # "write"
    BY <2>1, HolderAgrees DEF Critical, Steps, Commands
  <2>4. \A b \in Commands : pc'[b] # "write"
    BY <1>3, <2>1, <2>3 DEF CreateState, Begin, Bail, Goto, Commands, TypeInv, TypeOK,
       ControlTypeOK
  <2> QED
    BY <2>1, <2>2, <2>4, ReplayEmpty DEF LogInv, LogAgrees, NewRun, NoRun
<1>4. ASSUME NEW x \in LogTypes, log' = Append(log, x), UNCHANGED snapshot,
             pc[Runner] \in Implementing, \A b \in Commands : pc'[b] # "write"
      PROVE  LogInv'
  <2>1. snapshot.state = "IMPLEMENTING"
    BY <1>4 DEF RecordContext, RecordInv, RunnerInv
  <2>2. LogAgrees
    BY <1>4, HolderAgrees DEF Implementing, Critical, Steps, Commands
  <2>3. Replay(log') = "IMPLEMENTING"
    BY <1>4, <2>1, <2>2, AppendIsAhead, FollowEffect DEF RunStates
  <2> QED
    BY <1>4, <2>1, <2>3 DEF LogInv, LogAgrees, NoRun
<1>5. CASE (RecordIntent \/ RecordSettlement) /\ log' # log
  <2>1. pc[Runner] \in {"intent", "settle"} /\ UNCHANGED snapshot
    BY <1>5 DEF RecordIntent, RecordSettlement, AppendEvent, AppendEventFails
  <2>2. \E x \in LogTypes : log' = Append(log, x)
    BY <1>5 DEF RecordIntent, RecordSettlement, AppendEvent, AppendEventFails, LogTypes
  <2>3. \A b \in Commands : pc[b] # "write"
    BY <2>1, HolderAgrees DEF Critical, Steps, Commands
  <2>4. \A b \in Commands : pc'[b] # "write"
    BY <1>5, <2>3 DEF RecordIntent, RecordSettlement, Bail, Goto, RequireRecovery, Begin,
       Commands, TypeInv, TypeOK, ControlTypeOK
  <2> QED
    BY <1>4, <2>1, <2>2, <2>4 DEF Implementing
<1>6. ASSUME NEW c \in Commands, Crash(c) PROVE LogInv'
  <2>1. UNCHANGED <<snapshot, log, lock>> /\ pc' = [pc EXCEPT ![c] = "crashed"]
    BY <1>6 DEF Crash, End, Goto, CutAppend, storeVars
  <2>2. CASE pc[c] = "write"
    <3>1. LogIsAhead /\ Replay(log) \in RunStates /\ lock = c
      BY <2>2, MovesAreTyped
         DEF LogInv, RecordContext, RecordInv, TransitionInv, LockInv, Critical, Steps
    <3>2. WriteIsLost'
      BY <2>1, <3>1 DEF WriteIsLost, LogIsAhead, TypeInv, TypeOK, ControlTypeOK
    <3>3. \A b \in Commands : pc'[b] # "write"
      BY <2>1, <2>2, OneTransition DEF Context, RecordContext, WholeInv, TypeInv, TypeOK, ControlTypeOK
    <3> QED
      BY <2>1, <3>2, <3>3 DEF LogInv
  <2>3. CASE pc[c] # "write"
    <3>1. \A b \in Commands : pc'[b] = "write" <=> pc[b] = "write"
      BY <2>1, <2>3 DEF TypeInv, TypeOK, ControlTypeOK
    <3>2. \A b \in Commands : pc'[b] = "write" => copy'[b] = copy[b]
      BY <2>3, <3>1, <1>6 DEF Crash, End
    <3>3. WriteIsLost => WriteIsLost'
      BY <2>1, WriteFrame DEF WriteIsLost, LogIsAhead
    <3> QED
      BY <2>1, <3>1, <3>2, <3>3 DEF LogInv, LogAgrees, LogIsAhead
  <2> QED
    BY <2>2, <2>3
<1>7. ASSUME UNCHANGED <<snapshot, log>>,
             \A c \in Commands : ~(AppendTransition(c) \/ WriteTransition(c) \/ Crash(c)),
             WriteIsLost => UNCHANGED lock
      PROVE  LogInv'
  <2>1. \A c \in Commands : /\ pc'[c] = "write" <=> pc[c] = "write"
                            /\ pc'[c] = "write" => copy'[c] = copy[c]
    BY <1>7, WriteFrame
  <2>2. WriteIsLost => WriteIsLost'
    BY <1>7, WriteFrame DEF WriteIsLost, LogIsAhead
  <2> QED
    BY <1>7, <2>1, <2>2 DEF LogInv, LogAgrees, LogIsAhead
<1>8. ASSUME NEW c \in Commands, TransitionFails(c) \/ TakeLock(c) \/ ReleaseLock(c)
      PROVE  UNCHANGED <<snapshot, log>> /\ (WriteIsLost => UNCHANGED lock)
  <2>1. UNCHANGED <<snapshot, log>>
    BY <1>8 DEF TransitionFails, TakeLock, ReleaseLock, storeVars, AppendEventFails,
       AcquireLock, AcquireLockFails, Release, ReleaseFails
  <2>2. TransitionFails(c) => UNCHANGED lock
    BY DEF TransitionFails, storeVars, AppendEventFails
  <2>3. TakeLock(c) => UNCHANGED lock \/ lock = NoOwner
    BY DEF TakeLock, AcquireLock, AcquireLockFails
  <2>4. ReleaseLock(c) => lock = c /\ pc[c] = "release"
    BY DEF ReleaseLock, RecordContext, LockInv, Critical, Steps
  <2> QED
    BY <1>8, <2>1, <2>2, <2>3, <2>4, EngineAssumption DEF WriteIsLost, Commands
<1>9. CASE (RecordIntent \/ RecordSettlement) /\ log' = log
  <2>1. UNCHANGED <<snapshot, log, lock>>
    BY <1>9 DEF RecordIntent, RecordSettlement, AppendEvent, AppendEventFails
  <2> QED
    BY <1>1, <1>2, <1>6, <1>7, <2>1
<1>10. CASE UNCHANGED storeVars
  BY <1>1, <1>2, <1>6, <1>7, <1>10 DEF storeVars
<1> QED
  BY <1>1, <1>2, <1>3, <1>5, <1>6, <1>7, <1>8, <1>9, <1>10, Frames DEF StoreStep

-----------------------------------------------------------------------------
(* The theorem *)

\* The log replays to the state on disk, or to the one that the holder of the
\* lock is about to write or died before it wrote.
THEOREM LogReplaysToRecord ==
    ASSUME ~Overlap, ~IoErrors PROVE Spec => []LogReplays
<1>1. RecordContext /\ TornInv /\ LogInv => LogReplays
  <2> SUFFICES ASSUME RecordContext, TornInv, LogInv PROVE LogReplays
      OBVIOUS
  <2>1. snapshot.state # "INVALID"
    BY DEF RecordContext, WholeInv, TypeInv, TypeOK, StoreTypeOK, RunRecords, RunStates
  <2>2. CASE tail \notin {"whole", "torn"}
    <3>1. Lines = Append(log, tail) /\ log \in Seq(Events \cup LogTypes)
          /\ tail \in Events \cup LogTypes
      BY <2>2 DEF Lines, RecordContext, WholeInv, TypeInv, TypeOK, StoreTypeOK
    <3>2. snapshot.state = Replay(log) /\ Follow(snapshot.state, tail) \in RunStates
      BY <2>2 DEF LogInv, LineIsLast, LogAgrees, NoRun, RunStates
    <3>3. Replay(Lines) = Follow(Replay(log), tail)
      BY <3>1, ReplayAppend
    <3>4. Lines # <<>> /\ Front(Lines) = log
      BY <3>1 DEF Front
    <3>5. lock # NoOwner
      BY <2>2, EngineAssumption DEF TornInv, Commands
    <3> QED
      BY <3>2, <3>3, <3>4, <3>5 DEF LogReplays, RunStates
  <2>3. CASE tail \in {"whole", "torn"}
    <3>1. Lines = log
      BY <2>3 DEF Lines
    <3>2. ASSUME NEW c \in Commands, pc[c] = "write" PROVE LogReplays
      <4>1. LogIsAhead /\ Replay(log) = copy[c].state /\ lock = c
        BY <3>2 DEF LogInv, RecordContext, WholeInv, LockInv, Critical, Steps
      <4>2. copy[c].state \in RunStates
        BY <3>2, MovesAreTyped DEF RecordContext, RecordInv, TransitionInv
      <4> QED
        BY <3>1, <4>1, <4>2, EngineAssumption DEF LogReplays, LogIsAhead, RunStates, Commands
    <3>3. CASE LogAgrees
      BY <2>1, <3>1, <3>3, ReplayEmpty DEF LogInv, LogAgrees, LogReplays
    <3>4. CASE WriteIsLost
      BY <3>1, <3>4, EngineAssumption
         DEF WriteIsLost, LogIsAhead, LogReplays, RunStates, Commands
    <3> QED
      BY <3>2, <3>3, <3>4 DEF LogInv
  <2> QED
    BY <2>2, <2>3
<1>2. LogInv /\ TornInv /\ RecordContext /\ SoundInv /\ [Next]_vars =>
        LogInv' /\ TornInv' /\ RecordContext' /\ SoundInv'
  <2>1. RecordContext => TypeInv /\ LockInv
    BY DEF RecordContext, WholeInv
  <2> QED
    BY <2>1, LogStep, TornStep, RecordContextStep
<1> QED
  BY LogInit, RecordContextInit, SoundInit, <1>1, <1>2, PTL DEF Spec

-----------------------------------------------------------------------------
(* How a run comes to rest when the disk does not fail *)

Over == pc[Runner] \in {"unwind", "remove", "delete", "release", "returned"}

Unsettled == pc[Runner] \in {"start", "wait", "settle", "crashed"}

Surrendering == InTransition({"write_ambiguous"})

Rest == {"NONE", "AWAITING_APPROVAL"} \cup Decided \cup Terminal

\* Once the Runner is past its transitions the record is at rest.  The effect is
\* unsettled from its intent to its settlement; if that does not come, until the
\* record asks for recovery.
RestInv ==
    /\ TornInv
    /\ Over => snapshot.state \in Rest
    /\ tail = "effect_intent" => pc[Runner] = "crashed"
    /\ Unresolved =>
        \/ Unsettled \/ Surrendering
        \/ Over /\ snapshot.state = "RECOVERY_REQUIRED"

LEMMA RestInit == Init => RestInv
BY DEF Init, RestInv, TornInv, Over, Commands, Unresolved, Pending

\* The event of a transition is acceptable.
LEMMA EventIsAccepted ==
    ASSUME Context, RecordInv, NEW c \in Commands, pc[c] = "append", event[c] \in Events
    PROVE  Accepts(copy[c].state, event[c])
<1>1. Due(snapshot, event[c]) /\ copy[c].state = Origin(snapshot, event[c])
  BY DEF RecordInv, TransitionInv
<1>2. \E next \in RunStates : <<copy[c].state, event[c], next>> \in Moves
  BY <1>1 DEF Due, Origin, Moves, RunStates, Terminal, Events, DecisionEvents, transitions,
     interrupts
<1> QED
  BY <1>2 DEF Accepts

\* How the Runner gets past its transitions.
LEMMA OverFrame ==
    ASSUME ~IoErrors, Context, RecordInv, TornInv, [Next]_vars, Over'
    PROVE  \/ Over
           \/ pc[Runner] \in {"idle", "lock"} /\ UNCHANGED snapshot
           \/ /\ pc[Runner] = "write" /\ snapshot' = copy[Runner]
              /\ event[Runner] \in {"verification_finished", "failed", "write_ambiguous"}
<1> USE EngineAssumption
    DEF Context, TypeInv, TypeOK, ControlTypeOK, Over, Commands, Goto
<1>1. CASE BeginRun
  BY <1>1 DEF BeginRun, storeVars
<1>2. ASSUME NEW d \in Deciders, BeginDecide(d) \/ DecideStep(d) PROVE Over
  BY <1>2, BeginAdvances DEF Advances, Alone
<1>3. ASSUME NEW c \in Commands, c # Runner, Shared(c) \/ Crash(c) PROVE Over
  BY <1>3, SharedAdvances, BeginAdvances DEF Advances, Alone
<1>4. CASE TakeLock(Runner) \/ ReleaseLock(Runner) \/ Crash(Runner)
  BY <1>4 DEF TakeLock, ReleaseLock, Crash, End, AcquireLock, AcquireLockFails
<1>5. CASE AppendTransition(Runner)
  BY <1>5 DEF AppendTransition
<1>6. CASE TransitionFails(Runner)
  <2>1. pc[Runner] = "append" /\ Readable
    BY <1>6, LogIsWhole DEF TransitionFails, Critical, Steps, Readable
  <2>2. event[Runner] \in Events
    BY <2>1 DEF PhaseInv
  <2> QED
    BY <1>6, <2>1, <2>2, EventIsAccepted DEF TransitionFails, AppendEventFails
<1>7. CASE WriteTransition(Runner)
  <2>1. pc[Runner] = "write" /\ snapshot' = copy[Runner] /\ pc'[Runner] = After(event[Runner])
    BY <1>7 DEF WriteTransition, WriteState, WriteStateFails
  <2>2. event[Runner] \in Events \ DecisionEvents
    BY <2>1, MoveTargets DEF RecordInv, TransitionInv, PhaseInv
  <2> QED
    BY <2>1, <2>2 DEF After, Events, DecisionEvents
<1>8. CASE CreateState \/ AddWriterTree \/ StartWriter \/ WaitForWriter \/ RecordSettlement
  BY <1>8 DEF CreateState, WriteStateFails, AddWriterTree, StartWriter, WaitForWriter,
     RecordSettlement, Begin, Fail, RequireRecovery
<1>9. CASE RecordIntent
  BY <1>9, LogIsWhole DEF RecordIntent, AppendEventFails, Critical, Steps, Readable
<1>10. CASE InspectResult \/ AddVerifierTree \/ Verify \/ WriteEvidence \/ PublishPacket
  BY <1>10 DEF InspectResult, AddVerifierTree, Verify, WriteEvidence, PublishPacket, Begin,
     Fail
<1>11. CASE RemoveVerifierTree \/ CheckWriterTree \/ RecheckWriterTree \/ DeleteWriterTree \/ FinishUnwind
  BY <1>11 DEF RemoveVerifierTree, CheckWriterTree, RecheckWriterTree, DeleteWriterTree, FinishUnwind
<1>12. CASE WriterWorks \/ WriterExits \/ UNCHANGED vars
  BY <1>12 DEF WriterWorks, WriterExits, vars
<1> QED
  BY <1>1, <1>2, <1>3, <1>4, <1>5, <1>6, <1>7, <1>8, <1>9, <1>10, <1>11, <1>12
     DEF Next, Shared, RunStep, Finished

\* A record at rest is changed by decisions only.
LEMMA RestStays ==
    ASSUME RecordContext, [Next]_vars, Over, snapshot' # snapshot
    PROVE  snapshot.state # "RECOVERY_REQUIRED" /\ snapshot'.state \in Decided
<1>1. CASE CreateState
  BY <1>1 DEF CreateState, Over
<1>2. ASSUME NEW c \in Commands, WriteTransition(c)
      PROVE  snapshot.state # "RECOVERY_REQUIRED" /\ snapshot'.state \in Decided
  <2>1. pc[c] = "write" /\ snapshot' = copy[c]
    BY <1>2 DEF WriteTransition, WriteState, WriteStateFails
  <2>2. <<Origin(snapshot, event[c]), event[c], copy[c].state>> \in Moves /\ Due(snapshot, event[c])
    BY <2>1 DEF RecordContext, RecordInv, TransitionInv
  <2>3. c \in Deciders
    BY <2>1 DEF Over, Commands
  <2>4. event[c] \in DecisionEvents
    BY <2>2, <2>3, MoveTargets DEF RecordContext, WholeInv, PhaseInv, Events
  <2> QED
    BY <2>1, <2>2, <2>4, MoveTargets DEF Due, Decidable, Decided
<1> QED
  BY <1>1, <1>2, RecordWriters

\* Where the Runner goes while the effect is ambiguous.
AmbiguousFrame ==
    /\ RecordIntent => Unsettled'
    /\ Unsettled => Unsettled' \/ Surrendering' \/ RecordsSettlement
    /\ Surrendering =>
        \/ Unsettled' \/ Surrendering'
        \/ Over' /\ snapshot' = copy[Runner] /\ pc[Runner] = "write"
    /\ Over => Over' \/ Unsettled'

LEMMA AmbiguityFollows ==
    ASSUME ~IoErrors, Context, RecordInv, TornInv, [Next]_vars PROVE AmbiguousFrame
<1> USE EngineAssumption
    DEF Context, TypeInv, TypeOK, ControlTypeOK, AmbiguousFrame, Unsettled, Surrendering,
        InTransition, Over, Commands, Goto
<1>1. CASE BeginRun \/ CreateState \/ AddWriterTree
  BY <1>1 DEF BeginRun, CreateState, AddWriterTree, RecordIntent
<1>2. ASSUME NEW d \in Deciders, BeginDecide(d) \/ DecideStep(d) PROVE AmbiguousFrame
  <2>1. pc'[Runner] = pc[Runner] /\ event'[Runner] = event[Runner]
    BY <1>2, BeginAdvances DEF Advances, Alone
  <2>2. ~RecordIntent
    BY <1>2, <2>1 DEF RecordIntent, Bail
  <2> QED
    BY <2>1, <2>2
<1>3. ASSUME NEW c \in Commands, c # Runner, Shared(c) \/ Crash(c) PROVE AmbiguousFrame
  <2>1. pc'[Runner] = pc[Runner] /\ event'[Runner] = event[Runner]
    BY <1>3, SharedAdvances, BeginAdvances DEF Advances, Alone
  <2>2. ~RecordIntent
    BY <1>3, <2>1 DEF RecordIntent, Bail
  <2> QED
    BY <2>1, <2>2
<1>4. CASE TakeLock(Runner) \/ ReleaseLock(Runner) \/ Crash(Runner)
  BY <1>4 DEF TakeLock, ReleaseLock, Crash, End, RecordIntent, Ended
<1>5. CASE AppendTransition(Runner)
  BY <1>5 DEF AppendTransition, RecordIntent
<1>6. CASE TransitionFails(Runner)
  <2>1. pc[Runner] = "append" /\ Readable
    BY <1>6, LogIsWhole DEF TransitionFails, Critical, Steps, Readable
  <2>2. event[Runner] \in Events
    BY <2>1 DEF PhaseInv
  <2> QED
    BY <1>6, <2>1, <2>2, EventIsAccepted DEF TransitionFails, AppendEventFails
<1>7. CASE WriteTransition(Runner)
  BY <1>7 DEF WriteTransition, WriteState, WriteStateFails, After, RecordIntent
<1>8. CASE RecordIntent
  BY <1>8, LogIsWhole DEF RecordIntent, AppendEventFails, Critical, Steps, Readable
<1>9. CASE StartWriter \/ WaitForWriter
  BY <1>9 DEF StartWriter, WaitForWriter, RequireRecovery, Begin, RecordIntent
<1>10. CASE RecordSettlement
  BY <1>10 DEF RecordSettlement, RecordsSettlement, RequireRecovery, Begin, AppendEvent,
     RecordIntent
<1>11. CASE InspectResult \/ AddVerifierTree \/ Verify \/ WriteEvidence \/ PublishPacket
  BY <1>11 DEF InspectResult, AddVerifierTree, Verify, WriteEvidence, PublishPacket,
     RecordIntent
<1>12. CASE RemoveVerifierTree \/ CheckWriterTree \/ RecheckWriterTree \/ DeleteWriterTree \/ FinishUnwind
  BY <1>12 DEF RemoveVerifierTree, CheckWriterTree, RecheckWriterTree, DeleteWriterTree, FinishUnwind,
     RecordIntent
<1>13. CASE WriterWorks \/ WriterExits \/ UNCHANGED vars
  BY <1>13 DEF WriterWorks, WriterExits, vars, RecordIntent, Bail
<1> QED
  BY <1>1, <1>2, <1>3, <1>4, <1>5, <1>6, <1>7, <1>8, <1>9, <1>10, <1>11, <1>12, <1>13
     DEF Next, Shared, RunStep, Finished

LEMMA RestStep ==
    ASSUME ~IoErrors PROVE RecordContext /\ RestInv /\ [Next]_vars => RestInv'
<1> SUFFICES ASSUME RecordContext, RestInv, [Next]_vars PROVE RestInv'
    OBVIOUS
<1>0. Context /\ RecordInv /\ TornInv
  BY DEF RecordContext, WholeInv, Context, RestInv
<1>1. TornInv'
  BY <1>0, TornStep DEF Context
<1>2. ASSUME Over' PROVE snapshot'.state \in Rest
  <2>1. CASE Over
    BY <2>1, RestStays DEF RestInv, Rest
  <2>2. CASE pc[Runner] \in {"idle", "lock"} /\ UNCHANGED snapshot
    BY <1>0, <2>2 DEF RecordInv, RunnerInv, NoRun, Rest
  <2>3. CASE /\ pc[Runner] = "write" /\ snapshot' = copy[Runner]
             /\ event[Runner] \in {"verification_finished", "failed", "write_ambiguous"}
    BY <1>0, <2>3, MoveTargets DEF RecordInv, TransitionInv, Rest, Terminal, Commands
  <2> QED
    BY <1>0, <1>2, <2>1, <2>2, <2>3, OverFrame
<1>3. ASSUME Unresolved'
      PROVE  Unsettled' \/ Surrendering' \/ (Over' /\ snapshot'.state = "RECOVERY_REQUIRED")
  <2>1. (Unresolved \/ RecordIntent) /\ ~RecordsSettlement
    BY <1>3, UnresolvedFrame DEF RecordContext, WholeInv
  <2>2. AmbiguousFrame
    BY <1>0, AmbiguityFollows
  <2>3. CASE RecordIntent \/ Unsettled
    BY <2>1, <2>2, <2>3 DEF AmbiguousFrame
  <2>4. CASE Surrendering
    <3>1. pc[Runner] = "write" => copy[Runner].state = "RECOVERY_REQUIRED"
      BY <1>0, <2>4, MoveTargets DEF Surrendering, InTransition, RecordInv, TransitionInv,
         Commands
    <3> QED
      BY <2>2, <2>4, <3>1 DEF AmbiguousFrame
  <2>5. CASE Over /\ snapshot.state = "RECOVERY_REQUIRED"
    BY <2>2, <2>5, RestStays DEF AmbiguousFrame
  <2> QED
    BY <2>1, <2>3, <2>4, <2>5 DEF RestInv
<1>4. ASSUME tail' = "effect_intent" PROVE pc'[Runner] = "crashed"
  <2>1. CASE tail = "effect_intent"
    BY <1>0, <2>1, WriteFrame DEF RestInv, Context, Commands
  <2>2. CASE tail # "effect_intent"
    <3>1. pc[Runner] = "intent"
      BY <1>0, <1>4, <2>2, IntentFrame DEF Context
    <3>2. tail = "whole"
      BY <1>0, <3>1, LogIsWhole DEF Context, Critical, Steps, Commands
    <3>3. PICK c \in Commands : Crash(c) /\ Appending(c) # "none"
      BY <1>0, <1>4, <3>2, CutFrame DEF Context
    <3>4. c = Runner
      BY <1>0, <3>1, <3>3, AppendingIsTyped DEF Context, LockInv, Critical, Steps, Commands
    <3> QED
      BY <1>0, <3>3, <3>4 DEF Crash, End, Goto, Context, TypeInv, TypeOK, ControlTypeOK
  <2> QED
    BY <2>1, <2>2
<1> QED
  BY <1>1, <1>2, <1>3, <1>4 DEF RestInv

\* As long as the disk does not fail, a run whose command has returned is at rest,
\* whatever git, the writer, the verification and the decides did.
THEOREM ReturnsAtRest == ASSUME ~IoErrors PROVE Spec => []RunReturnsAtRest
<1>1. RecordContext /\ RestInv => RunReturnsAtRest
  BY AmbiguityIsUnresolved DEF RecordContext, WholeInv, TypeInv, TypeOK, RestInv,
     RunReturnsAtRest, Unsettled, Surrendering, Over, Rest, InTransition
<1>2. RecordContext /\ SoundInv /\ RestInv /\ [Next]_vars =>
        RecordContext' /\ SoundInv' /\ RestInv'
  BY RecordContextStep, RestStep
<1> QED
  BY RecordContextInit, SoundInit, RestInit, <1>1, <1>2, PTL DEF Spec
=============================================================================
