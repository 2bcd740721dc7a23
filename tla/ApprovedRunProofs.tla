-------------------------- MODULE ApprovedRunProofs --------------------------
(* Theorems about the gate, the verification and the evidence together, for *)
(* every set of directories, commits and tasks.                             *)
EXTENDS ApprovedRun, TLAPS

-----------------------------------------------------------------------------
(* The gate *)

\* A task is what the file said but for what Prepare resolved; after the digest
\* was compared it is the approved one, and later its root is the repository's.
GateInv ==
    /\ approved # NoTask => Gate!ValidateTask(approved)
    /\ pc \in {"root", "base", "digest", "mismatch"} => loaded # NoTask /\ task # NoTask
    /\ pc = "root" => task = loaded
    /\ pc = "base" => task.ref = loaded.ref /\ task.work = loaded.work
    /\ pc \in {"digest", "mismatch"} =>
        /\ loaded.ref \in Commits => task.ref = loaded.ref
        /\ task.work = loaded.work
    /\ pc = "mismatch" => task # approved
    /\ pc \in {"policy", "canonical", "probe", "admitted"} =>
        task = approved /\ approved # NoTask
    /\ pc \in {"probe", "admitted"} => repository = task.root

LEMMA TasksAreRecords ==
    /\ \A t \in Gate!Tasks : /\ t # NoTask
                             /\ t.root \in Places /\ t.ref \in Gate!Refs /\ t.work \in Works
                             /\ t = [root |-> t.root, ref |-> t.ref, work |-> t.work]
    /\ \A r \in Places, f \in Gate!Refs, w \in Works :
            [root |-> r, ref |-> f, work |-> w] \in Gate!Tasks
BY TaskAssumption DEF Gate!Tasks

\* What Prepare puts into a task leaves the rest of it alone.
LEMMA Resolved ==
    ASSUME NEW t \in Gate!Tasks, NEW p \in Places, NEW f \in Gate!Refs
    PROVE  /\ [t EXCEPT !.root = p] \in Gate!Tasks
           /\ [t EXCEPT !.root = p].ref = t.ref
           /\ [t EXCEPT !.root = p].work = t.work
           /\ [t EXCEPT !.ref = f] \in Gate!Tasks
           /\ [t EXCEPT !.ref = f].ref = f
           /\ [t EXCEPT !.ref = f].work = t.work
BY DEF Gate!Tasks

LEMMA Resolutions ==
    ASSUME Gate!TypeOK, NEW t \in Gate!Tasks
    PROVE  /\ toplevel[t.root] \in Places
           /\ Gate!ResolveCommit(t.root, t.ref) \in Gate!Refs
           /\ t.ref \in Commits => Gate!ResolveCommit(t.root, t.ref) = t.ref
           /\ Gate!ResolveCommit(t.root, t.ref) \in Commits
<1>1. toplevel \in [Places -> Places] /\ tip \in [Places -> Commits]
  BY DEF Gate!TypeOK, Gate!Layouts
<1> QED
  BY <1>1, TasksAreRecords, TaskAssumption DEF Gate!ResolveCommit, Gate!Refs

LEMMA GateInit == Init => Gate!TypeOK /\ GateInv
BY DEF Init, Gate!Init, Gate!TypeOK, GateInv

LEMMA GateTypeStep == Gate!TypeOK /\ GateInv /\ Gate!Next => Gate!TypeOK'
<1> SUFFICES ASSUME Gate!TypeOK, GateInv, Gate!Next PROVE Gate!TypeOK'
    OBVIOUS
<1> USE TaskAssumption DEF Gate!TypeOK, GateInv, Gate!env
<1>1. CASE Gate!Relink \/ Gate!MoveBranch
  BY <1>1 DEF Gate!Relink, Gate!MoveBranch
<1>2. ASSUME Gate!Refuse PROVE Gate!TypeOK'
  BY <1>2 DEF Gate!Refuse, Gate!Return
<1>3. CASE Gate!Start("prepare") \/ Gate!Start("run")
  BY <1>3 DEF Gate!Start
<1>4. CASE Gate!Load
  BY <1>2, <1>4 DEF Gate!Load
<1>5. CASE Gate!ResolveRoot
  <2>1. pc = "root" => task \in Gate!Tasks
    OBVIOUS
  <2>2. pc = "root" => [task EXCEPT !.root = toplevel[task.root]] \in Gate!Tasks
    BY <2>1, Resolved, Resolutions, TasksAreRecords
  <2> QED
    BY <1>2, <1>5, <2>2 DEF Gate!ResolveRoot
<1>6. CASE Gate!ResolveBase
  <2>1. pc = "base" => task \in Gate!Tasks
    OBVIOUS
  <2> QED
    BY <1>2, <1>6, <2>1, Resolved, Resolutions, TasksAreRecords DEF Gate!ResolveBase
<1>7. CASE Gate!PrintDigest
  BY <1>7 DEF Gate!PrintDigest, Gate!Return
<1>8. CASE Gate!CheckDigest \/ Gate!CheckCommands
  BY <1>2, <1>8 DEF Gate!CheckDigest, Gate!CheckCommands
<1>9. CASE Gate!CheckCanonicalRoot \/ Gate!Probe
  BY <1>2, <1>9, TasksAreRecords DEF Gate!CheckCanonicalRoot, Gate!Probe
<1> QED
  BY <1>1, <1>3, <1>4, <1>5, <1>6, <1>7, <1>8, <1>9 DEF Gate!Next

LEMMA GateStep == Gate!TypeOK /\ GateInv /\ Gate!Next => GateInv'
<1> SUFFICES ASSUME Gate!TypeOK, GateInv, Gate!Next PROVE GateInv'
    OBVIOUS
<1> USE TaskAssumption, TasksAreRecords DEF Gate!TypeOK, GateInv, Gate!env
<1>1. CASE Gate!Relink \/ Gate!MoveBranch
  BY <1>1 DEF Gate!Relink, Gate!MoveBranch, Gate!ValidateTask
<1>2. ASSUME Gate!Refuse PROVE GateInv'
  BY <1>2 DEF Gate!Refuse, Gate!Return
<1>3. CASE Gate!Start("prepare") \/ Gate!Start("run")
  BY <1>3 DEF Gate!Start
<1>4. CASE Gate!Load
  BY <1>2, <1>4 DEF Gate!Load
<1>5. CASE Gate!ResolveRoot
  <2>1. pc = "root" => task \in Gate!Tasks
    OBVIOUS
  <2> QED
    BY <1>2, <1>5, <2>1, Resolved, Resolutions DEF Gate!ResolveRoot
<1>6. CASE Gate!ResolveBase
  <2>1. pc = "base" => task \in Gate!Tasks
    OBVIOUS
  <2> QED
    BY <1>2, <1>6, <2>1, Resolved, Resolutions DEF Gate!ResolveBase
<1>7. CASE Gate!PrintDigest
  BY <1>7 DEF Gate!PrintDigest, Gate!Return
<1>8. CASE Gate!CheckDigest
  BY <1>2, <1>8 DEF Gate!CheckDigest, Gate!Digest
<1>9. CASE Gate!CheckCommands
  BY <1>2, <1>9 DEF Gate!CheckCommands
<1>10. CASE Gate!CheckCanonicalRoot \/ Gate!Probe
  BY <1>2, <1>10 DEF Gate!CheckCanonicalRoot, Gate!Probe
<1> QED
  BY <1>1, <1>3, <1>4, <1>5, <1>6, <1>7, <1>8, <1>9, <1>10 DEF Gate!Next

-----------------------------------------------------------------------------
(* The verification *)

LEMMA JobsAreBounded ==
    \A j \in Jobs :
        /\ j # NoJob
        /\ j.seconds \in Nat
        /\ j.acceptance \in Seq([argv : Seq(STRING), timeout : Int])
        /\ \A i \in DOMAIN j.acceptance : j.acceptance[i].argv \in Argvs
<1> SUFFICES ASSUME NEW t \in Gate!Tasks, Gate!ValidateTask(t)
             PROVE  LET j == JobOf(t) IN
                        /\ j.seconds \in Nat
                        /\ j.acceptance \in Seq([argv : Seq(STRING), timeout : Int])
                        /\ \A i \in DOMAIN j.acceptance : j.acceptance[i].argv \in Argvs
    BY TaskAssumption DEF Jobs
<1>1. t.work \in Works
  BY TasksAreRecords
<1>2. /\ t.work.seconds \in 1..MaxExecution
      /\ t.work.acceptance \in Seq([argv : Seq(STRING), timeout : Int])
  BY <1>1, TaskAssumption DEF Gate!ValidateTask
<1>3. \A i \in DOMAIN t.work.acceptance : t.work.acceptance[i].argv \in Argvs
  BY DEF Argvs
<1> QED
  BY <1>2, <1>3, TaskAssumption DEF JobOf

\* The verification runs in the run that was admitted, on its commands.
CheckFrame ==
    /\ step = "waiting" <=> job = NoJob
    /\ step # "waiting" => pc = "admitted" /\ job = JobOf(task)

\* The commands that have returned succeeded, in order and in time; the one
\* that runs was started after them.
Succeeded(i) ==
    /\ results[i].argv = job.acceptance[i].argv
    /\ results[i].exit = 0
    /\ results[i].finished - results[i].started < job.acceptance[i].timeout
    /\ results[i].finished < job.seconds
    /\ results[i].finished <= now
    /\ step = "running" => results[i].finished <= started
    /\ i > 1 => results[i - 1].finished <= results[i].started

ResultsInv ==
    /\ step = "waiting" => results = <<>>
    /\ step \in {"next", "running", "write", "published"} =>
        /\ Len(results) <= Len(job.acceptance)
        /\ \A i \in DOMAIN results : Succeeded(i)
    /\ step = "running" => Len(results) < Len(job.acceptance)
    /\ step \in {"write", "published"} =>
        /\ Len(results) = Len(job.acceptance)
        /\ \A i \in DOMAIN results : results[i].output # "secret"

\* The files are what the packet and the record were computed from.
FilesInv ==
    /\ step \in {"waiting", "next", "running", "failed"} => files = <<>>
    /\ files \in {<<>>, <<diff>>, <<diff, bundle>>, <<diff, bundle, packet>>}
    /\ step \in {"write", "published"} =>
        /\ diff # "secret"
        /\ bundle = Check!Bundle(job, results, diff)
        /\ packet = Check!Packet(bundle, results)
    /\ step = "published" =>
        /\ files = <<diff, bundle, packet>>
        /\ record = [verification |-> results, evidence |-> bundle, packet |-> packet]

CheckInv == CheckFrame /\ ResultsInv /\ FilesInv

WholeInv == TypeOK /\ GateInv /\ CheckInv

LEMMA CheckInit == Init => Check!TypeOK /\ CheckInv
BY DEF Init, Check!Init, Check!TypeOK, CheckInv, CheckFrame, ResultsInv, FilesInv,
   Check!Texts, Check!Contents

\* Every step of the composition, with what the gate leaves alone.
LEMMA CheckSteps ==
    ASSUME WholeInv, [Next]_vars
    PROVE  \/ Gate!Next /\ UNCHANGED checkVars
           \/ /\ pc = "admitted" /\ UNCHANGED gateVars
              /\ \E used \in 0..task.work.seconds : Check!Begin(JobOf(task), used)
           \/ Check!Step /\ UNCHANGED gateVars
           \/ UNCHANGED vars
BY DEF Next, PassGate, Verify, CheckStep, Finished, vars

LEMMA AdmittedJob ==
    ASSUME WholeInv, pc = "admitted"
    PROVE  JobOf(task) \in Jobs /\ task = approved /\ task \in Gate!Tasks
BY TasksAreRecords DEF WholeInv, GateInv, TypeOK, Gate!TypeOK, Jobs

\* What a sequence over a set is made of.
LEMMA ElementsOf == ASSUME NEW S, NEW s \in Seq(S) PROVE \A i \in DOMAIN s : s[i] \in S
OBVIOUS

\* A command has its own timeout and what is left of the budget, at most.
LEMMA LimitIsBounded ==
    ASSUME NEW j \in Jobs, NEW i \in DOMAIN j.acceptance, NEW start \in Nat
    PROVE  /\ Check!Limit(j, i, start) \in Int
           /\ Check!Limit(j, i, start) <= j.seconds
           /\ Check!Limit(j, i, start) <= start + j.acceptance[i].timeout
           /\ j.acceptance[i].timeout \in Int
<1>1. j.acceptance[i] \in [argv : Seq(STRING), timeout : Int] /\ j.seconds \in Nat
  <2>1. j.acceptance \in Seq([argv : Seq(STRING), timeout : Int]) /\ j.seconds \in Nat
    BY JobsAreBounded
  <2> QED
    BY <2>1, ElementsOf
<1>2. start + j.acceptance[i].timeout \in Int
  BY <1>1
<1> QED
  BY <1>1, <1>2 DEF Check!Limit

\* The redactor changes outputs and nothing else.
LEMMA Sanitizes ==
    ASSUME results \in Seq(Check!Results)
    PROVE  /\ Check!Sanitized \in Seq(Check!Results)
           /\ Len(Check!Sanitized) = Len(results)
           /\ DOMAIN Check!Sanitized = DOMAIN results
           /\ \A i \in DOMAIN results :
                /\ Check!Sanitized[i].argv = results[i].argv
                /\ Check!Sanitized[i].exit = results[i].exit
                /\ Check!Sanitized[i].started = results[i].started
                /\ Check!Sanitized[i].finished = results[i].finished
                /\ Check!Sanitized[i].output # "secret"
<1>1. ASSUME NEW r \in Check!Results
      PROVE  LET u == [r EXCEPT !.output = Check!Redact(@)] IN
                 /\ u \in Check!Results
                 /\ u.argv = r.argv /\ u.exit = r.exit
                 /\ u.started = r.started /\ u.finished = r.finished
                 /\ u.output # "secret"
  BY DEF Check!Results, Check!Redact, Check!Texts
<1>2. \A i \in DOMAIN results : results[i] \in Check!Results
  OBVIOUS
<1>3. DOMAIN Check!Sanitized = DOMAIN results
  BY DEF Check!Sanitized
<1>4. \A i \in DOMAIN results :
          Check!Sanitized[i] = [results[i] EXCEPT !.output = Check!Redact(@)]
  BY DEF Check!Sanitized
<1>5. Check!Sanitized \in [1..Len(results) -> Check!Results]
  <2>1. Check!Sanitized = [i \in 1..Len(results) |->
                              [results[i] EXCEPT !.output = Check!Redact(@)]]
    BY DEF Check!Sanitized
  <2> QED
    BY <1>1, <1>2, <2>1
<1>6. Check!Sanitized \in Seq(Check!Results) /\ Len(Check!Sanitized) = Len(results)
  BY <1>5
<1>7. ASSUME NEW i \in DOMAIN results
      PROVE  /\ Check!Sanitized[i].argv = results[i].argv
             /\ Check!Sanitized[i].exit = results[i].exit
             /\ Check!Sanitized[i].started = results[i].started
             /\ Check!Sanitized[i].finished = results[i].finished
             /\ Check!Sanitized[i].output # "secret"
  <2> DEFINE r == results[i]
  <2>1. r \in Check!Results /\ Check!Sanitized[i] = [r EXCEPT !.output = Check!Redact(@)]
    BY <1>2, <1>4
  <2> HIDE DEF r
  <2>2. /\ Check!Sanitized[i].argv = r.argv /\ Check!Sanitized[i].exit = r.exit
        /\ Check!Sanitized[i].started = r.started /\ Check!Sanitized[i].finished = r.finished
        /\ Check!Sanitized[i].output # "secret"
    BY <1>1, <2>1
  <2> QED
    BY <2>2 DEF r
<1> QED
  BY <1>3, <1>6, <1>7

LEMMA CheckTypeStep == WholeInv /\ [Next]_vars => Check!TypeOK' /\ CheckFrame'
<1> SUFFICES ASSUME WholeInv, [Next]_vars PROVE Check!TypeOK' /\ CheckFrame'
    OBVIOUS
<1> USE DEF Check!TypeOK, CheckFrame, Check!Ends
<1>0. Check!TypeOK /\ CheckFrame /\ FilesInv
  BY DEF WholeInv, TypeOK, CheckInv
<1>1. CASE Gate!Next /\ UNCHANGED checkVars
  <2>1. pc = "admitted" => UNCHANGED <<pc, task>>
    BY <1>1 DEF Gate!Next, Gate!Relink, Gate!MoveBranch, Gate!Start, Gate!Load,
       Gate!ResolveRoot, Gate!ResolveBase, Gate!PrintDigest, Gate!CheckDigest,
       Gate!CheckCommands, Gate!CheckCanonicalRoot, Gate!Probe
  <2> QED
    BY <1>0, <1>1, <2>1 DEF checkVars, gateVars, Check!Contents
<1>2. ASSUME NEW used \in 0..task.work.seconds, Check!Begin(JobOf(task), used),
             pc = "admitted", UNCHANGED gateVars
      PROVE  Check!TypeOK' /\ CheckFrame'
  <2>1. JobOf(task) \in Jobs /\ JobOf(task) # NoJob /\ JobOf(task).seconds = task.work.seconds
    BY <1>2, AdmittedJob, JobsAreBounded DEF JobOf
  <2>2. task.work.seconds \in Nat
    BY <2>1, JobsAreBounded
  <2> QED
    BY <1>0, <1>2, <2>1, <2>2 DEF Check!Begin, gateVars, Check!Texts, Check!Contents
<1>3. ASSUME Check!Step, UNCHANGED gateVars PROVE Check!TypeOK' /\ CheckFrame'
  <2>1. job \in Jobs /\ job # NoJob /\ job.seconds \in Nat /\ now \in 0..job.seconds /\ started \in 0..now
    <3>1. step # "waiting"
      BY <1>3 DEF Check!Step, Check!EngineStep, Check!StartCommand, Check!CommandTimesOut,
         Check!Assemble, Check!WriteFile, Check!Publish, Check!Tick,
         Check!CommandSucceeds, Check!CommandFails
    <3> QED
      BY <1>0, <3>1, JobsAreBounded
  <2>2. UNCHANGED <<job, pc, task>>
    BY <1>3 DEF gateVars, Check!Step, Check!EngineStep, Check!StartCommand,
       Check!CommandTimesOut, Check!Assemble, Check!WriteFile, Check!Publish,
       Check!Tick, Check!CommandSucceeds, Check!CommandFails
  <2>3. ASSUME step = "running" PROVE Check!Current \in DOMAIN job.acceptance
    BY <1>0, <2>1, <2>3, JobsAreBounded DEF WholeInv, CheckInv, ResultsInv, Check!Current
  <2>4. ASSUME NEW exit \in {0, 1}, NEW output \in {"plain", "secret"}, step = "running"
        PROVE  Append(results, Check!Result(exit, output)) \in Seq(Check!Results)
    <3>1. Check!Result(exit, output) \in Check!Results
      BY <2>1, <2>3, <2>4, JobsAreBounded DEF Check!Result, Check!Results, Check!Texts
    <3> QED
      BY <1>0, <3>1
  <2>5. CASE Check!StartCommand \/ Check!Tick
    <3>1. ASSUME step = "running"
          PROVE  /\ Check!Limit(job, Check!Current, started) \in Int
                 /\ Check!Limit(job, Check!Current, started) <= job.seconds
      BY <2>1, <2>3, <3>1, LimitIsBounded
    <3> QED
      BY <1>0, <2>1, <2>2, <2>5, <2>3, <3>1 DEF Check!StartCommand, Check!Tick,
         Check!Contents
  <2>6. CASE Check!CommandSucceeds \/ Check!CommandFails \/ Check!CommandTimesOut
    BY <1>0, <2>1, <2>2, <2>4, <2>6 DEF Check!CommandSucceeds, Check!CommandFails,
       Check!CommandTimesOut, Check!Contents
  <2>7. CASE Check!Assemble
    <3>1. Check!Sanitized \in Seq(Check!Results)
      BY <1>0, Sanitizes
    <3>2. Check!Redact(diff) \in Check!Texts
      BY <1>0 DEF Check!Redact, Check!Texts
    <3> QED
      BY <1>0, <2>1, <2>2, <2>7, <3>1, <3>2 DEF Check!Assemble, Check!Contents
  <2>8. CASE Check!WriteFile \/ Check!Publish
    BY <1>0, <2>1, <2>2, <2>8 DEF FilesInv, Check!WriteFile, Check!Publish, Check!Contents
  <2> QED
    BY <1>3, <2>5, <2>6, <2>7, <2>8 DEF Check!Step, Check!EngineStep
<1>4. CASE UNCHANGED vars
  BY <1>0, <1>4 DEF vars, checkVars, gateVars, Check!Contents
<1> QED
  BY <1>1, <1>2, <1>3, <1>4, CheckSteps

LEMMA ResultsStep == WholeInv /\ [Next]_vars => ResultsInv'
<1> SUFFICES ASSUME WholeInv, [Next]_vars PROVE ResultsInv'
    OBVIOUS
<1>0. ResultsInv /\ Check!TypeOK /\ CheckFrame
  BY DEF WholeInv, TypeOK, CheckInv
<1> USE DEF ResultsInv
<1>1. CASE UNCHANGED checkVars
  BY <1>0, <1>1 DEF checkVars, Succeeded
<1>2. ASSUME NEW used \in 0..task.work.seconds, Check!Begin(JobOf(task), used),
             pc = "admitted"
      PROVE  ResultsInv'
  <2>1. JobOf(task).acceptance \in Seq([argv : Seq(STRING), timeout : Int])
    BY <1>2, AdmittedJob, JobsAreBounded
  <2> QED
    BY <1>0, <1>2, <2>1 DEF Check!Begin
<1>3. ASSUME Check!Step PROVE ResultsInv'
  <2> DEFINE n == Check!Current
  <2>1. job \in Jobs /\ job.seconds \in Nat /\ now \in Nat /\ started \in Nat /\ started <= now
    <3>1. step # "waiting"
      BY <1>3 DEF Check!Step, Check!EngineStep, Check!StartCommand, Check!CommandTimesOut,
         Check!Assemble, Check!WriteFile, Check!Publish, Check!Tick,
         Check!CommandSucceeds, Check!CommandFails
    <3> QED
      BY <1>0, <3>1, JobsAreBounded DEF Check!TypeOK, CheckFrame
  <2>2. /\ results \in Seq(Check!Results)
        /\ job.acceptance \in Seq([argv : Seq(STRING), timeout : Int])
        /\ Len(results) \in Nat /\ Len(job.acceptance) \in Nat
    BY <1>0, <2>1, JobsAreBounded DEF Check!TypeOK
  <2>3. \A i \in DOMAIN results : /\ results[i].finished \in Nat
                                  /\ results[i].started \in Nat
    <3>1. \A r \in Check!Results : r.finished \in Nat /\ r.started \in Nat
      BY DEF Check!Results
    <3> QED
      BY <2>2, <3>1, ElementsOf
  <2>4. CASE Check!StartCommand \/ Check!Tick
    <3>1. /\ step \in {"next", "running"} /\ step' = "running"
          /\ Len(results) < Len(job.acceptance)
          /\ UNCHANGED <<job, results>>
          /\ now <= now'
          /\ \/ step = "next" /\ started' = now
             \/ step = "running" /\ started' = started
      <4>1. CASE Check!StartCommand
        BY <2>1, <2>2, <4>1 DEF Check!StartCommand, Check!Current
      <4>2. CASE Check!Tick
        BY <1>0, <2>1, <2>2, <4>2 DEF Check!Tick
      <4> QED
        BY <2>4, <4>1, <4>2
    <3>2. ASSUME NEW i \in DOMAIN results PROVE Succeeded(i)'
      <4>1. Succeeded(i)
        BY <1>0, <3>1
      <4>2. now' \in Nat /\ started' \in Nat
        BY <2>1, <2>4 DEF Check!StartCommand, Check!Tick
      <4> QED
        BY <2>1, <2>3, <3>1, <4>1, <4>2 DEF Succeeded
    <3> QED
      BY <2>2, <3>1, <3>2
  <2>5. CASE Check!CommandSucceeds
    <3>1. PICK r : /\ r.argv = job.acceptance[n].argv /\ r.exit = 0
                   /\ r.started = started /\ r.finished = now
                   /\ results' = Append(results, r)
      BY <2>5 DEF Check!CommandSucceeds, Check!Result
    <3>2. n \in DOMAIN job.acceptance /\ n = Len(results) + 1
      BY <1>0, <2>2, <2>5 DEF Check!CommandSucceeds, Check!Current
    <3>3. now < Check!Limit(job, n, started) /\ step = "running" /\ step' = "next"
          /\ UNCHANGED <<job, now, started>>
      BY <2>5 DEF Check!CommandSucceeds
    <3>4. now - started < job.acceptance[n].timeout /\ now < job.seconds
      <4> HIDE DEF n
      <4>1. /\ Check!Limit(job, n, started) \in Int
            /\ Check!Limit(job, n, started) <= job.seconds
            /\ Check!Limit(job, n, started) <= started + job.acceptance[n].timeout
            /\ job.acceptance[n].timeout \in Int
        BY <2>1, <3>2, LimitIsBounded
      <4> QED
        BY <2>1, <3>3, <4>1
    <3>5. /\ Len(results') = n /\ DOMAIN results' = DOMAIN results \cup {n}
          /\ results'[n] = r
          /\ \A i \in DOMAIN results : results'[i] = results[i] /\ i # n
      BY <2>2, <3>1, <3>2
    <3> HIDE DEF n
    <3>6. \A i \in DOMAIN results : Succeeded(i)
      BY <1>0, <3>3
    <3>7. ASSUME NEW i \in DOMAIN results PROVE Succeeded(i)'
      <4>1. i - 1 \in DOMAIN results \/ ~(i > 1)
        BY <2>2
      <4> QED
        BY <2>1, <2>3, <3>3, <3>5, <3>6, <4>1 DEF Succeeded
    <3>8. ASSUME n > 1 PROVE results[n - 1].finished <= started /\ n - 1 \in DOMAIN results
      <4>1. n - 1 \in DOMAIN results
        BY <2>2, <3>2, <3>8
      <4> QED
        BY <3>3, <3>6, <4>1 DEF Succeeded
    <3>9. results'[n].argv = job.acceptance[n].argv /\ results'[n].exit = 0
          /\ results'[n].started = started /\ results'[n].finished = now
      BY <3>1, <3>5
    <3>10. \A i \in DOMAIN results' : Succeeded(i)'
      <4> SUFFICES ASSUME NEW i \in DOMAIN results', i = n PROVE Succeeded(i)'
          BY <3>5, <3>7
      <4> QED
        BY <2>1, <3>3, <3>4, <3>5, <3>8, <3>9 DEF Succeeded
    <3> QED
      BY <1>0, <2>2, <3>2, <3>3, <3>5, <3>10
  <2>6. CASE Check!CommandFails \/ Check!CommandTimesOut
    BY <2>6 DEF Check!CommandFails, Check!CommandTimesOut
  <2>7. CASE Check!Assemble
    <3>1. /\ results' = Check!Sanitized /\ step = "next" /\ step' = "write"
          /\ UNCHANGED <<job, now, started>>
      BY <2>7 DEF Check!Assemble
    <3>2. Len(results) = Len(job.acceptance)
      BY <1>0, <2>2, <2>7 DEF Check!Assemble, Check!Current
    <3> QED
      BY <1>0, <2>2, <3>1, <3>2, Sanitizes DEF Succeeded
  <2>8. CASE Check!WriteFile \/ Check!Publish
    BY <1>0, <2>8 DEF Check!WriteFile, Check!Publish, Succeeded
  <2> QED
    BY <1>3, <2>4, <2>5, <2>6, <2>7, <2>8 DEF Check!Step, Check!EngineStep
<1>4. UNCHANGED vars => UNCHANGED checkVars
  BY DEF vars
<1> QED
  BY <1>1, <1>2, <1>3, <1>4, CheckSteps

LEMMA FilesStep == WholeInv /\ [Next]_vars => FilesInv'
<1> SUFFICES ASSUME WholeInv, [Next]_vars PROVE FilesInv'
    OBVIOUS
<1>0. FilesInv /\ Check!TypeOK
  BY DEF WholeInv, TypeOK, CheckInv
<1> USE DEF FilesInv
<1>1. CASE UNCHANGED checkVars
  BY <1>0, <1>1 DEF checkVars, Check!Bundle, Check!Packet
<1>2. ASSUME NEW used \in 0..task.work.seconds, Check!Begin(JobOf(task), used)
      PROVE  FilesInv'
  BY <1>0, <1>2 DEF Check!Begin
<1>3. CASE Check!StartCommand \/ Check!Tick
  BY <1>0, <1>3 DEF Check!StartCommand, Check!Tick
<1>4. CASE Check!CommandSucceeds \/ Check!CommandFails \/ Check!CommandTimesOut
  BY <1>0, <1>4 DEF Check!CommandSucceeds, Check!CommandFails, Check!CommandTimesOut
<1>5. CASE Check!Assemble
  BY <1>0, <1>5 DEF Check!Assemble, Check!Redact, Check!Bundle, Check!Packet
<1>6. CASE Check!WriteFile
  <2>1. UNCHANGED <<job, results, diff, bundle, packet>> /\ step = "write"
        /\ step' \in {"write", "aborted"}
    BY <1>6 DEF Check!WriteFile
  <2>2. files' \in {<<>>, <<diff>>, <<diff, bundle>>, <<diff, bundle, packet>>}
    <3>1. \/ files' = files
          \/ /\ files' = Append(files, <<diff, bundle, packet>>[Len(files) + 1])
             /\ Len(files) < 3
      BY <1>6 DEF Check!WriteFile, Check!Contents
    <3>2. CASE files = <<>>
      BY <3>1, <3>2
    <3>3. CASE files = <<diff>>
      BY <3>1, <3>3
    <3>4. CASE files = <<diff, bundle>>
      BY <3>1, <3>4
    <3>5. CASE files = <<diff, bundle, packet>>
      BY <3>1, <3>5
    <3> QED
      BY <1>0, <3>2, <3>3, <3>4, <3>5
  <2> QED
    BY <1>0, <2>1, <2>2 DEF Check!Bundle, Check!Packet
<1>7. CASE Check!Publish
  <2>1. /\ step = "write" /\ step' = "published" /\ Len(files) = 3
        /\ UNCHANGED <<job, results, diff, bundle, packet, files>>
        /\ record' = [verification |-> results, evidence |-> bundle, packet |-> packet]
    BY <1>7 DEF Check!Publish, Check!Contents, Check!Digest
  <2>2. files = <<diff, bundle, packet>>
    BY <1>0, <2>1
  <2> QED
    BY <1>0, <2>1, <2>2 DEF Check!Bundle, Check!Packet
<1>8. UNCHANGED vars => UNCHANGED checkVars
  BY DEF vars
<1> QED
  BY <1>1, <1>2, <1>3, <1>4, <1>5, <1>6, <1>7, <1>8, CheckSteps DEF Check!Step,
     Check!EngineStep

-----------------------------------------------------------------------------
(* The theorems *)

LEMMA WholeInit == Init => WholeInv
BY GateInit, CheckInit DEF Init, WholeInv, TypeOK

LEMMA WholeStep == WholeInv /\ [Next]_vars => WholeInv'
<1> SUFFICES ASSUME WholeInv, [Next]_vars PROVE WholeInv'
    OBVIOUS
<1>1. Gate!TypeOK' /\ GateInv'
  <2>1. Gate!TypeOK /\ GateInv
    BY DEF WholeInv, TypeOK
  <2>2. CASE Gate!Next
    BY <2>1, <2>2, GateTypeStep, GateStep
  <2>3. CASE UNCHANGED gateVars
    BY <2>1, <2>3 DEF gateVars, Gate!TypeOK, GateInv, Gate!ValidateTask
  <2> QED
    BY <2>2, <2>3, CheckSteps DEF vars
<1> QED
  BY <1>1, CheckTypeStep, ResultsStep, FilesStep DEF WholeInv, TypeOK, CheckInv

\* Type correctness; with it, the verification never outruns the budget.
THEOREM TypeCorrect == Spec => []TypeOK
<1>1. WholeInv => TypeOK
  BY DEF WholeInv
<1> QED
  BY WholeInit, WholeStep, <1>1, PTL DEF Spec

\* A run is admitted only with the root, the name of a directory, with the commit
\* and with the rest of the task that the human approved.  What is behind the name
\* later is not said.
THEOREM ApprovedAdmitted == Spec => []AdmittedIsApproved
<1>1. WholeInv => AdmittedIsApproved
  <2> SUFFICES ASSUME WholeInv, pc = "admitted"
               PROVE  Gate!Admitted = approved /\ approved.ref \in Commits
      BY DEF AdmittedIsApproved, Gate!AdmittedIsApproved
  <2>1. /\ task = approved /\ repository = task.root
        /\ approved \in Gate!Tasks /\ Gate!ValidateTask(approved)
    BY AdmittedJob DEF WholeInv, GateInv
  <2> QED
    BY <2>1 DEF Gate!Admitted, Gate!Tasks, Gate!ValidateTask
<1> QED
  BY WholeInit, WholeStep, <1>1, PTL DEF Spec

\* The task prepare printed is refused for its digest only if its root moved.
THEOREM VerbatimMatches == Spec => []VerbatimTaskMatches
<1>1. WholeInv => VerbatimTaskMatches
  <2> SUFFICES ASSUME WholeInv, pc = "mismatch", loaded = approved,
                      task.root = approved.root
               PROVE  FALSE
      BY DEF VerbatimTaskMatches, Gate!VerbatimTaskMatches
  <2>1. /\ loaded \in Gate!Tasks /\ task \in Gate!Tasks /\ loaded.ref \in Commits
        /\ task # approved
    BY TasksAreRecords DEF WholeInv, TypeOK, Gate!TypeOK, GateInv, Gate!ValidateTask
  <2>2. task.ref = approved.ref /\ task.work = approved.work
    BY <2>1 DEF WholeInv, GateInv
  <2> QED
    BY <2>1, <2>2, TasksAreRecords
<1> QED
  BY WholeInit, WholeStep, <1>1, PTL DEF Spec

\* What is in the files of a published run.
LEMMA PublishedFiles ==
    ASSUME WholeInv, step = "published"
    PROVE  /\ files[1] = diff /\ files[2] = bundle /\ files[3] = packet
           /\ bundle = [task |-> job.digest, base |-> job.base, artifact |-> diff,
                        verification |-> results]
           /\ packet = [task |-> job.digest, evidence |-> bundle, verification |-> results]
           /\ record = [verification |-> results, evidence |-> bundle, packet |-> packet]
           /\ diff # "secret"
BY DEF WholeInv, CheckInv, FilesInv, Check!Bundle, Check!Packet, Check!Digest

\* A packet says that every command of the task ran once, in order, in time and
\* with success.
THEOREM PacketProves == Spec => []PacketProvesAcceptance
<1>1. WholeInv => PacketProvesAcceptance
  <2> SUFFICES ASSUME WholeInv, step = "published"
               PROVE  PacketProvesAcceptance
      BY DEF PacketProvesAcceptance, Check!PacketProvesAcceptance
  <2>1. files[2].verification = results
    BY PublishedFiles
  <2>2. Len(results) = Len(job.acceptance) /\ \A i \in DOMAIN results : Succeeded(i)
    BY DEF WholeInv, CheckInv, ResultsInv
  <2> QED
    BY <2>1, <2>2 DEF PacketProvesAcceptance, Check!PacketProvesAcceptance, Succeeded
<1> QED
  BY WholeInit, WholeStep, <1>1, PTL DEF Spec

\* Record, packet, bundle, results and diff on disk belong together, and the outputs
\* and the diff among them hold no secret that the redactor knows; the argvs may.
THEOREM EvidenceChained == Spec => []EvidenceChain
<1>1. WholeInv => EvidenceChain
  <2> SUFFICES ASSUME WholeInv, step = "published" PROVE EvidenceChain
      BY DEF EvidenceChain, Check!EvidenceChain
  <2>1. \A i \in DOMAIN results : results[i].output # "secret"
    BY DEF WholeInv, CheckInv, ResultsInv
  <2> QED
    BY <2>1, PublishedFiles DEF EvidenceChain, Check!EvidenceChain, Check!Digest
<1> QED
  BY WholeInit, WholeStep, <1>1, PTL DEF Spec

\* The packet is about the task the human approved, from its base commit, with
\* its commands and no other.
THEOREM PacketIsApproved == Spec => []PacketIsForApprovedTask
<1>1. WholeInv => PacketIsForApprovedTask
  <2> SUFFICES ASSUME WholeInv, step = "published" PROVE PacketIsForApprovedTask
      BY DEF PacketIsForApprovedTask
  <2>1. job = JobOf(task) /\ task = approved
    BY AdmittedJob DEF WholeInv, CheckInv, CheckFrame
  <2>2. /\ job.digest = Gate!Digest(approved) /\ job.base = approved.ref
        /\ job.acceptance = approved.work.acceptance
    BY <2>1 DEF JobOf
  <2>3. /\ files[3].task = job.digest /\ files[2].base = job.base
        /\ files[2].verification = results
    BY PublishedFiles
  <2>4. [i \in DOMAIN results |-> results[i].argv] =
            [i \in DOMAIN job.acceptance |-> job.acceptance[i].argv]
    <3>1. /\ Len(results) = Len(job.acceptance)
          /\ \A i \in DOMAIN results : results[i].argv = job.acceptance[i].argv
      BY DEF WholeInv, CheckInv, ResultsInv, Succeeded
    <3>2. results \in Seq(Check!Results)
          /\ job.acceptance \in Seq([argv : Seq(STRING), timeout : Int])
      BY <2>1, AdmittedJob, JobsAreBounded DEF WholeInv, TypeOK, Check!TypeOK, CheckInv,
         CheckFrame
    <3>3. DOMAIN results = DOMAIN job.acceptance
      BY <3>1, <3>2
    <3> QED
      BY <3>1, <3>3
  <2> QED
    BY <2>2, <2>3, <2>4 DEF PacketIsForApprovedTask
<1> QED
  BY WholeInit, WholeStep, <1>1, PTL DEF Spec

\* What the steps of the verification are counted by.
LEMMA CountsAreNumbers ==
    ASSUME WholeInv, step # "waiting"
    PROVE  /\ Len(job.acceptance) \in Nat /\ Len(results) \in Nat
           /\ job.seconds \in Nat /\ now \in 0..job.seconds
           /\ step \in {"next", "running"} => Len(results) <= Len(job.acceptance)
           /\ step = "running" => Len(results) < Len(job.acceptance)
           /\ Len(files) \in 0..3
<1>1. job \in Jobs /\ now \in 0..job.seconds /\ results \in Seq(Check!Results)
  BY AdmittedJob, JobsAreBounded DEF WholeInv, TypeOK, Check!TypeOK, CheckInv, CheckFrame
<1>2. job.seconds \in Nat /\ Len(job.acceptance) \in Nat
  BY <1>1, JobsAreBounded
<1>3. Len(files) \in 0..3
  BY DEF WholeInv, CheckInv, FilesInv
<1> QED
  BY <1>1, <1>2, <1>3 DEF WholeInv, CheckInv, ResultsInv

\* For any number of commands, any timeouts and any budget, the verification and
\* the publication never go back, and their steps are bounded.
THEOREM VerificationIsBounded == Spec => VerificationAdvances
<1>1. WholeInv /\ [Next]_vars =>
        [step # "waiting" =>
            step' # "waiting" /\ Check!StepsLeft' \in 0 .. Check!StepsLeft - 1]_checkVars
  <2> SUFFICES ASSUME WholeInv, [Next]_vars, step # "waiting", ~UNCHANGED checkVars
               PROVE  step' # "waiting" /\ Check!StepsLeft' \in 0 .. Check!StepsLeft - 1
      OBVIOUS
  <2>1. Check!Step
    BY CheckSteps DEF Check!Begin, vars
  <2> DEFINE ahead == 2 * (Len(job.acceptance) - Len(results)) + (job.seconds - now)
  <2>2. CASE Check!StartCommand
    <3>1. /\ step = "next" /\ step' = "running" /\ UNCHANGED <<job, now, results>>
          /\ Len(results) + 1 <= Len(job.acceptance)
      BY <2>2 DEF Check!StartCommand, Check!Current
    <3>2. Check!StepsLeft = ahead + 6 /\ Check!StepsLeft' = ahead + 5
      BY <3>1 DEF Check!StepsLeft
    <3>3. ahead \in Nat
      BY <3>1, CountsAreNumbers
    <3> HIDE DEF ahead
    <3> QED
      BY <3>1, <3>2, <3>3
  <2>3. CASE Check!Tick
    <3>1. /\ job \in Jobs /\ Check!Current \in DOMAIN job.acceptance /\ started \in Nat
          /\ now < Check!Limit(job, Check!Current, started)
      BY <2>3, AdmittedJob, JobsAreBounded DEF WholeInv, TypeOK, Check!TypeOK, CheckInv,
         CheckFrame, ResultsInv, Check!Current, Check!Tick
    <3>2. /\ Check!Limit(job, Check!Current, started) \in Int
          /\ Check!Limit(job, Check!Current, started) <= job.seconds
      BY <3>1, LimitIsBounded
    <3>3. now < job.seconds
      BY <3>1, <3>2, CountsAreNumbers
    <3>4. step = "running" /\ now' = now + 1 /\ UNCHANGED <<step, job, results>>
      BY <2>3 DEF Check!Tick
    <3>5. Check!StepsLeft = ahead + 5 /\ Check!StepsLeft' = ahead' + 5
      BY <3>4 DEF Check!StepsLeft
    <3>6. ahead \in Nat /\ ahead' \in Nat /\ ahead' = ahead - 1
      <4>1. /\ Len(job.acceptance) \in Nat /\ Len(results) \in Nat
            /\ Len(results) < Len(job.acceptance)
            /\ job.seconds \in Nat /\ now \in Nat
        BY <3>4, CountsAreNumbers
      <4>2. ahead' = 2 * (Len(job.acceptance) - Len(results)) + (job.seconds - (now + 1))
        BY <3>4
      <4>3. ahead = 2 * (Len(job.acceptance) - Len(results)) + (job.seconds - now)
        OBVIOUS
      <4> HIDE DEF ahead
      <4> DEFINE left == Len(job.acceptance) - Len(results)
                 rest == job.seconds - now
      <4>4. left \in Nat /\ rest \in Nat /\ rest > 0 /\ job.seconds - (now + 1) = rest - 1
        BY <3>3, <4>1
      <4>5. ahead = 2 * left + rest /\ ahead' = 2 * left + (rest - 1)
        BY <4>2, <4>3, <4>4
      <4> HIDE DEF left, rest
      <4> QED
        BY <4>4, <4>5
    <3> HIDE DEF ahead
    <3> QED
      BY <3>4, <3>5, <3>6
  <2>4. CASE Check!CommandSucceeds
    <3>1. Len(results') = Len(results) + 1
      BY <2>4 DEF Check!CommandSucceeds, WholeInv, TypeOK, Check!TypeOK
    <3>2. step = "running" /\ step' = "next" /\ UNCHANGED <<job, now>>
      BY <2>4 DEF Check!CommandSucceeds
    <3>3. Check!StepsLeft = ahead + 5 /\ Check!StepsLeft' = ahead' + 6
      BY <3>2 DEF Check!StepsLeft
    <3>4. ahead \in Nat /\ ahead' \in Nat /\ ahead' = ahead - 2
      <4>1. /\ Len(job.acceptance) \in Nat /\ Len(results) \in Nat
            /\ Len(results) < Len(job.acceptance)
            /\ job.seconds - now \in Nat
        BY <3>2, CountsAreNumbers
      <4>2. ahead' = 2 * (Len(job.acceptance) - (Len(results) + 1)) + (job.seconds - now)
        BY <3>1, <3>2
      <4> DEFINE left == Len(job.acceptance) - Len(results)
                 rest == job.seconds - now
      <4>3. /\ left \in Nat /\ left > 0 /\ rest \in Nat
            /\ Len(job.acceptance) - (Len(results) + 1) = left - 1
        BY <4>1
      <4>4. ahead = 2 * left + rest /\ ahead' = 2 * (left - 1) + rest
        BY <4>2, <4>3
      <4> HIDE DEF ahead, left, rest
      <4> QED
        BY <4>3, <4>4
    <3> HIDE DEF ahead
    <3> QED
      BY <3>2, <3>3, <3>4
  <2>5. CASE Check!CommandFails \/ Check!CommandTimesOut
    <3>1. step = "running" /\ step' = "failed"
      BY <2>5 DEF Check!CommandFails, Check!CommandTimesOut
    <3>2. Check!StepsLeft = ahead + 5 /\ Check!StepsLeft' = 0
      BY <3>1 DEF Check!StepsLeft
    <3> QED
      BY <3>1, <3>2, CountsAreNumbers
  <2>6. CASE Check!Assemble
    <3>1. step = "next" /\ step' = "write" /\ UNCHANGED files /\ files = <<>>
      BY <2>6 DEF Check!Assemble, WholeInv, CheckInv, FilesInv
    <3>2. Check!StepsLeft = ahead + 6 /\ Check!StepsLeft' = 4
      BY <3>1 DEF Check!StepsLeft
    <3> QED
      BY <3>1, <3>2, CountsAreNumbers
  <2>7. CASE Check!WriteFile
    <3>1. /\ step = "write" /\ Len(files) < 3
          /\ \/ step' = "write" /\ Len(files') = Len(files) + 1
             \/ step' = "aborted"
      BY <2>7 DEF Check!WriteFile, Check!Contents, WholeInv, CheckInv, FilesInv
    <3>2. Check!StepsLeft = 4 - Len(files)
      BY <3>1 DEF Check!StepsLeft
    <3>3. Check!StepsLeft' = IF step' = "write" THEN 4 - Len(files') ELSE 0
      BY <3>1 DEF Check!StepsLeft
    <3> QED
      BY <3>1, <3>2, <3>3, CountsAreNumbers
  <2>8. CASE Check!Publish
    <3>1. step = "write" /\ step' = "published" /\ Len(files) = 3
      BY <2>8 DEF Check!Publish, Check!Contents
    <3>2. Check!StepsLeft = 1 /\ Check!StepsLeft' = 0
      BY <3>1 DEF Check!StepsLeft
    <3> QED
      BY <3>1, <3>2
  <2> QED
    BY <2>1, <2>2, <2>3, <2>4, <2>5, <2>6, <2>7, <2>8 DEF Check!Step, Check!EngineStep
<1>2. WholeInv /\ [Next]_vars =>
        [step # "waiting" =>
            step' # "waiting" /\ Check!StepsLeft' \in 0 .. Check!StepsLeft - 1]_(Check!checkVars)
  BY <1>1 DEF checkVars, Check!checkVars
<1> QED
  BY WholeInit, WholeStep, <1>2, PTL
     DEF Spec, VerificationAdvances, Check!VerificationAdvances
=============================================================================
