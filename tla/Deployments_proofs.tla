------------------------ MODULE Deployments_proofs ------------------------
(***************************************************************************)
(* For any number of deployments, heads, merges and deaths, and any window *)
(* of the breaker: the history of an environment keeps the promises of     *)
(* DeploymentRecord, and a healthy row means a seeded box that serves what *)
(* was asked.                                                              *)
(***************************************************************************)
EXTENDS Deployments, SequenceTheorems, FiniteSetTheorems, TLAPS

----------------------------------------------------------------------------
(* The inductive invariant.                                                *)

(* A run is in one place: about to be handed over, in the queue, or with   *)
(* the worker.                                                             *)
OnePlace ==
  /\ \A i, j \in DOMAIN queue : queue[i].run = queue[j].run => i = j
  /\ \A i \in DOMAIN queue : queue[i].run \notin handing
  /\ ~At("idle") => /\ job.run \in Runs /\ job.run \notin handing
                    /\ \A i \in DOMAIN queue : queue[i].run # job.run

(* What is in one of those places has been requested (as has what the      *)
(* webhook worker has decided), ...                                        *)
Requested ==
  /\ \A r \in handing : status[r] # "unborn"
  /\ \A i \in DOMAIN queue : status[queue[i].run] # "unborn"
  /\ ~At("idle") => status[job.run] # "unborn"
  /\ deciding => merges > 0

(* ... and taken up as often as its job has been handed out.               *)
Counted ==
  /\ \A r \in Runs : status[r] = "unborn" \/ r \in handing => attempts[r] = 0
  /\ \A i \in DOMAIN queue : attempts[queue[i].run] <= IF queue[i].again THEN 1 ELSE 0
  /\ ~At("idle") => /\ attempts[job.run] <= IF job.again THEN 2 ELSE 1
                    /\ Born(job.run) => attempts[job.run] > 0

(* What the row says while the worker executes it.                         *)
RowFollowsJob ==
  ~At("idle") /\ Born(job.run) =>
    /\ ~At("done") => status[job.run] # "healthy"
    /\ job.pc \in {"resolve", "build"} => status[job.run] = "building"
    /\ job.pc \in {"render", "up", "finish"} => status[job.run] = "deploying"
    /\ At("done") => status[job.run] \in Record!SettledStatuses
    /\ job.aborted => stopAsked[job.run]

(* Until a row is healthy each roll-out carries the seed, and a roll-out   *)
(* without it finds the account there.                                     *)
SeedGoesFirst ==
  /\ HealthyIsSeeded
  /\ At("up") /\ ~job.seeds => box.seeded
  /\ At("finish") => box.seeded

(* HEAD is resolved after the request and only one run at a time is rolled *)
(* out, so what a run brings is never older than what is there.            *)
HeadsGrow ==
  /\ BoxServesTheHealthy
  /\ box.sha <= head /\ \A r \in Runs : asked[r] <= head
  /\ job.pc \in {"build", "render", "up"} => job.sha >= box.sha /\ job.sha >= asked[job.run]
  /\ job.sha <= head
  /\ At("finish") => box.sha >= asked[job.run]

IInv == TypeOK /\ OnePlace /\ Requested /\ Counted /\ RowFollowsJob /\ SeedGoesFirst /\ HeadsGrow

----------------------------------------------------------------------------
(* Facts about the constants, the queue and the job record.                *)

LEMMA Bounds == /\ MaxRuns \in Nat /\ MaxHead \in Nat /\ MaxPending \in Nat
                /\ MaxDeaths \in Nat /\ Window \in Nat
BY BoundsAssumption

LEMMA RunsAreNumbers == Runs \subseteq Nat /\ NoRun \notin Runs
BY Bounds DEF Runs, NoRun

LEMMA Appended ==
  ASSUME NEW q \in Seq(Jobs), NEW j \in Jobs
  PROVE  /\ Append(q, j) \in Seq(Jobs)
         /\ DOMAIN Append(q, j) = 1 .. Len(q) + 1
         /\ DOMAIN q = 1 .. Len(q) /\ Len(q) \in Nat
         /\ \A i \in 1 .. Len(q) : Append(q, j)[i] = q[i]
         /\ Append(q, j)[Len(q) + 1] = j
OBVIOUS

LEMMA Prepended ==
  ASSUME NEW q \in Seq(Jobs), NEW j \in Jobs
  PROVE  /\ <<j>> \o q \in Seq(Jobs)
         /\ DOMAIN (<<j>> \o q) = 1 .. Len(q) + 1
         /\ DOMAIN q = 1 .. Len(q) /\ Len(q) \in Nat
         /\ (<<j>> \o q)[1] = j
         /\ \A i \in 2 .. Len(q) + 1 : (<<j>> \o q)[i] = q[i - 1]
OBVIOUS

LEMMA Taken ==
  ASSUME NEW q \in Seq(Jobs), q # <<>>
  PROVE  /\ Tail(q) \in Seq(Jobs) /\ Head(q) = q[1] /\ Head(q) \in Jobs
         /\ DOMAIN q = 1 .. Len(q) /\ Len(q) \in Nat \ {0}
         /\ DOMAIN Tail(q) = 1 .. Len(q) - 1
         /\ \A i \in 1 .. Len(q) - 1 : Tail(q)[i] = q[i + 1]
OBVIOUS

JobStates == [pc : Working \union {"idle", "failing", "finish", "done"},
              run : Runs \union {NoRun}, again : BOOLEAN, aborted : BOOLEAN,
              sha : 0 .. MaxHead, seeds : BOOLEAN]

LEMMA IdleTyped == Idle \in JobStates
BY Bounds DEF Idle, JobStates, Working, NoRun

LEMMA RunTyped == ASSUME TypeOK, OnePlace, ~At("idle")
                  PROVE  job.run \in Runs /\ job \in JobStates
BY DEF TypeOK, OnePlace, JobStates

LEMMA QueueTyped ==
  ASSUME TypeOK
  PROVE  queue \in Seq(Jobs) /\ \A i \in DOMAIN queue : queue[i] \in Jobs /\ queue[i].run \in Runs
<1>1. queue \in Seq(Jobs)
  BY DEF TypeOK
<1>2. \A i \in DOMAIN queue : queue[i] \in Jobs
  BY <1>1
<1> QED
  BY <1>1, <1>2 DEF Jobs

----------------------------------------------------------------------------
(* Types.                                                                  *)

LEMMA RequestsTyped ==
  ASSUME TypeOK, Requested, Deploy \/ AutoInsert \/ (\E r \in Runs : Enqueue(r))
  PROVE  TypeOK'
<1> USE DEF TypeOK
<1>1. ASSUME NEW byMachine \in BOOLEAN, Insert(byMachine)
      PROVE  /\ status' \in [Runs -> Record!RunStatuses \union {"unborn", "gone"}]
             /\ auto' \in [Runs -> BOOLEAN] /\ stopAsked' \in [Runs -> BOOLEAN]
             /\ attempts' \in [Runs -> 0 .. 2] /\ asked' \in [Runs -> 0 .. MaxHead]
             /\ handing' \subseteq Runs
  BY <1>1 DEF Insert, Record!RunStatuses, Record!InFlightStatuses
<1>2. CASE Deploy
  <2>1. Insert(FALSE)
    BY <1>2 DEF Deploy
  <2> QED
    BY <1>1, <1>2, <2>1 DEF Deploy, repoVars
<1>3. CASE AutoInsert
  <2>1. merges' \in 0 .. MaxPending
    BY <1>3, Bounds DEF AutoInsert, Requested
  <2>2. CASE Insert(TRUE)
    BY <1>1, <1>3, <2>1, <2>2 DEF AutoInsert
  <2>3. CASE UNCHANGED <<rowVars, handing>>
    BY <1>3, <2>1, <2>3 DEF AutoInsert, rowVars
  <2> QED
    BY <1>3, <2>2, <2>3 DEF AutoInsert
<1>4. ASSUME NEW r \in Runs, Enqueue(r)
      PROVE  TypeOK'
  <2>1. queue' \in Seq(Jobs)
    BY <1>4, Appended DEF Enqueue, Jobs
  <2> QED
    BY <1>4, <2>1 DEF Enqueue, rowVars, repoVars
<1> QED
  BY <1>2, <1>3, <1>4

LEMMA OthersTyped ==
  ASSUME TypeOK,
         \/ Delete \/ Merge \/ AutoDeploy \/ RequestCancel
         \/ \E r \in Runs : FindActive(r) \/ HandoverDies(r)
  PROVE  TypeOK'
<1> USE DEF TypeOK
<1>1. CASE Delete
  <2>1. status' \in [Runs -> Record!RunStatuses \union {"unborn", "gone"}]
    BY <1>1 DEF Delete
  <2>2. /\ auto' \in [Runs -> BOOLEAN] /\ stopAsked' \in [Runs -> BOOLEAN]
        /\ attempts' \in [Runs -> 0 .. 2] /\ asked' \in [Runs -> 0 .. MaxHead]
    BY <1>1, Bounds DEF Delete
  <2>3. present' \in BOOLEAN
    BY <1>1 DEF Delete
  <2> QED
    BY <1>1, <2>1, <2>2, <2>3 DEF Delete, repoVars
<1>2. CASE Merge
  BY <1>2, Bounds DEF Merge, rowVars
<1>3. CASE AutoDeploy
  <2>1. merges > 0 => merges - 1 \in 0 .. MaxPending
    BY Bounds
  <2> QED
    BY <1>3, <2>1 DEF AutoDeploy, rowVars
<1>4. CASE RequestCancel
  BY <1>4 DEF RequestCancel, repoVars
<1>5. ASSUME NEW r \in Runs, FindActive(r)
      PROVE  TypeOK'
  <2>1. cancelling' \in Runs \union {NoRun}
    BY <1>5 DEF FindActive
  <2> QED
    BY <1>5, <2>1 DEF FindActive, rowVars, repoVars
<1>6. ASSUME NEW r \in Runs, HandoverDies(r)
      PROVE  TypeOK'
  <2>1. deaths' \in 0 .. MaxDeaths
    BY <1>6, Bounds DEF HandoverDies, Dies
  <2> QED
    BY <1>6, <2>1 DEF HandoverDies, rowVars, repoVars
<1> QED
  BY <1>1, <1>2, <1>3, <1>4, <1>5, <1>6

LEMMA WriteTyped ==
  ASSUME TypeOK, NEW r \in Runs, NEW to \in Record!RunStatuses, Writes(r, to)
  PROVE  status' \in [Runs -> Record!RunStatuses \union {"unborn", "gone"}]
BY DEF TypeOK, Writes

LEMMA JobTyped ==
  ASSUME TypeOK, OnePlace, ~At("idle")
  PROVE  /\ \A pc \in Working \union {"finish", "failing", "done"} :
               /\ [job EXCEPT !.pc = pc] \in JobStates
               /\ \A sha \in 0 .. MaxHead : [job EXCEPT !.pc = pc, !.sha = sha] \in JobStates
               /\ \A seeds \in BOOLEAN : [job EXCEPT !.pc = pc, !.seeds = seeds] \in JobStates
               /\ \A aborted \in BOOLEAN :
                    [Idle EXCEPT !.pc = pc, !.run = job.run, !.again = job.again,
                                 !.aborted = aborted] \in JobStates
               /\ [Idle EXCEPT !.pc = pc, !.run = job.run, !.again = job.again] \in JobStates
         /\ [job EXCEPT !.aborted = TRUE] \in JobStates
BY RunTyped, IdleTyped DEF JobStates

LEMMA WorkerTyped ==
  ASSUME TypeOK, OnePlace, Counted, WorkerStep \/ PollCancel \/ WorkerDies
  PROVE  TypeOK'
<1> USE DEF TypeOK
<1>1. CASE TakeJob
  <2>1. Tail(queue) \in Seq(Jobs) /\ Head(queue) = queue[1] /\ Head(queue) \in Jobs
        /\ 1 \in DOMAIN queue
    BY <1>1, Taken DEF TakeJob
  <2> DEFINE next == Head(queue)
  <2>2. next.run \in Runs /\ next.again \in BOOLEAN
    BY <2>1 DEF Jobs
  <2>3. attempts[next.run] \in 0 .. 2 /\ attempts[next.run] <= 1
    BY <2>1, <2>2 DEF Counted
  <2>4. [Idle EXCEPT !.pc = "env", !.run = next.run, !.again = next.again] \in JobStates
    BY <2>2, IdleTyped DEF JobStates, Working
  <2>5. job' \in JobStates /\ attempts' \in [Runs -> 0 .. 2]
    <3>1. CASE ToDo(next.run)
      <4>1. [attempts EXCEPT ![next.run] = @ + 1] \in [Runs -> 0 .. 2]
        BY <2>2, <2>3
      <4> QED
        BY <1>1, <2>4, <3>1, <4>1 DEF TakeJob
    <3>2. CASE ~ToDo(next.run)
      BY <1>1, <3>2 DEF TakeJob, JobStates
    <3> QED
      BY <3>1, <3>2
  <2> QED
    BY <1>1, <2>1, <2>5 DEF TakeJob, restOfWorld, repoVars, JobStates
<1>2. CASE Begin
  <2>1. ~At("idle") /\ status' \in [Runs -> Record!RunStatuses \union {"unborn", "gone"}]
    BY <1>2, RunTyped, WriteTyped
       DEF Begin, At, Record!RunStatuses, Record!InFlightStatuses
  <2>2. job' \in JobStates
    BY <1>2, <2>1, JobTyped DEF Begin, Goes, Working
  <2> QED
    BY <1>2, <2>1, <2>2 DEF Begin, restOfWorld, repoVars, JobStates
<1>3. CASE ResolveHead
  <2>1. job' \in JobStates
    BY <1>3, JobTyped DEF ResolveHead, Resolved, At, Working
  <2> QED
    BY <1>3, <2>1 DEF ResolveHead, restOfWorld, repoVars, JobStates
<1>4. CASE Build
  <2>1. ~At("idle") /\ status' \in [Runs -> Record!RunStatuses \union {"unborn", "gone"}]
    BY <1>4, RunTyped, WriteTyped
       DEF Build, At, Record!RunStatuses, Record!InFlightStatuses
  <2>2. job' \in JobStates
    BY <1>4, <2>1, JobTyped DEF Build, Goes, Working
  <2> QED
    BY <1>4, <2>1, <2>2 DEF Build, restOfWorld, repoVars, JobStates
<1>5. CASE Render
  <2>1. NeedsSeed \in BOOLEAN
    BY DEF NeedsSeed
  <2>2. job' \in JobStates
    BY <1>5, <2>1, JobTyped DEF Render, At, Working
  <2> QED
    BY <1>5, <2>2 DEF Render, restOfWorld, repoVars, JobStates
<1>6. CASE BringUp
  <2>1. job' \in JobStates
    BY <1>6, JobTyped DEF BringUp, Goes, At
  <2>2. box' \in [sha : 0 .. MaxHead, seeded : BOOLEAN]
    BY <1>6 DEF BringUp
  <2> QED
    BY <1>6, <2>1, <2>2 DEF BringUp, restOfWorld, repoVars, JobStates
<1>7. CASE StepFails
  <2>1. job' \in JobStates
    <3>1. ~At("idle") /\ job.aborted \in BOOLEAN
      BY <1>7 DEF StepFails, At, Working
    <3> QED
      BY <1>7, <3>1, JobTyped DEF StepFails
  <2>2. box' \in [sha : 0 .. MaxHead, seeded : BOOLEAN]
    BY <1>7 DEF StepFails
  <2> QED
    BY <1>7, <2>1, <2>2 DEF StepFails, restOfWorld, repoVars, JobStates
<1>8. CASE Finish
  <2>1. ~At("idle") /\ job.run \in Runs
    BY <1>8, RunTyped DEF Finish, At
  <2>2. job' \in JobStates
    BY <1>8, <2>1, JobTyped DEF Finish
  <2>3. status' \in [Runs -> Record!RunStatuses \union {"unborn", "gone"}]
    BY <1>8, <2>1, WriteTyped DEF Finish, Record!RunStatuses, Record!SettledStatuses
  <2> QED
    BY <1>8, <2>2, <2>3 DEF Finish, restOfWorld, repoVars, JobStates
<1>9. CASE JobDone
  BY <1>9, IdleTyped DEF JobDone, restOfWorld, repoVars, JobStates
<1>10. CASE PollCancel
  <2>1. job' \in JobStates
    BY <1>10, JobTyped DEF PollCancel, At, Working
  <2> QED
    BY <1>10, <2>1 DEF PollCancel, restOfWorld, repoVars, JobStates
<1>11. CASE WorkerDies
  <2>1. [run |-> job.run, again |-> TRUE] \in Jobs
    BY <1>11, RunTyped DEF WorkerDies, Jobs
  <2>2. queue' \in Seq(Jobs)
    BY <1>11, <2>1, Prepended DEF WorkerDies, Redelivered
  <2>3. deaths' \in 0 .. MaxDeaths
    BY <1>11, Bounds DEF WorkerDies, Dies
  <2> QED
    BY <1>11, <2>2, <2>3, IdleTyped DEF WorkerDies, restOfWorld, repoVars, JobStates
<1> QED
  BY <1>1, <1>2, <1>3, <1>4, <1>5, <1>6, <1>7, <1>8, <1>9, <1>10, <1>11 DEF WorkerStep

----------------------------------------------------------------------------
(* Where a run is, and how often it has been taken up.                     *)

Held3 == OnePlace /\ Requested /\ Counted

(* Most steps move no run from one place to another.                       *)
Unmoved ==
  /\ UNCHANGED <<queue, handing>>
  /\ job'.pc = "idle" \/ (job.pc # "idle" /\ job'.run = job.run /\ job'.again = job.again)
  /\ \A r \in Runs : /\ status'[r] = "unborn" <=> status[r] = "unborn"
                     /\ status'[r] \in Record!RunStatuses => Born(r) /\ attempts'[r] = attempts[r]
                     /\ attempts'[r] <= attempts[r]
  /\ deciding' => merges' > 0

LEMMA AttemptsTyped == ASSUME TypeOK PROVE \A r \in Runs : attempts[r] \in Nat
<1>1. attempts \in [Runs -> 0 .. 2]
  BY DEF TypeOK
<1> QED
  BY <1>1

LEMMA UnmovedKeeps == ASSUME TypeOK, TypeOK', Held3, Unmoved PROVE Held3'
<1> USE DEF Held3
<1>1. OnePlace'
  BY DEF OnePlace, Unmoved, At
<1>2. Requested'
  <2>1. \A r \in handing : r \in Runs
    BY DEF TypeOK
  <2> QED
    BY <2>1, QueueTyped DEF OnePlace, Requested, Unmoved, At
<1>3. Counted'
  <2>1. \A r \in Runs : attempts[r] \in Nat /\ attempts'[r] \in Nat
    <3>1. attempts' \in [Runs -> 0 .. 2]
      BY DEF TypeOK
    <3> QED
      BY <3>1, AttemptsTyped
  <2>2. \A r \in Runs : (status[r] = "unborn" \/ r \in handing => attempts[r] = 0)'
    BY <2>1 DEF Counted, Unmoved
  <2>3. \A i \in DOMAIN queue : (attempts[queue[i].run] <= IF queue[i].again THEN 1 ELSE 0)'
    BY <2>1, QueueTyped DEF Counted, Unmoved
  <2>4. (~At("idle") => /\ attempts[job.run] <= IF job.again THEN 2 ELSE 1
                        /\ Born(job.run) => attempts[job.run] > 0)'
    BY <2>1 DEF OnePlace, Counted, Unmoved, At, Born
  <2> QED
    BY <2>2, <2>3, <2>4 DEF Counted, Unmoved
<1> QED
  BY <1>1, <1>2, <1>3

LEMMA WriteKeepsBorn ==
  ASSUME TypeOK, NEW r \in Runs, NEW to \in Record!RunStatuses, Writes(r, to)
  PROVE  \A q \in Runs : /\ status'[q] = "unborn" <=> status[q] = "unborn"
                         /\ status'[q] \in Record!RunStatuses <=> Born(q)
BY DEF TypeOK, Writes, Born, Record!RunStatuses, Record!InFlightStatuses, Record!SettledStatuses

LEMMA WorkerUnmoved ==
  ASSUME TypeOK, Held3,
         Begin \/ ResolveHead \/ Build \/ Render \/ BringUp \/ StepFails \/ Finish \/ JobDone
         \/ PollCancel
  PROVE  Unmoved
<1>1. \A r \in Runs : attempts[r] \in Nat
  BY AttemptsTyped
<1>2. UNCHANGED <<queue, handing, attempts, deciding, merges>>
  BY DEF Begin, ResolveHead, Build, Render, BringUp, StepFails, Finish, JobDone, PollCancel,
         restOfWorld, repoVars
<1>3. job'.pc = "idle" \/ (job.pc # "idle" /\ job'.run = job.run /\ job'.again = job.again)
  <2>1. job \in JobStates
    BY DEF TypeOK, JobStates
  <2>2. CASE JobDone
    BY <2>2 DEF JobDone, Idle
  <2>3. CASE Begin \/ ResolveHead \/ Build \/ Render \/ BringUp \/ PollCancel
    BY <2>1, <2>3 DEF Begin, ResolveHead, Build, Render, BringUp, PollCancel, Goes, At, Working,
                      JobStates
  <2>4. CASE StepFails \/ Finish
    BY <2>1, <2>4 DEF StepFails, Finish, At, Working, Idle, JobStates
  <2> QED
    BY <2>2, <2>3, <2>4
<1>4. \A r \in Runs : /\ status'[r] = "unborn" <=> status[r] = "unborn"
                      /\ status'[r] \in Record!RunStatuses <=> Born(r)
  <2>1. CASE UNCHANGED status
    BY <2>1 DEF Born
  <2>2. CASE Begin \/ Build
    <3>1. job.run \in Runs
      BY <2>2 DEF Begin, Build, At, Held3, OnePlace
    <3> QED
      BY <2>2, <3>1, WriteKeepsBorn DEF Begin, Build, Record!RunStatuses, Record!InFlightStatuses
  <2>3. CASE Finish
    <3>1. job.run \in Runs
      BY <2>3 DEF Finish, At, Held3, OnePlace
    <3> QED
      BY <2>3, <3>1, WriteKeepsBorn DEF Finish, Record!RunStatuses, Record!SettledStatuses
  <2> QED
    BY <2>1, <2>2, <2>3 DEF ResolveHead, Render, BringUp, StepFails, JobDone, PollCancel
<1>5. \A r \in Runs : /\ status'[r] \in Record!RunStatuses => Born(r) /\ attempts'[r] = attempts[r]
                      /\ attempts'[r] <= attempts[r]
  <2>1. attempts' = attempts
    BY <1>2
  <2>2. \A r \in Runs : attempts'[r] <= attempts[r]
    BY <1>1, <2>1
  <2>3. \A r \in Runs : status'[r] \in Record!RunStatuses => Born(r)
    BY <1>4
  <2> QED
    BY <2>1, <2>2, <2>3
<1>6. deciding' => merges' > 0
  BY <1>2 DEF Held3, Requested
<1> QED
  <2>1. UNCHANGED <<queue, handing>>
    BY <1>2
  <2> QED
    BY <1>3, <1>4, <1>5, <1>6, <2>1 DEF Unmoved

LEMMA OthersUnmoved ==
  ASSUME TypeOK, Held3,
         \/ Delete \/ Merge \/ AutoDeploy \/ RequestCancel
         \/ (\E r \in Runs : FindActive(r))
         \/ UNCHANGED vars
  PROVE  Unmoved
<1>1. \A r \in Runs : attempts[r] \in Nat
  BY AttemptsTyped
<1>2. CASE Delete
  <2>1. \A r \in Runs : /\ status'[r] = "unborn" <=> status[r] = "unborn"
                        /\ status'[r] \notin Record!RunStatuses /\ attempts'[r] = 0
    BY <1>2 DEF Delete, Born, Record!RunStatuses, Record!InFlightStatuses, Record!SettledStatuses
  <2>2. UNCHANGED <<queue, handing, job, deciding, merges>>
    BY <1>2 DEF Delete, repoVars
  <2>3. job'.pc = "idle" \/ (job.pc # "idle" /\ job'.run = job.run /\ job'.again = job.again)
    BY <2>2
  <2> QED
    BY <1>1, <2>1, <2>2, <2>3 DEF Unmoved, Held3, Requested
<1>3. CASE UNCHANGED <<status, attempts, handing, queue, job>>
  <2>1. deciding' => merges' > 0
    <3>1. (deciding => merges > 0) /\ merges \in Nat
      BY Bounds DEF Held3, Requested, TypeOK
    <3>2. CASE UNCHANGED <<deciding, merges>>
      BY <3>1, <3>2
    <3>3. CASE Merge
      BY <3>1, <3>3 DEF Merge
    <3>4. CASE AutoDeploy
      BY <3>1, <3>4 DEF AutoDeploy
    <3> QED
      BY <3>2, <3>3, <3>4 DEF Delete, RequestCancel, FindActive, repoVars, vars
  <2> QED
    BY <1>1, <1>3, <2>1 DEF Unmoved, Born
<1> QED
  BY <1>2, <1>3 DEF Merge, AutoDeploy, RequestCancel, FindActive, rowVars, vars

LEMMA InsertKeepsHeld ==
  ASSUME TypeOK, Held3, Deploy \/ AutoInsert
  PROVE  Held3'
<1>0. UNCHANGED <<queue, job>> /\ (deciding' => merges' > 0)
  <2>1. CASE Deploy
    <3>1. UNCHANGED <<queue, job, deciding, merges>>
      BY <2>1 DEF Deploy, repoVars
    <3> QED
      BY <3>1 DEF Held3, Requested
  <2>2. CASE AutoInsert
    BY <2>2 DEF AutoInsert
  <2> QED
    BY <2>1, <2>2
<1>1. CASE ~UNCHANGED <<rowVars, handing>>
  <2>1. PICK byMachine \in BOOLEAN : Insert(byMachine)
    BY <1>1 DEF Deploy, AutoInsert
  <2>2. PICK r \in Runs :
          /\ status[r] = "unborn" /\ status' = [status EXCEPT ![r] = "queued"]
          /\ handing' = handing \union {r} /\ attempts' = attempts
    BY <2>1 DEF Insert
  <2>3. /\ UNCHANGED <<queue, job>> /\ (deciding' => merges' > 0)
    BY <1>0
  <2>4. r \notin handing /\ attempts[r] = 0 /\ (~At("idle") => job.run # r)
        /\ \A i \in DOMAIN queue : queue[i].run # r
    BY <2>2 DEF Held3, Requested, Counted
  <2>5. /\ \A q \in Runs : status'[q] = "unborn" => status[q] = "unborn"
        /\ \A q \in Runs : q # r => status'[q] = status[q]
        /\ status'[r] = "queued"
    BY <2>2 DEF TypeOK
  <2>6. OnePlace'
    BY <2>2, <2>3, <2>4 DEF Held3, OnePlace, At
  <2>7. Requested'
    BY <2>2, <2>3, <2>5, QueueTyped DEF Held3, OnePlace, Requested, At, TypeOK
  <2>8. Counted'
    <3>1. \A q \in Runs : (status[q] = "unborn" \/ q \in handing => attempts[q] = 0)'
      BY <2>2, <2>4, <2>5 DEF Held3, Counted
    <3>2. ~At("idle") => job.run \in Runs /\ (Born(job.run)' <=> Born(job.run))
      BY <2>3, <2>4, <2>5 DEF Held3, OnePlace, Born
    <3> QED
      BY <2>2, <2>3, <3>1, <3>2 DEF Held3, Counted, At
  <2> QED
    BY <2>6, <2>7, <2>8 DEF Held3
<1>2. CASE UNCHANGED <<rowVars, handing>>
  <2>1. UNCHANGED <<queue, job>> /\ (deciding' => merges' > 0)
    BY <1>0
  <2>2. UNCHANGED <<status, attempts, handing>>
    BY <1>2 DEF rowVars
  <2> QED
    BY <2>1, <2>2 DEF Held3, OnePlace, Requested, Counted, At, Born
<1> QED
  BY <1>1, <1>2

LEMMA HandoverKeepsHeld ==
  ASSUME TypeOK, Held3, NEW r \in Runs, Enqueue(r) \/ HandoverDies(r)
  PROVE  Held3'
<1>1. /\ UNCHANGED <<status, attempts, job, deciding, merges>>
      /\ r \in handing /\ handing' = handing \ {r}
  BY DEF Enqueue, HandoverDies, rowVars, repoVars
<1>2. CASE HandoverDies(r)
  <2>1. queue' = queue
    BY <1>2 DEF HandoverDies
  <2> QED
    BY <1>1, <2>1 DEF Held3, OnePlace, Requested, Counted, At, Born
<1>3. CASE Enqueue(r)
  <2> DEFINE j == [run |-> r, again |-> FALSE]
  <2>1. /\ DOMAIN queue = 1 .. Len(queue) /\ Len(queue) \in Nat
        /\ DOMAIN queue' = 1 .. Len(queue) + 1
        /\ \A i \in 1 .. Len(queue) : queue'[i] = queue[i]
        /\ queue'[Len(queue) + 1] = j
    BY <1>3, QueueTyped, Appended DEF Enqueue, Jobs
  <2>2. \A i \in DOMAIN queue' : (i \in DOMAIN queue /\ queue'[i] = queue[i])
                                \/ (i = Len(queue) + 1 /\ queue'[i] = j)
    BY <2>1
  <2>3. OnePlace'
    BY <1>1, <2>1, <2>2 DEF Held3, OnePlace, At
  <2>4. Requested'
    BY <1>1, <2>2 DEF Held3, Requested, At
  <2>5. Counted'
    BY <1>1, <2>2 DEF Held3, Counted, At, Born
  <2> QED
    BY <2>3, <2>4, <2>5 DEF Held3
<1> QED
  BY <1>2, <1>3

LEMMA TakeKeepsHeld == ASSUME TypeOK, Held3, TakeJob PROVE Held3'
<1> DEFINE next == Head(queue)
<1>1. /\ next = queue[1] /\ 1 \in DOMAIN queue
      /\ \A i \in DOMAIN queue' : /\ i \in Nat /\ i + 1 # 1 /\ i + 1 \in DOMAIN queue
                                  /\ queue'[i] = queue[i + 1]
  BY QueueTyped, Taken DEF TakeJob
<1>2. next.run \in Runs /\ next.again \in BOOLEAN
  BY <1>1, QueueTyped DEF Jobs
<1>3. UNCHANGED <<status, handing, deciding, merges>>
  BY DEF TakeJob, restOfWorld, repoVars
<1>4. next.run \notin handing /\ status[next.run] # "unborn"
      /\ \A i \in DOMAIN queue' : queue'[i].run # next.run
  BY <1>1 DEF Held3, OnePlace, Requested
<1>5. attempts[next.run] \in Nat /\ attempts[next.run] <= IF next.again THEN 1 ELSE 0
  BY <1>1, <1>2, AttemptsTyped DEF Held3, Counted
<1>6. CASE ToDo(next.run)
  <2>1. /\ job'.pc = "env" /\ job'.run = next.run /\ job'.again = next.again
        /\ attempts' = [attempts EXCEPT ![next.run] = @ + 1]
    BY <1>6 DEF TakeJob, Idle
  <2>2. attempts'[next.run] = attempts[next.run] + 1
        /\ \A q \in Runs : q # next.run => attempts'[q] = attempts[q]
    BY <1>2, <2>1 DEF TypeOK
  <2>3. OnePlace'
    BY <1>1, <1>2, <1>3, <1>4, <2>1 DEF Held3, OnePlace, At
  <2>4. Requested'
    BY <1>1, <1>3, <1>4, <2>1 DEF Held3, Requested, At
  <2>5. Counted'
    <3>1. \A q \in Runs : (status[q] = "unborn" \/ q \in handing => attempts[q] = 0)'
      BY <1>3, <1>4, <2>2 DEF Held3, Counted
    <3>2. \A i \in DOMAIN queue' :
            attempts'[queue'[i].run] <= IF queue'[i].again THEN 1 ELSE 0
      BY <1>1, <1>4, <2>2, QueueTyped DEF Held3, Counted
    <3>3. attempts'[job'.run] <= (IF job'.again THEN 2 ELSE 1) /\ attempts'[job'.run] > 0
      BY <1>2, <1>5, <2>1, <2>2
    <3> QED
      BY <3>1, <3>2, <3>3 DEF Counted
  <2> QED
    BY <2>3, <2>4, <2>5 DEF Held3
<1>7. CASE ~ToDo(next.run)
  <2>1. UNCHANGED <<job, attempts>> /\ At("idle")
    BY <1>7 DEF TakeJob
  <2>2. OnePlace'
    BY <1>1, <1>3, <2>1 DEF Held3, OnePlace, At
  <2> QED
    BY <1>1, <1>3, <2>1, <2>2 DEF Held3, Requested, Counted, At, Born
<1> QED
  BY <1>6, <1>7

LEMMA DeathKeepsHeld == ASSUME TypeOK, Held3, WorkerDies PROVE Held3'
<1>1. /\ UNCHANGED <<status, attempts, handing, deciding, merges>> /\ ~At("idle")
      /\ job'.pc = "idle"
  BY DEF WorkerDies, restOfWorld, repoVars, Idle
<1>2. job.run \in Runs /\ attempts[job.run] <= IF job.again THEN 2 ELSE 1
  BY <1>1 DEF Held3, OnePlace, Counted
<1>3. CASE job.again
  <2>1. queue' = queue
    BY <1>3 DEF WorkerDies, Redelivered
  <2> QED
    BY <1>1, <2>1 DEF Held3, OnePlace, Requested, Counted, At, Born
<1>4. CASE ~job.again
  <2> DEFINE j == [run |-> job.run, again |-> TRUE]
  <2>1. j \in Jobs /\ queue' = <<j>> \o queue
    BY <1>2, <1>4 DEF WorkerDies, Redelivered, Jobs
  <2>2. \A i \in DOMAIN queue' : \/ i = 1 /\ queue'[i] = j
                                \/ /\ i \in Nat /\ i # 1 /\ i - 1 \in DOMAIN queue
                                   /\ queue'[i] = queue[i - 1]
    <3>1. /\ DOMAIN queue' = 1 .. Len(queue) + 1
          /\ DOMAIN queue = 1 .. Len(queue) /\ Len(queue) \in Nat
          /\ queue'[1] = j
          /\ \A i \in 2 .. Len(queue) + 1 : queue'[i] = queue[i - 1]
      BY <2>1, QueueTyped, Prepended
    <3> HIDE DEF j
    <3> QED
      BY <3>1
  <2>3. \A i \in DOMAIN queue : i \in Nat
    BY QueueTyped
  <2>4. OnePlace'
    BY <1>1, <2>2, <2>3 DEF Held3, OnePlace, At
  <2>5. Requested'
    BY <1>1, <2>2 DEF Held3, Requested, At
  <2>6. Counted'
    BY <1>1, <1>2, <1>4, <2>2 DEF Held3, Counted, At
  <2> QED
    BY <2>4, <2>5, <2>6 DEF Held3
<1> QED
  BY <1>3, <1>4

----------------------------------------------------------------------------
(* The row and the job that executes it.                                   *)

Outside ==
  \/ Deploy \/ Delete \/ Merge \/ AutoDeploy \/ AutoInsert \/ RequestCancel
  \/ \E r \in Runs : Enqueue(r) \/ FindActive(r) \/ HandoverDies(r)

(* To the run the worker executes, the world outside does nothing but set  *)
(* the cancel flag, or make its row disappear.                             *)
LEMMA OutsideLeavesJob ==
  ASSUME TypeOK, Held3, Outside \/ UNCHANGED vars
  PROVE  /\ UNCHANGED <<job, box>> /\ (head' = head \/ head' = head + 1)
         /\ ~At("idle") => asked'[job.run] \in {0, asked[job.run]}
         /\ ~At("idle") /\ Born(job.run)' =>
              /\ Born(job.run) /\ status'[job.run] = status[job.run]
              /\ stopAsked[job.run] => stopAsked'[job.run]
<1>1. ~At("idle") => job.run \in Runs /\ status[job.run] # "unborn"
  BY DEF Held3, OnePlace, Requested
<1>2. UNCHANGED <<job, box>> /\ (head' = head \/ head' = head + 1)
  BY DEF Outside, Deploy, Delete, Merge, AutoDeploy, AutoInsert, RequestCancel, Enqueue, FindActive,
         HandoverDies, repoVars, vars
<1>3. CASE UNCHANGED <<status, asked>> /\ (UNCHANGED stopAsked \/ RequestCancel)
  BY <1>1, <1>2, <1>3 DEF RequestCancel, Born, TypeOK
<1>4. ASSUME NEW byMachine, Insert(byMachine)
      PROVE  ~At("idle") => /\ status'[job.run] = status[job.run]
                            /\ stopAsked'[job.run] = stopAsked[job.run]
                            /\ asked'[job.run] = asked[job.run]
  BY <1>1, <1>4 DEF Insert, TypeOK
<1>5. CASE Delete
  <2>1. ~At("idle") => status'[job.run] = "gone" /\ asked'[job.run] = 0
    BY <1>1, <1>5 DEF Delete
  <2> QED
    BY <1>2, <2>1 DEF Born, Record!RunStatuses, Record!InFlightStatuses, Record!SettledStatuses
<1>6. CASE Deploy \/ AutoInsert
  <2>1. UNCHANGED rowVars \/ \E byMachine \in BOOLEAN : Insert(byMachine)
    BY <1>6 DEF Deploy, AutoInsert
  <2>2. ~At("idle") => /\ status'[job.run] = status[job.run]
                       /\ stopAsked'[job.run] = stopAsked[job.run]
                       /\ asked'[job.run] = asked[job.run]
    BY <1>4, <2>1 DEF rowVars
  <2> QED
    BY <1>2, <2>2 DEF Born
<1> QED
  BY <1>3, <1>5, <1>6
     DEF Outside, Merge, AutoDeploy, RequestCancel, Enqueue, FindActive, HandoverDies, rowVars, vars

LEMMA WriteHits ==
  ASSUME TypeOK, NEW r \in Runs, NEW to \in Record!RunStatuses, Writes(r, to),
         status'[r] \in Record!RunStatuses
  PROVE  Born(r) /\ status'[r] = to
BY DEF TypeOK, Writes, Born

LEMMA JobFollowed ==
  ASSUME TypeOK, Held3, RowFollowsJob, Next \/ UNCHANGED vars
  PROVE  RowFollowsJob'
<1>1. CASE Outside \/ UNCHANGED vars
  <2>1. UNCHANGED job
    BY <1>1, OutsideLeavesJob
  <2> QED
    BY <1>1, <2>1, OutsideLeavesJob DEF RowFollowsJob, At, Born
<1>2. CASE TakeJob
  BY <1>2 DEF TakeJob, RowFollowsJob, ToDo, Idle, At, Born, restOfWorld
<1>3. CASE Begin \/ Build
  <2>1. ~At("idle") /\ job.run \in Runs /\ job'.run = job.run /\ job'.aborted = job.aborted
        /\ stopAsked' = stopAsked
    BY <1>3, RunTyped DEF Begin, Build, At, Goes, Held3, TypeOK, JobStates, restOfWorld
  <2>2. CASE Begin
    <3>1. job'.pc = "resolve" /\ Writes(job.run, "building")
      BY <2>2, RunTyped, <2>1 DEF Begin, Goes, Held3, JobStates
    <3> QED
      BY <2>1, <2>2, <3>1, WriteHits
         DEF Begin, RowFollowsJob, At, Born, Record!RunStatuses, Record!InFlightStatuses
  <2>3. CASE Build
    <3>1. job'.pc = "render" /\ Writes(job.run, "deploying")
      BY <2>3, RunTyped, <2>1 DEF Build, Goes, Held3, JobStates
    <3> QED
      BY <2>1, <2>3, <3>1, WriteHits
         DEF Build, RowFollowsJob, At, Born, Record!RunStatuses, Record!InFlightStatuses
  <2> QED
    BY <1>3, <2>2, <2>3
<1>4. CASE ResolveHead \/ Render \/ BringUp \/ StepFails \/ PollCancel
  <2>1. /\ ~At("idle") /\ job \in JobStates /\ UNCHANGED <<status, stopAsked>>
    BY <1>4, RunTyped DEF ResolveHead, Render, BringUp, StepFails, PollCancel, At, Working, Held3,
                          restOfWorld
  <2>2. CASE ResolveHead
    BY <2>1, <2>2 DEF ResolveHead, RowFollowsJob, At, Born, JobStates
  <2>3. CASE Render
    BY <2>1, <2>3 DEF Render, RowFollowsJob, At, Born, JobStates
  <2>4. CASE BringUp
    BY <2>1, <2>4 DEF BringUp, Goes, RowFollowsJob, At, Born, JobStates
  <2>5. CASE StepFails
    BY <2>1, <2>5 DEF StepFails, Idle, Working, RowFollowsJob, At, Born, JobStates
  <2>6. CASE PollCancel
    BY <2>1, <2>6 DEF PollCancel, RowFollowsJob, At, Born, JobStates
  <2> QED
    BY <1>4, <2>2, <2>3, <2>4, <2>5, <2>6
<1>5. CASE Finish
  <2>1. /\ job.run \in Runs /\ job'.run = job.run /\ job'.pc = "done" /\ job'.aborted = FALSE
    BY <1>5, RunTyped DEF Finish, At, Held3, Idle
  <2>2. PICK to \in Record!SettledStatuses : Writes(job.run, to)
    BY <1>5 DEF Finish, Record!SettledStatuses
  <2>3. status'[job.run] \in Record!RunStatuses => status'[job.run] \in Record!SettledStatuses
    BY <2>1, <2>2, WriteHits DEF Record!RunStatuses
  <2> QED
    BY <2>1, <2>3 DEF RowFollowsJob, At, Born
<1>6. CASE JobDone \/ WorkerDies
  BY <1>6 DEF JobDone, WorkerDies, Idle, RowFollowsJob, At
<1> QED
  BY <1>1, <1>2, <1>3, <1>4, <1>5, <1>6 DEF Next, WorkerStep, Outside

----------------------------------------------------------------------------
(* What a healthy row says of the box.                                     *)

(* A row becomes healthy only by the run that has passed the health gate.  *)
LEMMA HealthyComes ==
  ASSUME TypeOK, Held3, Next \/ UNCHANGED vars, NEW r \in Runs, status'[r] = "healthy"
  PROVE  \/ status[r] = "healthy" /\ asked'[r] = asked[r]
         \/ Finish /\ At("finish") /\ r = job.run
<1>1. CASE UNCHANGED <<status, asked>>
  BY <1>1
<1>2. ASSUME NEW byMachine, Insert(byMachine)
      PROVE  status[r] = "healthy" /\ asked'[r] = asked[r]
  BY <1>2 DEF Insert, TypeOK
<1>3. CASE Deploy \/ AutoInsert
  <2>1. UNCHANGED rowVars \/ \E byMachine \in BOOLEAN : Insert(byMachine)
    BY <1>3 DEF Deploy, AutoInsert
  <2> QED
    BY <1>1, <1>2, <2>1 DEF rowVars
<1>4. CASE Delete
  BY <1>4 DEF Delete
<1>5. CASE Begin \/ Build
  BY <1>5 DEF Begin, Build, Writes, TypeOK, restOfWorld
<1>6. CASE Finish
  BY <1>6 DEF Finish, Writes, TypeOK, restOfWorld, At
<1> QED
  BY <1>1, <1>3, <1>4, <1>5, <1>6
     DEF Next, Merge, AutoDeploy, RequestCancel, Enqueue, FindActive, HandoverDies, PollCancel,
         WorkerDies, WorkerStep, TakeJob, ResolveHead, Render, BringUp, StepFails, JobDone,
         restOfWorld, rowVars, vars

(* The box changes only while a run is rolled out, to what the run brings. *)
LEMMA BoxChanges ==
  ASSUME TypeOK, Held3, Next \/ UNCHANGED vars
  PROVE  /\ box.seeded => box'.seeded
         /\ UNCHANGED box \/ (At("up") /\ box'.sha = job.sha)
<1>1. CASE BringUp
  BY <1>1 DEF BringUp
<1>2. CASE StepFails
  <2>1. CASE UNCHANGED box
    BY <2>1
  <2>2. CASE ~UNCHANGED box
    <3>1. box.seeded \in BOOLEAN /\ job.seeds \in BOOLEAN
      BY DEF TypeOK
    <3>2. PICK seeded \in {box.seeded, box.seeded \/ job.seeds} :
            At("up") /\ box' = [sha |-> job.sha, seeded |-> seeded]
      BY <1>2, <2>2 DEF StepFails
    <3> QED
      BY <3>1, <3>2
  <2> QED
    BY <2>1, <2>2
<1>3. CASE UNCHANGED box
  BY <1>3
<1> QED
  BY <1>1, <1>2, <1>3, OutsideLeavesJob
     DEF Outside, Next, PollCancel, WorkerDies, WorkerStep, TakeJob, Begin, ResolveHead, Build,
         Render, Finish, JobDone

(* A run that ends, well or not, forgets what it was about to bring.       *)
LEMMA GivenUp ==
  ASSUME StepFails \/ Finish \/ JobDone \/ WorkerDies
  PROVE  job'.pc \in {"idle", "failing", "done"} /\ job'.sha = 0
<1>1. Idle \in JobStates /\ Idle.pc = "idle" /\ Idle.sha = 0
  BY IdleTyped DEF Idle
<1>2. CASE JobDone \/ WorkerDies
  BY <1>1, <1>2 DEF JobDone, WorkerDies
<1>3. CASE StepFails
  BY <1>1, <1>3 DEF StepFails, JobStates
<1>4. CASE Finish
  BY <1>1, <1>4 DEF Finish, JobStates
<1> QED
  BY <1>2, <1>3, <1>4

LEMMA SeedKept ==
  ASSUME TypeOK, Held3, SeedGoesFirst, Next \/ UNCHANGED vars
  PROVE  SeedGoesFirst'
<1>1. HealthyIsSeeded'
  BY HealthyComes, BoxChanges DEF HealthyIsSeeded, SeedGoesFirst
<1>2. (At("up") /\ ~job.seeds => box.seeded)' /\ (At("finish") => box.seeded)'
  <2>1. CASE Outside \/ UNCHANGED vars
    BY <2>1, OutsideLeavesJob DEF SeedGoesFirst, At
  <2>2. CASE Render
    <3>1. ~NeedsSeed => box.seeded
      BY DEF NeedsSeed, SeedGoesFirst, HealthyIsSeeded
    <3>2. job \in JobStates
      BY DEF TypeOK, JobStates
    <3> QED
      BY <2>2, <3>1, <3>2 DEF Render, At, JobStates
  <2>3. CASE BringUp
    <3>1. job \in JobStates
      BY DEF TypeOK, JobStates
    <3> QED
      BY <2>3, <3>1 DEF BringUp, Goes, SeedGoesFirst, At, JobStates
  <2>4. CASE PollCancel
    <3>1. job \in JobStates
      BY DEF TypeOK, JobStates
    <3> QED
      BY <2>4, <3>1 DEF PollCancel, SeedGoesFirst, At, JobStates
  <2>5. CASE TakeJob
    BY <2>5 DEF TakeJob, Idle, At, SeedGoesFirst
  <2>6. CASE Begin \/ ResolveHead \/ Build \/ StepFails \/ Finish \/ JobDone \/ WorkerDies
    <3>1. job \in JobStates
      BY DEF TypeOK, JobStates
    <3>2. job'.pc \notin {"up", "finish"}
      <4>1. CASE Begin \/ ResolveHead \/ Build
        BY <3>1, <4>1 DEF Begin, ResolveHead, Build, Goes, JobStates
      <4>2. CASE StepFails \/ Finish \/ JobDone \/ WorkerDies
        BY <4>2, GivenUp
      <4> QED
        BY <2>6, <4>1, <4>2
    <3> QED
      BY <3>2 DEF At
  <2> QED
    BY <2>1, <2>2, <2>3, <2>4, <2>5, <2>6 DEF Next, WorkerStep, Outside
<1> QED
  BY <1>1, <1>2 DEF SeedGoesFirst

(* A row is inserted with the head of its time.                            *)
LEMMA AskedBelowHead ==
  ASSUME TypeOK, TypeOK', Held3, HeadsGrow, Next \/ UNCHANGED vars
  PROVE  head <= head' /\ \A r \in Runs : asked'[r] <= head'
<1>1. head \in Nat /\ head' \in Nat /\ \A r \in Runs : asked[r] \in Nat /\ asked'[r] \in Nat
  <2>1. /\ asked \in [Runs -> 0 .. MaxHead] /\ asked' \in [Runs -> 0 .. MaxHead]
        /\ head \in 0 .. MaxHead /\ head' \in 0 .. MaxHead
    BY DEF TypeOK
  <2> QED
    BY <2>1, Bounds
<1>2. head <= head'
  <2>1. CASE Outside \/ UNCHANGED vars
    BY <1>1, <2>1, OutsideLeavesJob
  <2>2. CASE UNCHANGED head
    BY <1>1, <2>2
  <2> QED
    BY <2>1, <2>2 DEF Next, Outside, WorkerStep, PollCancel, WorkerDies, TakeJob, Begin, ResolveHead,
                      Build, Render, BringUp, StepFails, Finish, JobDone, restOfWorld, repoVars
<1>3. CASE UNCHANGED asked
  BY <1>1, <1>2, <1>3 DEF HeadsGrow
<1>4. CASE Deploy \/ AutoInsert
  <2>1. CASE UNCHANGED rowVars
    BY <1>3, <2>1 DEF rowVars
  <2>2. ASSUME NEW byMachine, Insert(byMachine)
        PROVE  \A r \in Runs : asked'[r] <= head
    BY <1>1, <2>2 DEF Insert, HeadsGrow, TypeOK
  <2>3. UNCHANGED rowVars \/ \E byMachine \in BOOLEAN : Insert(byMachine)
    BY <1>4 DEF Deploy, AutoInsert
  <2> QED
    BY <1>1, <1>2, <2>1, <2>2, <2>3
<1>5. CASE Delete
  BY <1>1, <1>2, <1>5 DEF Delete
<1> QED
  BY <1>2, <1>3, <1>4, <1>5
     DEF Next, Merge, AutoDeploy, RequestCancel, Enqueue, FindActive, HandoverDies, PollCancel,
         WorkerDies, WorkerStep, TakeJob, Begin, ResolveHead, Build, Render, BringUp, StepFails,
         Finish, JobDone, restOfWorld, rowVars, vars

LEMMA HeadsKept ==
  ASSUME TypeOK, TypeOK', Held3, HeadsGrow, Next \/ UNCHANGED vars
  PROVE  HeadsGrow'
<1>1. /\ head \in Nat /\ head' \in Nat /\ box.sha \in Nat /\ box'.sha \in Nat
      /\ job.sha \in Nat /\ job'.sha \in Nat
      /\ \A r \in Runs : asked[r] \in Nat /\ asked'[r] \in Nat
  <2>1. 0 .. MaxHead \subseteq Nat
    BY Bounds
  <2> QED
    BY <2>1 DEF TypeOK
<1>2. box'.sha >= box.sha /\ box'.sha <= head'
  BY <1>1, BoxChanges, AskedBelowHead DEF HeadsGrow, At
<1>3. BoxServesTheHealthy'
  <2>1. ASSUME NEW r \in Runs, status'[r] = "healthy"
        PROVE  box'.sha >= asked'[r]
    <3>1. CASE status[r] = "healthy" /\ asked'[r] = asked[r]
      BY <1>1, <1>2, <3>1 DEF HeadsGrow, BoxServesTheHealthy
    <3>2. CASE Finish /\ At("finish") /\ r = job.run
      BY <1>1, <3>2 DEF Finish, restOfWorld, HeadsGrow
    <3> QED
      BY <2>1, <3>1, <3>2, HealthyComes
  <2> QED
    BY <2>1 DEF BoxServesTheHealthy
<1>4. /\ (job.pc \in {"build", "render", "up"} => job.sha >= box.sha /\ job.sha >= asked[job.run])'
      /\ (job.sha <= head)'
      /\ (At("finish") => box.sha >= asked[job.run])'
  <2>1. job \in JobStates
    BY DEF TypeOK, JobStates
  <2>2. ~At("idle") => job.run \in Runs
    BY DEF Held3, OnePlace
  <2>3. CASE Outside \/ UNCHANGED vars
    <3>1. UNCHANGED <<job, box>> /\ head <= head'
      BY <2>3, OutsideLeavesJob, AskedBelowHead
    <3>2. ~At("idle") => asked'[job.run] <= asked[job.run]
      BY <1>1, <2>2, <2>3, OutsideLeavesJob
    <3> QED
      BY <1>1, <2>2, <3>1, <3>2 DEF HeadsGrow, At
  <2>4. CASE ResolveHead
    BY <1>1, <2>1, <2>2, <2>4 DEF ResolveHead, Resolved, HeadsGrow, At, JobStates, restOfWorld, repoVars
  <2>5. CASE Begin \/ Build \/ Render \/ PollCancel
    <3>1. UNCHANGED <<box, asked, head>>
      BY <2>5 DEF Begin, Build, Render, PollCancel, restOfWorld, repoVars
    <3> QED
      BY <1>1, <2>1, <2>5, <3>1 DEF Begin, Build, Render, PollCancel, Goes, HeadsGrow, At, JobStates
  <2>6. CASE BringUp
    BY <1>1, <2>1, <2>6 DEF BringUp, Goes, HeadsGrow, At, JobStates, restOfWorld, repoVars
  <2>7. CASE TakeJob
    <3>1. UNCHANGED job \/ (job'.pc = "env" /\ job'.sha = 0)
      BY <2>7 DEF TakeJob, Idle
    <3>2. At("idle") /\ UNCHANGED <<box, head, asked>>
      BY <2>7 DEF TakeJob, restOfWorld, repoVars
    <3> QED
      BY <1>1, <3>1, <3>2 DEF HeadsGrow, At
  <2>8. CASE StepFails \/ Finish \/ JobDone \/ WorkerDies
    <3>1. job'.pc \in {"idle", "failing", "done"} /\ job'.sha = 0
      BY <2>8, GivenUp
    <3> QED
      BY <1>1, <3>1 DEF At
  <2> QED
    BY <2>3, <2>4, <2>5, <2>6, <2>7, <2>8 DEF Next, WorkerStep, Outside
<1> QED
  BY <1>2, <1>3, <1>4, AskedBelowHead DEF HeadsGrow

----------------------------------------------------------------------------
(* Every reachable state satisfies the invariant.                          *)

LEMMA Starts == Init => IInv
<1> SUFFICES ASSUME Init PROVE IInv
  OBVIOUS
<1> USE DEF Init
<1>1. TypeOK
  <2>1. 0 \in 0 .. MaxHead /\ 0 \in 0 .. MaxPending /\ 0 \in 0 .. MaxDeaths /\ 0 \in 0 .. 2
    BY Bounds
  <2>2. <<>> \in Seq(Jobs) /\ job \in JobStates
    BY IdleTyped
  <2> QED
    BY <2>1, <2>2 DEF TypeOK, JobStates
<1>2. At("idle")
  BY DEF At, Idle
<1>3. Held3
  BY <1>2 DEF Held3, OnePlace, Requested, Counted
<1>4. RowFollowsJob /\ SeedGoesFirst
  BY <1>2 DEF RowFollowsJob, SeedGoesFirst, HealthyIsSeeded, At
<1>5. HeadsGrow
  BY <1>2 DEF HeadsGrow, BoxServesTheHealthy, At, Idle
<1> QED
  BY <1>1, <1>3, <1>4, <1>5 DEF IInv, Held3

LEMMA Continues == IInv /\ [Next]_vars => IInv'
<1> SUFFICES ASSUME IInv, Next \/ UNCHANGED vars PROVE IInv'
  OBVIOUS
<1>1. TypeOK /\ Held3 /\ RowFollowsJob /\ SeedGoesFirst /\ HeadsGrow
  BY DEF IInv, Held3
<1>2. TypeOK'
  <2>1. CASE UNCHANGED vars
    BY <1>1, <2>1 DEF TypeOK, vars, rowVars, repoVars
  <2>2. CASE Next
    BY <1>1, <2>2, RequestsTyped, OthersTyped, WorkerTyped DEF Next, Held3
  <2> QED
    BY <2>1, <2>2
<1>3. Held3'
  <2>1. CASE Unmoved
    BY <1>1, <1>2, <2>1, UnmovedKeeps
  <2>2. CASE ~Unmoved
    BY <1>1, <2>2, WorkerUnmoved, OthersUnmoved, InsertKeepsHeld, HandoverKeepsHeld, TakeKeepsHeld,
       DeathKeepsHeld DEF Next, WorkerStep
  <2> QED
    BY <2>1, <2>2
<1>4. RowFollowsJob' /\ SeedGoesFirst' /\ HeadsGrow'
  BY <1>1, <1>2, JobFollowed, SeedKept, HeadsKept
<1> QED
  BY <1>2, <1>3, <1>4 DEF IInv, Held3

(* Every reachable state satisfies the inductive invariant: where a run is *)
(* and how often it has been taken up, what its row says meanwhile, and    *)
(* what the box holds.                                                     *)
THEOREM Invariance == Spec => []IInv
BY Starts, Continues, PTL DEF Spec

(* The type invariant; in particular no run is taken up a third time.      *)
THEOREM TypeCorrect == Spec => []TypeOK
<1>1. IInv => TypeOK
  BY DEF IInv
<1> QED
  BY <1>1, Invariance, PTL

(* The first healthy run has left its owner account on the box, whatever   *)
(* runs failed, died or were cancelled before (neverDeployedHealthy).      *)
THEOREM HealthyOnesAreSeeded == Spec => []HealthyIsSeeded
<1>1. IInv => HealthyIsSeeded
  BY DEF IInv, SeedGoesFirst
<1> QED
  BY <1>1, Invariance, PTL

(* No reordering or redelivery rolls the box back behind what a healthy    *)
(* run was asked for (resolve-head-sha).                                   *)
THEOREM HealthyOnesAreServed == Spec => []BoxServesTheHealthy
<1>1. IInv => BoxServesTheHealthy
  BY DEF IInv, HeadsGrow
<1> QED
  BY <1>1, Invariance, PTL

----------------------------------------------------------------------------
(* The refinement: each step is a step of the record, or none.             *)

RecordStep == Record!Next \/ UNCHANGED <<status, stopAsked, attempts>>

LEMMA RecordKeptOutside ==
  ASSUME IInv, Outside \/ UNCHANGED vars
  PROVE  RecordStep
<1>1. CASE UNCHANGED <<status, stopAsked, attempts>>
  BY <1>1 DEF RecordStep
<1>2. ASSUME NEW byMachine, Insert(byMachine)
      PROVE  Record!Next
  <2>1. PICK r \in Runs : /\ status[r] = "unborn" /\ status' = [status EXCEPT ![r] = "queued"]
                          /\ UNCHANGED <<stopAsked, attempts>>
    BY <1>2 DEF Insert
  <2>2. Record!Request(r)
    BY <2>1 DEF Record!Request, Record!Moves
  <2> QED
    BY <2>2 DEF Record!Next
<1>3. CASE Deploy \/ AutoInsert
  BY <1>1, <1>2, <1>3 DEF Deploy, AutoInsert, rowVars, RecordStep
<1>4. CASE RequestCancel
  <2>1. CASE Born(cancelling)
    <3>1. cancelling \in Runs
      BY <1>4 DEF IInv, TypeOK, RequestCancel
    <3>2. Record!Stop(cancelling)
      BY <1>4, <2>1 DEF RequestCancel, Record!Stop, Born
    <3> QED
      BY <3>1, <3>2 DEF Record!Next, RecordStep
  <2>2. CASE ~Born(cancelling)
    BY <1>1, <1>4, <2>2 DEF RequestCancel
  <2> QED
    BY <2>1, <2>2
<1>5. CASE Delete
  <2>1. Record!Vanish
    BY <1>5 DEF Delete, Record!Vanish
  <2> QED
    BY <2>1 DEF Record!Next, RecordStep
<1> QED
  BY <1>1, <1>3, <1>4, <1>5
     DEF Outside, Merge, AutoDeploy, Enqueue, FindActive, HandoverDies, rowVars, vars

LEMMA RecordKeptByWorker ==
  ASSUME IInv, WorkerStep \/ PollCancel \/ WorkerDies
  PROVE  RecordStep
<1>1. CASE UNCHANGED <<status, stopAsked, attempts>>
  BY <1>1 DEF RecordStep
<1>2. CASE TakeJob
  <2> DEFINE r == Head(queue).run
  <2>1. CASE ToDo(r)
    <3>1. r \in Runs /\ attempts[r] < 2
      <4>1. Head(queue) = queue[1] /\ Head(queue) \in Jobs /\ 1 \in DOMAIN queue
        BY <1>2, QueueTyped, Taken DEF TakeJob, IInv
      <4>2. r \in Runs /\ attempts[r] \in Nat
        BY <4>1, AttemptsTyped DEF Jobs, IInv
      <4> QED
        BY <4>1, <4>2 DEF IInv, Counted
    <3>2. Record!TakeUp(r)
      BY <1>2, <2>1, <3>1 DEF TakeJob, ToDo, Born, Record!TakeUp, restOfWorld
    <3> QED
      BY <3>1, <3>2 DEF Record!Next, RecordStep
  <2>2. CASE ~ToDo(r)
    BY <1>1, <1>2, <2>2 DEF TakeJob, restOfWorld
  <2> QED
    BY <2>1, <2>2
<1>3. ASSUME ~At("idle"), Born(job.run)
      PROVE  /\ job.run \in Runs /\ attempts[job.run] > 0
             /\ ~At("done") => status[job.run] \in Record!RunStatuses \ {"healthy"}
  BY <1>3 DEF IInv, OnePlace, Counted, RowFollowsJob, Born
<1>4. CASE Begin
  <2>1. CASE Born(job.run)
    <3>1. Record!Execute(job.run)
      BY <1>3, <1>4, <2>1 DEF Begin, At, Writes, Record!Execute, Record!Moves, restOfWorld
    <3> QED
      BY <1>3, <1>4, <2>1, <3>1 DEF Begin, At, Record!Next, RecordStep
  <2>2. CASE ~Born(job.run)
    BY <1>1, <1>4, <2>2 DEF Begin, Writes, restOfWorld
  <2> QED
    BY <2>1, <2>2
<1>5. CASE Build
  <2>1. CASE Born(job.run)
    <3>1. Record!Roll(job.run)
      BY <1>5, <2>1 DEF Build, At, Writes, Record!Roll, Record!Moves, restOfWorld, IInv, RowFollowsJob
    <3> QED
      BY <1>3, <1>5, <2>1, <3>1 DEF Build, At, Record!Next, RecordStep
  <2>2. CASE ~Born(job.run)
    BY <1>1, <1>5, <2>2 DEF Build, Writes, restOfWorld
  <2> QED
    BY <2>1, <2>2
<1>6. CASE Finish
  <2>1. CASE Born(job.run)
    <3>1. /\ At("finish") => status[job.run] = "deploying"
          /\ At("failing") /\ job.aborted => stopAsked[job.run]
      BY <2>1 DEF IInv, RowFollowsJob, At
    <3>2. Record!Settle(job.run)
      BY <1>3, <1>6, <2>1, <3>1 DEF Finish, At, Writes, Record!Settle, Record!Moves, restOfWorld
    <3> QED
      BY <1>3, <1>6, <2>1, <3>2 DEF Finish, At, Record!Next, RecordStep
  <2>2. CASE ~Born(job.run)
    BY <1>1, <1>6, <2>2 DEF Finish, Writes, restOfWorld
  <2> QED
    BY <2>1, <2>2
<1> QED
  BY <1>1, <1>2, <1>4, <1>5, <1>6
     DEF WorkerStep, ResolveHead, Render, BringUp, StepFails, JobDone, PollCancel, WorkerDies,
         restOfWorld

(* The api, the queue and the worker implement DeploymentRecord.           *)
THEOREM Refinement == Spec => KeepsTheRecord
<1>1. Init => Record!Init
  BY DEF Init, Record!Init
<1>2. IInv /\ [Next]_vars => [Record!Next]_<<status, stopAsked, attempts>>
  BY RecordKeptOutside, RecordKeptByWorker DEF Next, Outside, RecordStep
<1> QED
  BY <1>1, <1>2, Invariance, PTL DEF Spec, Record!Spec, KeepsTheRecord

----------------------------------------------------------------------------
(* Runs that say in flight while nobody is going to finish them.           *)

(* Outside of deaths, a run that somebody holds stays held or settles.     *)
LEMMA HeldUnlessSettled ==
  ASSUME IInv, IInv', Next \/ UNCHANGED vars, NEW r \in Runs, r \in Orphans'
  PROVE  \/ r \in Orphans
         \/ HandoverDies(r)
         \/ WorkerDies /\ r = job.run
<1>1. /\ status'[r] \in Record!InFlightStatuses /\ r \notin handing'
      /\ \A i \in DOMAIN queue' : queue'[i].run # r
      /\ job'.run # r \/ job'.pc = "idle"
  BY DEF Orphans, Held, InFlight, Record!InFlight, At
<1>2. SUFFICES ASSUME ~(/\ status[r] \in Record!InFlightStatuses /\ r \notin handing
                        /\ \A i \in DOMAIN queue : queue[i].run # r
                        /\ job.run # r \/ job.pc = "idle"),
                      ~HandoverDies(r), ~(WorkerDies /\ r = job.run)
               PROVE  FALSE
  BY DEF Orphans, Held, InFlight, Record!InFlight, At
<1>3. TypeOK /\ Held3
  BY DEF IInv, Held3
<1>4. CASE UNCHANGED <<status, handing, queue>> /\ UNCHANGED <<job>>
  BY <1>1, <1>2, <1>4
<1>5. CASE Deploy \/ AutoInsert
  <2>1. UNCHANGED <<queue, job>>
    BY <1>5 DEF Deploy, AutoInsert
  <2>2. CASE UNCHANGED <<rowVars, handing>>
    BY <1>4, <2>1, <2>2 DEF rowVars
  <2>3. ASSUME NEW byMachine, Insert(byMachine)
        PROVE  FALSE
    <3>1. status'[r] = status[r] /\ r \notin handing
      BY <1>1, <1>3, <2>3 DEF Insert, TypeOK
    <3> QED
      BY <1>1, <1>2, <2>1, <3>1
  <2> QED
    BY <1>5, <2>2, <2>3 DEF Deploy, AutoInsert
<1>6. CASE Delete
  BY <1>1, <1>6 DEF Delete, Record!InFlightStatuses
<1>7. ASSUME NEW q \in Runs, Enqueue(q) \/ HandoverDies(q)
      PROVE  FALSE
  <2>1. UNCHANGED <<status, job>> /\ handing' = handing \ {q}
    BY <1>7 DEF Enqueue, HandoverDies, rowVars
  <2>2. CASE HandoverDies(q)
    BY <1>1, <1>2, <2>1, <2>2 DEF HandoverDies
  <2>3. CASE Enqueue(q)
    <3>1. /\ \A i \in DOMAIN queue : i \in DOMAIN queue' /\ queue'[i] = queue[i]
          /\ \E i \in DOMAIN queue' : queue'[i].run = q
      <4> DEFINE j == [run |-> q, again |-> FALSE]
      <4>1. j \in Jobs /\ queue' = Append(queue, j) /\ queue \in Seq(Jobs)
        BY <1>3, <2>3, QueueTyped DEF Enqueue, Jobs
      <4>2. Len(queue) + 1 \in DOMAIN queue' /\ queue'[Len(queue) + 1] = j
        BY <4>1, Appended
      <4> QED
        BY <4>1, <4>2, Appended
    <3> QED
      BY <1>1, <1>2, <2>1, <3>1
  <2> QED
    BY <1>7, <2>2, <2>3
<1>8. CASE TakeJob
  <2>1. /\ Head(queue) = queue[1] /\ Head(queue).run \in Runs
        /\ \A i \in DOMAIN queue : i = 1 \/ \E k \in DOMAIN queue' : queue'[k] = queue[i]
    <3>1. /\ Tail(queue) \in Seq(Jobs) /\ Head(queue) = queue[1] /\ Head(queue) \in Jobs
          /\ DOMAIN queue = 1 .. Len(queue) /\ Len(queue) \in Nat \ {0}
          /\ DOMAIN queue' = 1 .. Len(queue) - 1
          /\ \A i \in 1 .. Len(queue) - 1 : queue'[i] = queue[i + 1]
      BY <1>3, <1>8, QueueTyped, Taken DEF TakeJob
    <3>2. ASSUME NEW i \in DOMAIN queue, i # 1
          PROVE  i - 1 \in DOMAIN queue' /\ queue'[i - 1] = queue[i]
      BY <3>1, <3>2
    <3> QED
      BY <3>1, <3>2 DEF Jobs
  <2>2. UNCHANGED <<status, handing>> /\ job.pc = "idle"
    BY <1>8 DEF TakeJob, restOfWorld, At
  <2>3. CASE r = Head(queue).run
    <3>1. ToDo(r)
      BY <1>1, <2>2 DEF ToDo, Born, Record!RunStatuses, Record!InFlightStatuses
    <3> QED
      BY <1>1, <1>8, <2>3, <3>1 DEF TakeJob, Idle
  <2>4. CASE r # Head(queue).run
    BY <1>1, <1>2, <2>1, <2>2, <2>4
  <2> QED
    BY <2>3, <2>4
<1>9. CASE Begin \/ ResolveHead \/ Build \/ Render \/ BringUp \/ StepFails \/ Finish \/ PollCancel
  <2>1. UNCHANGED <<queue, handing>> /\ job.pc # "idle" /\ job'.pc # "idle" /\ job'.run = job.run
    <3>1. job \in JobStates
      BY <1>3 DEF TypeOK, JobStates
    <3>2. UNCHANGED <<queue, handing>>
      BY <1>9 DEF Begin, ResolveHead, Build, Render, BringUp, StepFails, Finish, PollCancel,
                  restOfWorld
    <3>3. CASE Begin \/ ResolveHead \/ Build \/ Render \/ BringUp \/ PollCancel
      BY <3>1, <3>2, <3>3 DEF Begin, ResolveHead, Build, Render, BringUp, PollCancel, Goes, At,
                              Working, JobStates
    <3>4. CASE StepFails \/ Finish
      BY <3>1, <3>2, <3>4 DEF StepFails, Finish, At, Working, Idle, JobStates
    <3> QED
      BY <1>9, <3>3, <3>4
  <2>2. r # job.run
    BY <1>1, <2>1
  <2>3. status'[r] = status[r]
    BY <1>3, <1>9, <2>2 DEF Begin, ResolveHead, Build, Render, BringUp, StepFails, Finish, PollCancel,
                            Writes, TypeOK
  <2> QED
    BY <1>1, <1>2, <2>1, <2>2, <2>3
<1>10. CASE JobDone
  <2>1. UNCHANGED <<status, queue, handing>> /\ At("done")
    BY <1>10 DEF JobDone, restOfWorld
  <2>2. Born(job.run) => status[job.run] \in Record!SettledStatuses
    BY <2>1 DEF IInv, RowFollowsJob, At
  <2> QED
    BY <1>1, <1>2, <2>1, <2>2
       DEF Born, Record!RunStatuses, Record!InFlightStatuses, Record!SettledStatuses
<1>11. CASE WorkerDies
  <2>1. UNCHANGED <<status, handing>> /\ r # job.run
    BY <1>2, <1>11 DEF WorkerDies, restOfWorld
  <2>2. \A i \in DOMAIN queue : \E k \in DOMAIN queue' : queue'[k] = queue[i]
    <3>1. CASE queue' = queue
      BY <3>1
    <3>2. CASE queue' = <<[run |-> job.run, again |-> TRUE]>> \o queue
      <4>1. [run |-> job.run, again |-> TRUE] \in Jobs
        BY <1>3, <1>11, RunTyped DEF WorkerDies, Held3, Jobs
      <4>2. /\ DOMAIN queue' = 1 .. Len(queue) + 1
            /\ DOMAIN queue = 1 .. Len(queue) /\ Len(queue) \in Nat
            /\ \A i \in 2 .. Len(queue) + 1 : queue'[i] = queue[i - 1]
        BY <1>3, <3>2, <4>1, QueueTyped, Prepended
      <4>3. ASSUME NEW i \in DOMAIN queue
            PROVE  i + 1 \in DOMAIN queue' /\ queue'[i + 1] = queue[i]
        BY <4>2
      <4> QED
        BY <4>3
    <3> QED
      BY <1>11, <3>1, <3>2 DEF WorkerDies, Redelivered
  <2> QED
    BY <1>1, <1>2, <2>1, <2>2
<1> QED
  BY <1>4, <1>5, <1>6, <1>7, <1>8, <1>9, <1>10, <1>11
     DEF Next, Merge, AutoDeploy, RequestCancel, FindActive, WorkerStep, rowVars, vars

LEMMA OrphansAreFew ==
  ASSUME IInv, IInv', OrphansCostDeaths, Next \/ UNCHANGED vars
  PROVE  OrphansCostDeaths'
<1>1. /\ IsFiniteSet(Orphans) /\ Cardinality(Orphans) \in Nat
      /\ \A q \in Runs : /\ IsFiniteSet(Orphans \union {q})
                        /\ Cardinality(Orphans \union {q}) <= Cardinality(Orphans) + 1
  <2>1. IsFiniteSet(Runs)
    BY Bounds, FS_Interval DEF Runs
  <2>2. IsFiniteSet(Orphans)
    BY <2>1, FS_Subset DEF Orphans
  <2> QED
    BY <2>2, FS_CardinalityType, FS_AddElement
<1>2. deaths \in Nat /\ deaths' \in Nat
  BY Bounds DEF IInv, TypeOK
<1>3. ASSUME NEW q \in Runs, deaths' = deaths + 1, Orphans' \subseteq Orphans \union {q}
      PROVE  OrphansCostDeaths'
  <2>1. Cardinality(Orphans') <= Cardinality(Orphans \union {q})
    BY <1>1, <1>3, FS_Subset
  <2>2. Cardinality(Orphans') \in Nat /\ Cardinality(Orphans \union {q}) \in Nat
    BY <1>1, <1>3, FS_Subset, FS_CardinalityType
  <2> QED
    BY <1>1, <1>2, <1>3, <2>1, <2>2 DEF OrphansCostDeaths
<1>4. ASSUME NEW q \in Runs, HandoverDies(q)
      PROVE  OrphansCostDeaths'
  <2>1. /\ deaths' = deaths + 1 /\ handing' = handing \ {q} /\ q \in handing
        /\ UNCHANGED job
    BY <1>4 DEF HandoverDies, Dies
  <2>2. ~WorkerDies
    BY <2>1 DEF WorkerDies, At, Idle
  <2>3. \A r \in Runs : HandoverDies(r) => r = q
    BY <2>1 DEF HandoverDies
  <2>4. Orphans' \subseteq Orphans \union {q}
    BY <2>2, <2>3, HeldUnlessSettled DEF Orphans
  <2> QED
    BY <1>3, <2>1, <2>4
<1>5. CASE WorkerDies
  <2>1. deaths' = deaths + 1 /\ job.run \in Runs
    BY <1>5 DEF WorkerDies, Dies, IInv, OnePlace
  <2>2. \A r \in Runs : ~HandoverDies(r)
    BY <1>5 DEF WorkerDies, HandoverDies, restOfWorld
  <2>3. Orphans' \subseteq Orphans \union {job.run}
    BY <2>2, HeldUnlessSettled DEF Orphans
  <2> QED
    BY <1>3, <2>1, <2>3
<1>6. CASE ~WorkerDies /\ \A q \in Runs : ~HandoverDies(q)
  <2>1. Orphans' \subseteq Orphans
    BY <1>6, HeldUnlessSettled DEF Orphans
  <2>2. Cardinality(Orphans') <= Cardinality(Orphans) /\ Cardinality(Orphans') \in Nat
    BY <1>1, <2>1, FS_Subset, FS_CardinalityType
  <2>3. deaths <= deaths'
    <3>1. CASE WorkerStep \/ PollCancel
      BY <1>2, <3>1 DEF WorkerStep, TakeJob, Begin, ResolveHead, Build, Render, BringUp, StepFails,
                        Finish, JobDone, PollCancel
    <3>2. CASE Outside \/ UNCHANGED vars
      <4>1. CASE Deploy \/ Delete \/ Merge \/ AutoDeploy \/ AutoInsert \/ RequestCancel
        <5>1. Deploy \/ AutoInsert => UNCHANGED deaths
          BY DEF Deploy, AutoInsert
        <5>2. Delete => UNCHANGED deaths
          BY DEF Delete
        <5>3. Merge \/ AutoDeploy => UNCHANGED deaths
          BY DEF Merge, AutoDeploy
        <5>4. RequestCancel => UNCHANGED deaths
          BY DEF RequestCancel
        <5> QED
          BY <1>2, <4>1, <5>1, <5>2, <5>3, <5>4
      <4>2. ASSUME NEW r \in Runs, Enqueue(r) \/ FindActive(r)
            PROVE  deaths <= deaths'
        BY <1>2, <4>2 DEF Enqueue, FindActive
      <4>3. CASE UNCHANGED vars
        BY <1>2, <4>3 DEF vars
      <4> QED
        BY <1>6, <3>2, <4>1, <4>2, <4>3 DEF Outside
    <3> QED
      BY <1>6, <3>1, <3>2 DEF Next, Outside
  <2> QED
    BY <1>1, <1>2, <2>2, <2>3 DEF OrphansCostDeaths
<1> QED
  BY <1>4, <1>5, <1>6

(* However requests, the queue and the worker interleave, a run that is in *)
(* flight and forgotten has cost a death of its own (the row is inserted   *)
(* before its job is enqueued, and a job is handed out again once).        *)
THEOREM OrphansBounded == Spec => []OrphansCostDeaths
<1>1. Init => OrphansCostDeaths
  <2> SUFFICES ASSUME Init PROVE OrphansCostDeaths
    OBVIOUS
  <2>1. Orphans = {}
    BY DEF Init, Orphans, InFlight, Record!InFlight, Record!InFlightStatuses
  <2> QED
    BY <2>1, FS_EmptySet DEF Init, OrphansCostDeaths
<1>2. IInv /\ IInv' /\ OrphansCostDeaths /\ [Next]_vars => OrphansCostDeaths'
  BY OrphansAreFew
<1> QED
  BY <1>1, <1>2, Invariance, PTL DEF Spec

----------------------------------------------------------------------------
(* The breaker.                                                            *)

(* A row that has not been taken up is queued, and the worker settles a    *)
(* run it has taken up once just once: until then it is in flight.         *)
FirstGo ==
  /\ \A r \in Runs : Born(r) /\ attempts[r] = 0 => status[r] = "queued"
  /\ ~At("idle") /\ ~At("done") /\ Born(job.run) /\ attempts[job.run] <= 1 => InFlight(job.run)

(* Once the machine has decided, an automatic run among those it has       *)
(* looked at can only be in flight for a second time.                      *)
NoneInFlight == deciding => \A r \in Recent : auto[r] /\ InFlight(r) => attempts[r] > 1

Breaker == FirstGo /\ NoneInFlight /\ BreakerHolds

LEMMA Statuses ==
  /\ Record!RunStatuses = {"queued", "building", "deploying", "healthy", "failed", "cancelled"}
  /\ \A r \in Runs : /\ InFlight(r) <=> status[r] \in {"queued", "building", "deploying"}
                     /\ Born(r) <=> status[r] \in Record!RunStatuses
BY DEF Record!RunStatuses, Record!InFlightStatuses, Record!SettledStatuses, InFlight,
       Record!InFlight, Born

(* What the steps do to rows, besides inserting them and deleting them.    *)
RowsMove ==
  /\ UNCHANGED auto
  /\ \A r \in Runs :
       /\ attempts[r] <= attempts'[r] /\ (Born(r)' <=> Born(r))
       /\ status'[r] = "failed" /\ attempts[r] <= 1 => status[r] = "failed" \/ InFlight(r)
       /\ InFlight(r)' => InFlight(r) \/ attempts[r] > 1
       /\ status[r] = "healthy" => status'[r] = "healthy"

LEMMA Rest ==
  ASSUME TypeOK, UNCHANGED <<status, auto>>, \A r \in Runs : attempts[r] <= attempts'[r]
  PROVE  RowsMove
BY DEF RowsMove, Born, InFlight, Record!InFlight

(* Written is the row of the run the worker executes, which is not healthy *)
(* and, the first time, in flight.                                         *)
LEMMA WritesMove ==
  ASSUME TypeOK, Held3, RowFollowsJob, FirstGo, ~At("idle"), ~At("done"),
         NEW to \in Record!RunStatuses, Writes(job.run, to), UNCHANGED <<auto, attempts>>,
         to \in {"queued", "building", "deploying"} \/ to \in Record!SettledStatuses
  PROVE  RowsMove
<1> DEFINE r == job.run
<1>1. r \in Runs /\ attempts[r] \in Nat /\ \A q \in Runs : attempts[q] \in Nat
  BY AttemptsTyped DEF Held3, OnePlace
<1>2. CASE ~Born(r)
  <2>1. UNCHANGED <<status, auto>>
    BY <1>2 DEF Writes
  <2> QED
    BY <1>1, <2>1, Rest
<1>3. CASE Born(r)
  <2>1. status[r] # "healthy" /\ (InFlight(r) \/ attempts[r] > 1)
    BY <1>1, <1>3 DEF RowFollowsJob, FirstGo
  <2>2. status'[r] = to /\ \A q \in Runs \ {r} : status'[q] = status[q]
    BY <1>1, <1>3 DEF Writes, TypeOK
  <2> HIDE DEF r
  <2>3. \A q \in Runs : Born(q)' <=> Born(q)
    BY <1>3, <2>2 DEF Born
  <2>4. \A q \in Runs : InFlight(q)' => InFlight(q) \/ attempts[q] > 1
    BY <2>1, <2>2 DEF InFlight, Record!InFlight
  <2>5. \A q \in Runs : /\ status'[q] = "failed" /\ attempts[q] <= 1 => status[q] = "failed" \/ InFlight(q)
                        /\ status[q] = "healthy" => status'[q] = "healthy"
    BY <1>1, <2>1, <2>2
  <2> QED
    BY <1>1, <2>3, <2>4, <2>5 DEF RowsMove
<1> QED
  BY <1>2, <1>3

LEMMA MostMove ==
  ASSUME TypeOK, Held3, RowFollowsJob, FirstGo, Next \/ UNCHANGED vars,
         ~Deploy, ~AutoInsert, ~Delete
  PROVE  RowsMove
<1>1. \A q \in Runs : attempts[q] \in Nat
  BY AttemptsTyped
<1>2. CASE Begin \/ Build \/ Finish
  <2>1. PICK to \in Record!RunStatuses : Writes(job.run, to)
    BY <1>2, Statuses DEF Begin, Build, Finish
  <2>2. ~At("idle") /\ ~At("done") /\ UNCHANGED <<auto, attempts>>
    BY <1>2 DEF Begin, Build, Finish, At, restOfWorld
  <2> QED
    BY <2>1, <2>2, WritesMove DEF Record!RunStatuses, Record!InFlightStatuses
<1>3. CASE TakeJob
  <2>1. UNCHANGED <<status, auto>>
    BY <1>3 DEF TakeJob, restOfWorld
  <2>2. \A r \in Runs : attempts[r] <= attempts'[r]
    <3>1. attempts \in [Runs -> 0 .. 2]
      BY DEF TypeOK
    <3>2. attempts' = attempts \/ attempts' = [attempts EXCEPT ![Head(queue).run] = @ + 1]
      BY <1>3 DEF TakeJob
    <3> QED
      BY <1>1, <3>1, <3>2
  <2> QED
    BY <2>1, <2>2, Rest
<1>4. CASE UNCHANGED <<status, auto, attempts>>
  BY <1>1, <1>4, Rest
<1> QED
  BY <1>2, <1>3, <1>4 DEF Next, WorkerStep, Merge, AutoDeploy, RequestCancel, Enqueue, FindActive,
     HandoverDies, ResolveHead, Render, BringUp, StepFails, JobDone, PollCancel, WorkerDies,
     restOfWorld, rowVars, vars

(* The rows that are looked at are the newest.                             *)
LEMMA RunsAbove ==
  ASSUME NEW S \in SUBSET Runs
  PROVE  IsFiniteSet(S) /\ Cardinality(S) \in Nat
<1>1. IsFiniteSet(Runs)
  BY Bounds, FS_Interval DEF Runs
<1> QED
  BY <1>1, FS_Subset, FS_CardinalityType

LEMMA RecentIsAboveThen ==
  ASSUME NEW a \in Recent', NEW q \in Runs, q > a, Born(q)'
  PROVE  q \in Recent'
<1> DEFINE Then(r) == {w \in Runs : w > r /\ Born(w)'}
<1>1. a \in Runs /\ Cardinality(Then(a)) < Window
  BY DEF Recent
<1>2. \A w \in Runs : w > q => w > a
  BY <1>1, RunsAreNumbers
<1>3. Then(q) \subseteq Then(a)
  BY <1>2
<1>4. Cardinality(Then(q)) <= Cardinality(Then(a))
  BY <1>3, RunsAbove, FS_Subset
<1>5. Cardinality(Then(q)) \in Nat /\ Cardinality(Then(a)) \in Nat
  BY RunsAbove
<1> QED
  BY <1>1, <1>4, <1>5, Bounds DEF Recent

LEMMA NoRowsGo ==
  ASSUME \A r \in Runs : Born(r) => Born(r)', NEW a \in Recent', Born(a)
  PROVE  a \in Recent
<1> DEFINE Above == {w \in Runs : w > a /\ Born(w)}
           Then == {w \in Runs : w > a /\ Born(w)'}
<1>1. Above \subseteq Then /\ a \in Runs /\ Cardinality(Then) < Window
  BY DEF Recent
<1>2. Cardinality(Above) <= Cardinality(Then)
  BY <1>1, RunsAbove, FS_Subset
<1> QED
  BY <1>1, <1>2, RunsAbove, Bounds DEF Recent

LEMMA FirstGoKept ==
  ASSUME TypeOK, Held3, RowFollowsJob, FirstGo, Next \/ UNCHANGED vars
  PROVE  FirstGo'
<1>0. /\ \A q \in Runs : attempts[q] \in Nat
      /\ ~At("idle") => job.run \in Runs /\ status[job.run] # "unborn"
  BY AttemptsTyped DEF Held3, OnePlace, Requested
<1>1. CASE Delete
  <2>1. \A r \in Runs : ~Born(r)'
    BY <1>1, Statuses DEF Delete, Born
  <2>2. UNCHANGED job
    BY <1>1 DEF Delete
  <2> QED
    BY <1>0, <2>1, <2>2 DEF FirstGo, At
<1>2. ASSUME NEW byMachine, Insert(byMachine), UNCHANGED job
      PROVE  FirstGo'
  <2>1. PICK r \in Runs : status[r] = "unborn" /\ status' = [status EXCEPT ![r] = "queued"]
                          /\ attempts' = attempts
    BY <1>2 DEF Insert
  <2>2. status'[r] = "queued" /\ \A q \in Runs \ {r} : status'[q] = status[q]
    BY <2>1 DEF TypeOK
  <2>3. ~At("idle") => job.run # r
    BY <1>0, <2>1
  <2> QED
    BY <1>0, <1>2, <2>1, <2>2, <2>3 DEF FirstGo, At, Born, InFlight, Record!InFlight
<1>3. CASE UNCHANGED <<status, attempts, job>>
  BY <1>3 DEF FirstGo, At, Born, InFlight, Record!InFlight
<1>4. CASE TakeJob
  <2> DEFINE n == Head(queue).run
  <2>1. n \in Runs /\ attempts \in [Runs -> 0 .. 2] /\ UNCHANGED status
    BY <1>4, QueueTyped, Taken DEF TakeJob, TypeOK, Jobs
  <2>2. CASE UNCHANGED <<job, attempts>>
    BY <1>3, <2>1, <2>2
  <2>3. CASE /\ attempts' = [attempts EXCEPT ![n] = @ + 1] /\ job'.run = n
    <3> HIDE DEF n
    <3>1. attempts'[n] = attempts[n] + 1 /\ \A q \in Runs \ {n} : attempts'[q] = attempts[q]
      BY <2>1, <2>3
    <3>2. Born(n) /\ attempts'[n] <= 1 => status[n] = "queued"
      BY <1>0, <2>1, <3>1 DEF FirstGo
    <3>3. \A r \in Runs : Born(r)' /\ attempts'[r] = 0 => status'[r] = "queued"
      BY <1>0, <2>1, <3>1 DEF FirstGo, Born
    <3>4. (Born(job.run) /\ attempts[job.run] <= 1 => InFlight(job.run))'
      BY <2>1, <2>3, <3>2 DEF Born, InFlight, Record!InFlight, Record!InFlightStatuses
    <3> QED
      BY <3>3, <3>4 DEF FirstGo
  <2> QED
    BY <1>4, <2>2, <2>3 DEF TakeJob, Idle
<1>5. CASE Begin \/ Build \/ Finish
  <2>1. PICK to \in Record!RunStatuses : Writes(job.run, to)
    BY <1>5, Statuses DEF Begin, Build, Finish
  <2>2. ~At("idle") /\ ~At("done") /\ UNCHANGED attempts /\ job.run \in Runs /\ job \in JobStates
    BY <1>0, <1>5 DEF Begin, Build, Finish, At, restOfWorld, TypeOK, JobStates
  <2>3. Born(job.run) => attempts[job.run] > 0
    BY <2>2 DEF Held3, Counted
  <2>4. \A r \in Runs : Born(r)' /\ attempts'[r] = 0 => status'[r] = "queued"
    <3> SUFFICES ASSUME NEW r \in Runs, Born(r)', attempts[r] = 0
                 PROVE  status'[r] = "queued"
      BY <2>2
    <3>1. Born(r)
      BY <2>1, <2>2, WriteKeepsBorn DEF Born
    <3>2. r # job.run
      BY <2>3, <3>1
    <3>3. status'[r] = status[r]
      BY <2>1, <2>2, <3>2 DEF Writes, TypeOK
    <3> QED
      BY <3>1, <3>3 DEF FirstGo
  <2>5. job'.run = job.run
    BY <1>5, <2>2 DEF Begin, Build, Finish, Goes, Idle, JobStates
  <2>6. CASE Finish
    BY <2>4, <2>6 DEF Finish, FirstGo, At
  <2>7. CASE Begin \/ Build
    <3>1. PICK w \in {"building", "deploying"} : Writes(job.run, w)
      BY <2>7 DEF Begin, Build
    <3>2. status'[job.run] \in Record!RunStatuses => status'[job.run] \in {"building", "deploying"}
      BY <2>2, <3>1, WriteHits, Statuses
    <3>3. (Born(job.run) => InFlight(job.run))'
      BY <2>2, <2>5, <3>2 DEF Born, InFlight, Record!InFlight, Record!InFlightStatuses
    <3> QED
      BY <2>4, <3>3 DEF FirstGo
  <2> QED
    BY <1>5, <2>6, <2>7
<1>6. CASE ResolveHead \/ Render \/ BringUp \/ StepFails \/ PollCancel
  <2>1. /\ UNCHANGED <<status, attempts>> /\ ~At("idle") /\ ~At("done") /\ job \in JobStates
    BY <1>6 DEF ResolveHead, Render, BringUp, StepFails, PollCancel, restOfWorld, At, Working,
       TypeOK, JobStates
  <2>2. job'.run = job.run
    BY <1>6, <2>1 DEF ResolveHead, Render, BringUp, StepFails, PollCancel, Goes, Idle, JobStates
  <2> QED
    BY <2>1, <2>2 DEF FirstGo, Born, InFlight, Record!InFlight
<1>7. CASE JobDone \/ WorkerDies
  <2>1. job'.pc = "idle" /\ UNCHANGED <<status, attempts>>
    BY <1>7 DEF JobDone, WorkerDies, Idle, restOfWorld
  <2> QED
    BY <2>1 DEF FirstGo, At, Born
<1> QED
  BY <1>1, <1>2, <1>3, <1>4, <1>5, <1>6, <1>7
     DEF Next, WorkerStep, Deploy, AutoInsert, Merge, AutoDeploy, RequestCancel, Enqueue,
         FindActive, HandoverDies, rowVars, vars

(* While the machine stands before its insert.                             *)
LEMMA StandsStill ==
  ASSUME TypeOK, TypeOK', Held3, RowFollowsJob, Breaker, Next \/ UNCHANGED vars,
         deciding, deciding'
  PROVE  NoneInFlight' /\ BreakerHolds'
<1>0. /\ \A q \in Runs : attempts[q] \in Nat /\ attempts'[q] \in Nat
      /\ ~AutoInsert /\ Runs \subseteq Nat
  <2>1. attempts \in [Runs -> 0 .. 2] /\ attempts' \in [Runs -> 0 .. 2]
    BY DEF TypeOK
  <2> QED
    BY <2>1, RunsAreNumbers DEF AutoInsert
<1>1. CASE Delete
  <2>1. \A r \in Runs : ~Born(r)'
    BY <1>1, Statuses DEF Delete, Born
  <2>2. Recent' = {}
    BY <2>1 DEF Recent
  <2> QED
    BY <2>2 DEF NoneInFlight, BreakerHolds
<1>2. CASE Deploy
  <2>1. PICK r \in Runs : /\ status[r] = "unborn" /\ status' = [status EXCEPT ![r] = "queued"]
                          /\ auto' = [auto EXCEPT ![r] = FALSE] /\ attempts' = attempts
    BY <1>2 DEF Deploy, Insert
  <2>2. /\ status'[r] = "queued" /\ auto'[r] = FALSE
        /\ \A q \in Runs \ {r} : status'[q] = status[q] /\ auto'[q] = auto[q]
    BY <2>1 DEF TypeOK
  <2>3. \A q \in Runs : Born(q) => Born(q)'
    BY <2>2 DEF Born, Record!RunStatuses, Record!InFlightStatuses
  <2>0. \A q \in Runs \ {r} : Born(q)' => Born(q)
    BY <2>2 DEF Born
  <2>4. \A q \in Recent' : q \in Runs /\ (q # r => q \in Recent)
    <3> SUFFICES ASSUME NEW q \in Recent', q # r
                 PROVE  q \in Recent
      BY DEF Recent
    <3>1. q \in Runs /\ Born(q)'
      BY DEF Recent
    <3>2. Born(q)
      BY <2>0, <3>1
    <3> QED
      BY <2>3, <3>2, NoRowsGo
  <2>5. NoneInFlight'
    BY <2>1, <2>2, <2>4 DEF Breaker, NoneInFlight, InFlight, Record!InFlight
  <2>6. BreakerHolds'
    <3> SUFFICES ASSUME NEW a \in Recent', NEW b \in Recent', a < b,
                        \A w \in {a, b} : AutoFailed(w)' /\ attempts'[w] <= 1,
                        \A q \in Recent' : q > a => status'[q] # "healthy"
                 PROVE  FALSE
      BY DEF BreakerHolds
    <3>1. a # r /\ b # r
      BY <2>2 DEF AutoFailed
    <3>2. a \in Recent /\ b \in Recent /\ \A w \in {a, b} : AutoFailed(w) /\ attempts[w] <= 1
      BY <2>1, <2>2, <2>4, <3>1 DEF AutoFailed
    <3>3. PICK q \in Recent : q > a /\ status[q] = "healthy"
      BY <3>2 DEF Breaker, BreakerHolds
    <3>4. q # r /\ q \in Runs /\ Born(q)
      BY <2>1, <3>3 DEF Recent
    <3>5. q \in Recent'
      <4>1. Born(q)'
        BY <2>3, <3>4
      <4> QED
        BY <3>3, <3>4, <4>1, RecentIsAboveThen
    <3> QED
      BY <2>2, <3>3, <3>4, <3>5
  <2> QED
    BY <2>5, <2>6
<1>3. CASE ~Deploy /\ ~Delete
  <2>1. RowsMove
    BY <1>0, <1>3, MostMove DEF Breaker
  <2>2. Recent' = Recent
    BY <2>1 DEF RowsMove, Recent
  <2>3. NoneInFlight'
    <3> SUFFICES ASSUME NEW r \in Recent, auto[r], InFlight(r)'
                 PROVE  attempts'[r] > 1
      BY <2>1, <2>2 DEF NoneInFlight, RowsMove
    <3>1. r \in Runs /\ (InFlight(r) => attempts[r] > 1)
      BY DEF Recent, Breaker, NoneInFlight
    <3>2. attempts[r] > 1 /\ attempts[r] <= attempts'[r]
      BY <2>1, <3>1 DEF RowsMove
    <3> QED
      BY <1>0, <3>1, <3>2
  <2>4. BreakerHolds'
    <3> SUFFICES ASSUME NEW a \in Recent, NEW b \in Recent, a < b,
                        \A w \in {a, b} : AutoFailed(w)' /\ attempts'[w] <= 1,
                        \A q \in Recent : q > a => status'[q] # "healthy"
                 PROVE  FALSE
      BY <2>2 DEF BreakerHolds
    <3>1. a \in Runs /\ b \in Runs /\ Recent \subseteq Runs
      BY DEF Recent
    <3>2. \A w \in {a, b} : attempts[w] <= 1 /\ auto[w]
      BY <1>0, <2>1, <3>1 DEF RowsMove, AutoFailed
    <3>3. \A w \in {a, b} : ~InFlight(w)
      BY <1>0, <3>1, <3>2 DEF Breaker, NoneInFlight
    <3>4. \A w \in {a, b} : AutoFailed(w)
      BY <2>1, <3>1, <3>2, <3>3 DEF RowsMove, AutoFailed
    <3>5. \A q \in Recent : q > a => status[q] # "healthy"
      BY <2>1, <3>1 DEF RowsMove
    <3> QED
      BY <3>2, <3>4, <3>5 DEF Breaker, BreakerHolds
  <2> QED
    BY <2>3, <2>4
<1> QED
  BY <1>1, <1>2, <1>3

(* The moment it decides: none of the rows is in flight, and no two say    *)
(* that it should pause.                                                   *)
LEMMA Decides ==
  ASSUME TypeOK, ~deciding, deciding', Next \/ UNCHANGED vars
  PROVE  NoneInFlight' /\ BreakerHolds'
<1>1. AutoDeploy
  BY DEF Next, Deploy, Delete, Merge, AutoInsert, RequestCancel, Enqueue, FindActive,
     HandoverDies, WorkerStep, TakeJob, Begin, ResolveHead, Build, Render, BringUp, StepFails,
     Finish, JobDone, PollCancel, WorkerDies, restOfWorld, repoVars, vars
<1>2. ~Busy /\ ~ComputeAutoDeployPaused /\ UNCHANGED <<status, auto, attempts>>
  BY <1>1 DEF AutoDeploy, rowVars
<1>3. Recent' = Recent
  BY <1>2 DEF Recent, Born
<1>4. NoneInFlight'
  BY <1>2, <1>3 DEF Busy, NoneInFlight, InFlight, Record!InFlight
<1>5. BreakerHolds'
  BY <1>2, <1>3 DEF Busy, ComputeAutoDeployPaused, BreakerHolds, AutoFailed
<1> QED
  BY <1>4, <1>5

(* Whatever people request and the worker finishes between the machine's   *)
(* look at the rows and its insert, it never stands before a third         *)
(* automatic run on top of two that failed, for every window.              *)
THEOREM BreakerNeverLoops == Spec => []BreakerHolds
<1>1. Init => Breaker
  BY DEF Init, Breaker, FirstGo, NoneInFlight, BreakerHolds, At, Idle, Born, Record!RunStatuses,
     Record!InFlightStatuses, Record!SettledStatuses
<1>2. IInv /\ IInv' /\ Breaker /\ [Next]_vars => Breaker'
  <2> SUFFICES ASSUME IInv, IInv', Breaker, Next \/ UNCHANGED vars
               PROVE  Breaker'
    OBVIOUS
  <2>1. TypeOK /\ TypeOK' /\ Held3 /\ RowFollowsJob
    BY DEF IInv, Held3
  <2>2. FirstGo'
    BY <2>1, FirstGoKept DEF Breaker
  <2>3. CASE ~deciding'
    BY <2>2, <2>3 DEF Breaker, NoneInFlight, BreakerHolds
  <2>4. CASE deciding /\ deciding'
    BY <2>1, <2>2, <2>4, StandsStill DEF Breaker
  <2>5. CASE ~deciding /\ deciding'
    BY <2>1, <2>2, <2>5, Decides DEF Breaker
  <2> QED
    BY <2>3, <2>4, <2>5
<1>3. Breaker => BreakerHolds
  BY DEF Breaker
<1> QED
  BY <1>1, <1>2, <1>3, Invariance, PTL DEF Spec

=============================================================================
