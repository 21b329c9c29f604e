-------------------------- MODULE Provisioning_proofs --------------------------
(***************************************************************************)
(* For any number of environments created one after the other under one    *)
(* name, of edits, clicks and deaths: a wired database answers, and an     *)
(* environment keeps its credentials.                                      *)
(***************************************************************************)
EXTENDS Provisioning, TLAPS

----------------------------------------------------------------------------
(* The inductive invariant.                                                *)

(* What a job is of: an environment that has been created.                 *)
Numbered ==
  /\ env.id \in {0, born}
  /\ ~Exists => env = NoEnv
  /\ run.id <= born
  /\ run.id = 0 => run = NoRun
  /\ \A j \in handing : j.kind = "provision" /\ j.id \in 1 .. born
  /\ \A i \in DOMAIN queue : queue[i].id \in 1 .. born
  /\ ~At("idle") => job.todo.id \in 1 .. born

(* A delete request works on the row that is there: none other removes it. *)
Deletes == deleting.pc # "read" => Exists /\ deleting.id = env.id

(* A teardown of the environment that is there comes from the request that *)
(* is about to remove its row; and once that environment is wired, nothing *)
(* is left of the teardowns of those before it.                            *)
Comes(j) ==
  j.kind = "deprovision" =>
    /\ j.id = env.id => deleting.pc = "row"
    /\ env.wired.db # None => j.id = env.id
Teardowns ==
  /\ \A i \in DOMAIN queue : Comes(queue[i])
  /\ ~At("idle") => Comes(job.todo)

(* It is because the teardown of an environment is queued before the next  *)
(* one is created that it is through before that one is provisioned.       *)
Before(j, k) == j.kind = "provision" /\ k.kind = "deprovision" => j.id <= k.id
InOrder ==
  /\ \A i, k \in DOMAIN queue : i < k => Before(queue[i], queue[k])
  /\ ~At("idle") => \A k \in DOMAIN queue : Before(job.todo, queue[k])

(* What a provision job carries, and what it has done by now.              *)
Working == {"database", "cache", "local", "write"}
Carries ==
  /\ job.pc = "teardown" => job.todo.kind = "deprovision"
  /\ job.pc \in Working =>
       /\ job.todo.kind = "provision"
       /\ job.dbPw \in Secrets
       /\ job.at # AtHome => job.cachePw \in Secrets
  /\ job.pc \in {"cache", "local", "write"} /\ job.at.db = "data" => dbs["data"] = job.dbPw
  /\ job.pc = "write" => dbs[job.at.db] = job.dbPw

(* The wiring is whole; a job at work while there is one is of this very   *)
(* environment and has the password of its wiring; a run holds a wiring of *)
(* the environment, older perhaps, that still works.                       *)
Agreed ==
  /\ env.wired.db = None <=> env.wired.dbPw = None
  /\ env.state = "provisioned" => env.wired.db # None
  /\ job.pc \in Working /\ env.wired.db # None =>
       job.todo.id = env.id /\ job.dbPw = env.wired.dbPw
  /\ run.id # 0 /\ run.id = env.id =>
       /\ env.wired.db # None /\ run.wired.db # None /\ run.wired.dbPw = env.wired.dbPw
       /\ Lives => dbs[run.wired.db] = run.wired.dbPw

IInv ==
  /\ TypeOK /\ Numbered /\ Deletes /\ Teardowns /\ InOrder /\ Carries /\ Agreed
  /\ ItsDatabaseAnswers

----------------------------------------------------------------------------
(* Facts about the constants and the queue.                                *)

Todos == [kind : {"provision", "deprovision"}, id : 0 .. MaxEnvs, at : Placements,
          again : BOOLEAN]
Steps == [pc : {"idle", "database", "cache", "local", "write", "teardown", "done"},
          todo : Todos, at : Placements, wired : Wirings, dbPw : Passwords,
          cachePw : Passwords]

LEMMA Constants ==
  /\ MaxEnvs \in Nat /\ MaxUpdates \in Nat /\ MaxClicks \in Nat /\ MaxDeaths \in Nat
  /\ None \notin Secrets /\ None \notin {"app", "data"} /\ Moves \subseteq Placements
  /\ AtHome \in Placements /\ AtHome.db = "app" /\ AtHome.cache = "app"
  /\ \A p \in Placements : p.db \in {"app", "data"} /\ p.cache \in {"app", "data"}
<1>1. /\ MaxEnvs \in Nat /\ MaxUpdates \in Nat /\ MaxClicks \in Nat /\ MaxDeaths \in Nat
  BY BoundsAssumption
<1>2. None \notin Secrets /\ None \notin {"app", "data"} /\ Moves \subseteq Placements
  BY SecretsAssumption, MovesAssumption DEF Places
<1>3. AtHome \in Placements /\ AtHome.db = "app" /\ AtHome.cache = "app"
  BY DEF AtHome, Placements, Places
<1>4. \A p \in Placements : p.db \in {"app", "data"} /\ p.cache \in {"app", "data"}
  BY DEF Placements, Places
<1> QED
  BY <1>1, <1>2, <1>3, <1>4

LEMMA Blank ==
  /\ Unwired \in Wirings /\ Unwired.db = None /\ Unwired.dbPw = None
  /\ NoEnv \in Envs /\ NoEnv.id = 0 /\ NoEnv.state = "none" /\ NoEnv.wired = Unwired
  /\ Idle \in Steps /\ Idle.pc = "idle"
  /\ NoRun.id = 0 /\ NoRun.wired = Unwired
  /\ NoDelete.id = 0 /\ NoDelete.pc = "read"
<1>1. Unwired \in Wirings /\ Unwired.db = None /\ Unwired.dbPw = None
  BY DEF Unwired, Wirings, Passwords
<1>2. NoEnv \in Envs /\ NoEnv.id = 0 /\ NoEnv.state = "none" /\ NoEnv.wired = Unwired
  BY <1>1, Constants DEF NoEnv, Envs, States
<1>3. Provision(0) \in Todos
  BY Constants DEF Provision, Todos
<1>4. Idle \in Steps /\ Idle.pc = "idle"
  BY <1>1, <1>3, Constants DEF Idle, Steps, Passwords
<1> QED
  BY <1>1, <1>2, <1>4 DEF NoRun, NoDelete

LEMMA Asked ==
  ASSUME NEW k \in 0 .. MaxEnvs, NEW p \in Placements
  PROVE  /\ Provision(k) \in Todos /\ Provision(k).kind = "provision" /\ Provision(k).id = k
         /\ Deprovision(k, p) \in Todos /\ Deprovision(k, p).kind = "deprovision"
         /\ Deprovision(k, p).id = k
BY Constants DEF Provision, Deprovision, Todos

LEMMA Appended ==
  ASSUME NEW q \in Seq(Todos), NEW j \in Todos
  PROVE  /\ Append(q, j) \in Seq(Todos)
         /\ DOMAIN q = 1 .. Len(q) /\ Len(q) \in Nat
         /\ DOMAIN Append(q, j) = 1 .. Len(q) + 1
         /\ \A i \in 1 .. Len(q) : Append(q, j)[i] = q[i]
         /\ Append(q, j)[Len(q) + 1] = j
OBVIOUS

LEMMA Prepended ==
  ASSUME NEW q \in Seq(Todos), NEW j \in Todos
  PROVE  /\ <<j>> \o q \in Seq(Todos)
         /\ DOMAIN q = 1 .. Len(q) /\ Len(q) \in Nat
         /\ DOMAIN (<<j>> \o q) = 1 .. Len(q) + 1
         /\ (<<j>> \o q)[1] = j
         /\ \A i \in 2 .. Len(q) + 1 : (<<j>> \o q)[i] = q[i - 1]
OBVIOUS

LEMMA Taken ==
  ASSUME NEW q \in Seq(Todos), q # <<>>
  PROVE  /\ Head(q) = q[1] /\ q[1] \in Todos /\ 1 \in DOMAIN q
         /\ Tail(q) \in Seq(Todos)
         /\ DOMAIN q = 1 .. Len(q) /\ Len(q) \in Nat /\ Len(q) > 0
         /\ DOMAIN Tail(q) = 1 .. Len(q) - 1
         /\ \A i \in 1 .. Len(q) - 1 : Tail(q)[i] = q[i + 1]
OBVIOUS

LEMMA Waiting ==
  ASSUME NEW q \in Seq(Todos)
  PROVE  /\ DOMAIN q = 1 .. Len(q) /\ Len(q) \in Nat
         /\ \A i \in DOMAIN q : q[i] \in Todos
OBVIOUS

(* The variables, each with its type.                                      *)
Typed ==
  /\ env.id \in 0 .. MaxEnvs /\ env.state \in States /\ env.at \in Placements
  /\ env.wired \in Wirings
  /\ born \in 0 .. MaxEnvs
  /\ deleting.id \in 0 .. MaxEnvs /\ deleting.pc \in {"read", "enqueue", "row"}
  /\ deleting.at \in Placements
  /\ dbs \in [{"app", "data"} -> Passwords]
  /\ handing \subseteq Todos /\ queue \in Seq(Todos)
  /\ job \in Steps /\ job.todo \in Todos
  /\ run.id \in 0 .. MaxEnvs /\ run.wired \in Wirings

LEMMA WhatIsTyped == TypeOK => Typed
<1> SUFFICES ASSUME TypeOK PROVE Typed
  OBVIOUS
<1>1. handing \subseteq Todos /\ queue \in Seq(Todos) /\ job \in Steps
  BY DEF TypeOK, Jobs, Todos, Steps
<1>2. dbs \in [{"app", "data"} -> Passwords]
  BY DEF TypeOK, Places
<1>3. /\ env.id \in 0 .. MaxEnvs /\ env.state \in States /\ env.at \in Placements
      /\ env.wired \in Wirings /\ born \in 0 .. MaxEnvs
  BY DEF TypeOK, Envs
<1>4. /\ deleting.id \in 0 .. MaxEnvs /\ deleting.pc \in {"read", "enqueue", "row"}
      /\ deleting.at \in Placements /\ run.id \in 0 .. MaxEnvs /\ run.wired \in Wirings
  BY DEF TypeOK
<1> QED
  BY <1>1, <1>2, <1>3, <1>4 DEF Typed, Steps

(* An environment keeps the database password that it has been wired with. *)
Kept == env'.id = env.id /\ env.wired.dbPw # None => env'.wired.dbPw = env.wired.dbPw

LEMMA Starts == Init => IInv
<1> SUFFICES ASSUME Init PROVE IInv
  OBVIOUS
<1> USE Constants, Blank
<1>1. TypeOK
  <2>1. job \in Steps /\ queue = <<>> /\ handing = {}
    BY DEF Init
  <2>2. deleting \in [id : 0 .. MaxEnvs, pc : {"read", "enqueue", "row"}, teardown : BOOLEAN,
                      at : Placements]
    BY DEF Init, NoDelete
  <2>3. run \in [id : 0 .. MaxEnvs, wired : Wirings]
    BY DEF Init, NoRun
  <2>4. used \in [updates : 0 .. MaxUpdates, clicks : 0 .. MaxClicks]
    BY DEF Init
  <2>5. dbs \in [Places -> Passwords] /\ caches \in [Places -> Secrets \union {"none", "open"}]
    BY DEF Init, Passwords
  <2> QED
    BY <2>1, <2>2, <2>3, <2>4, <2>5 DEF Init, TypeOK, Steps, Todos, Jobs
<1>2. Numbered /\ Deletes /\ Teardowns /\ InOrder
  BY DEF Init, Numbered, Deletes, Teardowns, InOrder, At, Exists
<1>3. Carries /\ Agreed /\ ItsDatabaseAnswers
  BY DEF Init, Carries, Working, Agreed, ItsDatabaseAnswers, Lives, Exists
<1> QED
  BY <1>1, <1>2, <1>3 DEF IInv

----------------------------------------------------------------------------
(* The api.                                                                *)

LEMMA CreateKeeps ==
  ASSUME IInv, Create
  PROVE  IInv' /\ Kept
<1> USE Constants, Blank DEF Create, plane, bounds
<1>0. Typed /\ env = NoEnv /\ born + 1 \in 1 .. MaxEnvs
  BY WhatIsTyped DEF IInv, Numbered, Typed
<1>1. PICK can \in BOOLEAN :
        /\ env' = [NoEnv EXCEPT !.id = born + 1,
                                !.state = IF can THEN "provisioning" ELSE "unprovisioned"]
        /\ handing' = IF can THEN handing \union {Provision(born + 1)} ELSE handing
  OBVIOUS
<1>2. /\ env' \in Envs /\ env'.id = born + 1 /\ env'.wired = Unwired
      /\ env'.state # "provisioned" /\ env' # NoEnv
  <2> DEFINE state == IF can THEN "provisioning" ELSE "unprovisioned"
  <2>1. state \in {"provisioning", "unprovisioned"}
    OBVIOUS
  <2>2. env' = [id |-> born + 1, state |-> state, at |-> AtHome, wired |-> Unwired]
    BY <1>1 DEF NoEnv
  <2> HIDE DEF state
  <2>3. env' \in Envs
    BY <1>0, <2>1, <2>2 DEF Envs, States
  <2> QED
    BY <1>0, <2>1, <2>2, <2>3
<1>3. TypeOK'
  <2>1. Provision(born + 1) \in Jobs
    <3>1. born + 1 \in 0 .. MaxEnvs
      BY <1>0
    <3> QED
      BY <3>1, Asked DEF Jobs, Todos
  <2> QED
    BY <1>0, <1>1, <1>2, <2>1 DEF IInv, TypeOK
<1>4. Numbered' /\ Deletes'
  BY <1>0, <1>1, <1>2, Asked DEF IInv, Typed, Numbered, Deletes, At, Exists
<1>5. Teardowns' /\ InOrder'
  BY <1>0, <1>2 DEF IInv, Typed, Numbered, Teardowns, Comes, InOrder, Before, At
<1>6. Carries' /\ Agreed' /\ ItsDatabaseAnswers' /\ Kept
  BY <1>0, <1>2 DEF IInv, Typed, Numbered, Carries, Agreed, Working, ItsDatabaseAnswers,
     Lives, Exists, Kept
<1> QED
  BY <1>3, <1>4, <1>5, <1>6 DEF IInv

(* Of the row only the state or the placement is written.                  *)
LEMMA RowEdited ==
  ASSUME IInv, env' \in Envs, env'.id = env.id, env'.wired = env.wired,
         env'.state = "provisioned" => env.state = "provisioned", Exists,
         UNCHANGED <<born, deleting, dbs, queue, job, run>>,
         \A j \in handing' : j \in handing \/ j = Provision(env.id)
  PROVE  /\ Numbered' /\ Deletes' /\ Teardowns' /\ InOrder' /\ Carries' /\ Agreed'
         /\ ItsDatabaseAnswers' /\ Kept
<1> USE Constants, Blank
<1>0. Typed
  BY WhatIsTyped DEF IInv
<1>1. Numbered' /\ Deletes'
  BY <1>0, Asked DEF IInv, Typed, Numbered, Deletes, At, Exists
<1>2. Teardowns' /\ InOrder'
  BY <1>0 DEF IInv, Typed, Teardowns, Comes, InOrder, Before, At
<1>3. Carries' /\ Agreed' /\ ItsDatabaseAnswers' /\ Kept
  BY <1>0 DEF IInv, Typed, Carries, Agreed, Working, ItsDatabaseAnswers, Lives, Exists, Kept
<1> QED
  BY <1>1, <1>2, <1>3

LEMMA ProvisionAgainKeeps ==
  ASSUME IInv, ProvisionAgain
  PROVE  IInv' /\ Kept
<1> USE Constants, Blank DEF ProvisionAgain, plane
<1>0. Typed /\ Provision(env.id) \in Jobs
  BY WhatIsTyped, Asked DEF IInv, Typed, Jobs, Todos
<1>1. env' \in Envs /\ env'.id = env.id /\ env'.wired = env.wired /\ env'.state = "provisioning"
  BY <1>0 DEF IInv, TypeOK, Envs, States
<1>2. used' \in [updates : 0 .. MaxUpdates, clicks : 0 .. MaxClicks]
  BY DEF IInv, TypeOK
<1>3. TypeOK'
  BY <1>0, <1>1, <1>2 DEF IInv, TypeOK
<1> QED
  BY <1>1, <1>3, RowEdited DEF IInv

LEMMA UpdateKeeps ==
  ASSUME IInv, Update
  PROVE  IInv' /\ Kept
<1> USE Constants, Blank DEF Update, plane, jobs
<1>0. PICK p \in Moves \union {AtHome} : env' = [env EXCEPT !.at = p]
  OBVIOUS
<1>1. env' \in Envs /\ env'.id = env.id /\ env'.wired = env.wired /\ env'.state = env.state
  BY <1>0 DEF IInv, TypeOK, Envs
<1>2. used' \in [updates : 0 .. MaxUpdates, clicks : 0 .. MaxClicks]
  BY DEF IInv, TypeOK
<1>3. TypeOK'
  BY <1>1, <1>2 DEF IInv, TypeOK
<1> QED
  BY <1>1, <1>3, RowEdited DEF IInv

LEMMA ReadDeletedKeeps ==
  ASSUME IInv, ReadDeleted
  PROVE  IInv' /\ Kept
<1> USE Constants, Blank DEF ReadDeleted, plane, jobs, bounds
<1>0. Typed
  BY WhatIsTyped DEF IInv
<1>1. /\ deleting' \in [id : 0 .. MaxEnvs, pc : {"read", "enqueue", "row"}, teardown : BOOLEAN,
                        at : Placements]
      /\ deleting'.id = env.id /\ deleting'.pc = "enqueue"
  BY <1>0 DEF Typed
<1>2. TypeOK'
  BY <1>1 DEF IInv, TypeOK
<1>3. Numbered' /\ Deletes'
  BY <1>0, <1>1 DEF IInv, Typed, Numbered, Deletes, At, Exists
<1>4. Teardowns' /\ InOrder'
  BY <1>0, <1>1 DEF IInv, Typed, Teardowns, Comes, InOrder, Before, At
<1>5. Carries' /\ Agreed' /\ ItsDatabaseAnswers' /\ Kept
  BY <1>0, <1>1 DEF IInv, Typed, Carries, Agreed, Working, ItsDatabaseAnswers, Lives, Exists, Kept
<1> QED
  BY <1>2, <1>3, <1>4, <1>5 DEF IInv

LEMMA EnqueueTeardownKeeps ==
  ASSUME IInv, EnqueueTeardown
  PROVE  IInv' /\ Kept
<1> USE Constants, Blank DEF EnqueueTeardown, plane, bounds
<1> DEFINE j == Deprovision(deleting.id, deleting.at)
<1>0. /\ Typed /\ j \in Todos /\ j.id = env.id /\ j.kind = "deprovision" /\ Exists
      /\ env.id = born /\ born \in 1 .. MaxEnvs
  BY WhatIsTyped, Asked DEF IInv, Typed, Numbered, Deletes, Exists
<1> HIDE DEF j
<1>1. /\ deleting' \in [id : 0 .. MaxEnvs, pc : {"read", "enqueue", "row"}, teardown : BOOLEAN,
                        at : Placements]
      /\ deleting'.id = deleting.id /\ deleting'.pc = "row"
  BY <1>0 DEF Typed, NoDelete
<1>2. CASE queue' = Append(queue, j)
  <2>1. /\ queue' \in Seq(Todos) /\ DOMAIN queue = 1 .. Len(queue) /\ Len(queue) \in Nat
        /\ DOMAIN queue' = 1 .. Len(queue) + 1
        /\ \A i \in 1 .. Len(queue) : queue'[i] = queue[i]
        /\ queue'[Len(queue) + 1] = j
    BY <1>0, <1>2, Appended DEF Typed
  <2>2. TypeOK'
    BY <1>1, <2>1 DEF IInv, TypeOK, Jobs, Todos
  <2>3. Numbered' /\ Deletes'
    BY <1>0, <1>1, <2>1 DEF IInv, Numbered, Deletes, At, Exists
  <2>4. Teardowns'
    BY <1>0, <1>1, <2>1 DEF IInv, Teardowns, Comes, At
  <2>5. InOrder'
    <3>1. ASSUME NEW k \in 1 .. Len(queue) PROVE Before(queue[k], j)
      BY <1>0, <2>1 DEF Before, IInv, Numbered
    <3>2. ~At("idle") => Before(job.todo, j)
      BY <1>0 DEF Before, IInv, Numbered
    <3>3. ASSUME NEW i \in DOMAIN queue', NEW k \in DOMAIN queue', i < k
          PROVE  Before(queue'[i], queue'[k])
      BY <2>1, <3>1, <3>3 DEF IInv, InOrder
    <3> QED
      BY <2>1, <3>2, <3>3 DEF IInv, InOrder, At
  <2> QED
    BY <1>0, <1>1, <2>2, <2>3, <2>4, <2>5
    DEF IInv, Typed, Carries, Agreed, Working, ItsDatabaseAnswers, Lives, Exists, Kept
<1>3. CASE queue' = queue
  <2>1. TypeOK'
    BY <1>1, <1>3 DEF IInv, TypeOK
  <2> QED
    BY <1>0, <1>1, <1>3, <2>1
    DEF IInv, Typed, Numbered, Deletes, Teardowns, Comes, InOrder, Before, Carries, Agreed,
        Working, ItsDatabaseAnswers, Lives, Exists, Kept, At
<1> QED
  BY <1>2, <1>3 DEF j

LEMMA DeleteRowKeeps ==
  ASSUME IInv, DeleteRow
  PROVE  IInv' /\ Kept
<1> USE Constants, Blank DEF DeleteRow, plane, jobs, bounds
<1>0. Typed /\ Exists
  BY WhatIsTyped DEF IInv, Deletes
<1>1. NoDelete \in [id : 0 .. MaxEnvs, pc : {"read", "enqueue", "row"}, teardown : BOOLEAN,
                    at : Placements]
  BY DEF NoDelete
<1>2. TypeOK'
  BY <1>1 DEF IInv, TypeOK
<1>3. Numbered' /\ Deletes'
  BY <1>0 DEF IInv, Typed, Numbered, Deletes, At, Exists
<1>4. Teardowns' /\ InOrder'
  BY <1>0 DEF IInv, Numbered, Teardowns, Comes, InOrder, Before, At
<1>5. Carries' /\ Agreed' /\ ItsDatabaseAnswers' /\ Kept
  BY <1>0 DEF IInv, Typed, Carries, Agreed, Working, ItsDatabaseAnswers, Lives, Exists, Kept
<1> QED
  BY <1>2, <1>3, <1>4, <1>5 DEF IInv

LEMMA EnqueueKeeps ==
  ASSUME IInv, Enqueue
  PROVE  IInv' /\ Kept
<1> USE Constants, Blank DEF plane, bounds
<1>0. PICK j \in handing :
        /\ handing' = handing \ {j}
        /\ queue' = IF Collapses(j) THEN queue ELSE Append(queue, j)
        /\ missed' = IF j.id \in kept \/ (At("done") /\ Works("provision", j.id))
                     THEN missed \union {j.id} ELSE missed
        /\ UNCHANGED <<env, born, deleting, plane, kept, job, run, bounds>>
  BY DEF Enqueue
<1>1. Typed /\ j \in Todos /\ j.kind = "provision" /\ j.id \in 1 .. born
  BY WhatIsTyped DEF IInv, Typed, Numbered
<1>2. /\ missed' \subseteq 1 .. MaxEnvs /\ handing' \subseteq handing
      /\ UNCHANGED <<env, born, deleting, dbs, caches, kept, job, run, used, deaths>>
  <2>1. missed \subseteq 1 .. MaxEnvs /\ j.id \in 1 .. MaxEnvs
    BY <1>1 DEF IInv, TypeOK, Typed
  <2>2. missed' = missed \/ missed' = missed \union {j.id}
    BY <1>0
  <2> QED
    BY <1>0, <2>1, <2>2
<1>3. CASE queue' = Append(queue, j)
  <2>1. /\ queue' \in Seq(Todos) /\ DOMAIN queue = 1 .. Len(queue) /\ Len(queue) \in Nat
        /\ DOMAIN queue' = 1 .. Len(queue) + 1
        /\ \A i \in 1 .. Len(queue) : queue'[i] = queue[i]
        /\ queue'[Len(queue) + 1] = j
    BY <1>1, <1>3, Appended DEF Typed
  <2>2. TypeOK'
    BY <1>2, <2>1 DEF IInv, TypeOK, Jobs, Todos
  <2>3. Numbered' /\ Deletes'
    BY <1>1, <1>2, <2>1 DEF IInv, Numbered, Deletes, At, Exists
  <2>4. Teardowns' /\ InOrder'
    BY <1>1, <1>2, <2>1 DEF IInv, Teardowns, Comes, InOrder, Before, At
  <2> QED
    BY <1>2, <2>2, <2>3, <2>4
    DEF IInv, Carries, Agreed, Working, ItsDatabaseAnswers, Lives, Exists, Kept
<1>4. CASE queue' = queue
  <2>1. TypeOK'
    BY <1>2, <1>4 DEF IInv, TypeOK
  <2> QED
    BY <1>2, <1>4, <2>1
    DEF IInv, Numbered, Deletes, Teardowns, Comes, InOrder, Before, Carries, Agreed,
        Working, ItsDatabaseAnswers, Lives, Exists, Kept, At
<1> QED
  BY <1>0, <1>3, <1>4

----------------------------------------------------------------------------
(* The worker.                                                             *)

(* A job moves on: what it carries stays, but for where it stands.         *)
LEMMA StepTyped ==
  ASSUME IInv, NEW pc \in {"database", "cache", "local", "write", "teardown", "done"}, Goes(pc)
  PROVE  /\ job' \in Steps /\ job'.pc = pc /\ job'.todo = job.todo /\ job'.at = job.at
         /\ job'.wired = job.wired /\ job'.dbPw = job.dbPw /\ job'.cachePw = job.cachePw
BY WhatIsTyped DEF IInv, Typed, Steps, Goes

(* The job taken is the one the queue was about to hand out.               *)
LEMMA QueueShrinks ==
  ASSUME IInv, At("idle"), queue # <<>>, queue' = Tail(queue)
  PROVE  /\ queue' \in Seq(Todos) /\ Head(queue) \in Todos /\ Head(queue).id \in 1 .. born
         /\ Comes(Head(queue))
         /\ \A i \in DOMAIN queue' :
              /\ queue'[i].id \in 1 .. born /\ Comes(queue'[i])
              /\ Before(Head(queue), queue'[i])
              /\ \A k \in DOMAIN queue' : i < k => Before(queue'[i], queue'[k])
<1>1. /\ queue \in Seq(Todos) /\ Head(queue) = queue[1] /\ queue[1] \in Todos /\ 1 \in DOMAIN queue
      /\ queue' \in Seq(Todos) /\ DOMAIN queue = 1 .. Len(queue) /\ Len(queue) \in Nat
      /\ DOMAIN queue' = 1 .. Len(queue) - 1
      /\ \A i \in 1 .. Len(queue) - 1 : queue'[i] = queue[i + 1]
  BY WhatIsTyped, Taken DEF IInv, Typed
<1>2. \A i \in DOMAIN queue' : i + 1 \in DOMAIN queue /\ queue'[i] = queue[i + 1] /\ 1 < i + 1
  BY <1>1
<1>3. Head(queue).id \in 1 .. born /\ Comes(Head(queue))
  BY <1>1 DEF IInv, Numbered, Teardowns
<1>4. \A i \in DOMAIN queue' : queue'[i].id \in 1 .. born /\ Comes(queue'[i])
  BY <1>2 DEF IInv, Numbered, Teardowns
<1>5. \A i \in DOMAIN queue' : Before(Head(queue), queue'[i])
  BY <1>1, <1>2 DEF IInv, InOrder
<1>6. \A i, k \in DOMAIN queue' : i < k => Before(queue'[i], queue'[k])
  <2> SUFFICES ASSUME NEW i \in DOMAIN queue', NEW k \in DOMAIN queue', i < k
               PROVE  Before(queue'[i], queue'[k])
    OBVIOUS
  <2>1. i + 1 < k + 1
    BY <1>1
  <2> QED
    BY <1>2, <2>1 DEF IInv, InOrder
<1> QED
  BY <1>1, <1>3, <1>4, <1>5, <1>6

LEMMA TakeProvisionKeeps ==
  ASSUME IInv, TakeProvision
  PROVE  IInv' /\ Kept
<1> USE Constants, Blank
<1>0. /\ At("idle") /\ queue # <<>> /\ Head(queue).kind = "provision" /\ queue' = Tail(queue)
      /\ UNCHANGED <<env, dbs, caches, born, deleting, missed, handing, kept, run, used, deaths>>
  BY DEF TakeProvision, plane, world, bounds
<1>1. Typed
  BY WhatIsTyped DEF IInv
<1>2. /\ queue' \in Seq(Todos) /\ Head(queue) \in Todos /\ Head(queue).id \in 1 .. born
      /\ Comes(Head(queue))
      /\ \A i \in DOMAIN queue' :
           /\ queue'[i].id \in 1 .. born /\ Comes(queue'[i])
           /\ Before(Head(queue), queue'[i])
           /\ \A k \in DOMAIN queue' : i < k => Before(queue'[i], queue'[k])
  BY <1>0, QueueShrinks
<1>3. CASE env.id # Head(queue).id
  <2>1. job' = job
    BY <1>3 DEF TakeProvision
  <2>2. TypeOK'
    BY <1>0, <1>2, <2>1 DEF IInv, TypeOK, Jobs, Todos
  <2>3. Numbered' /\ Deletes' /\ Teardowns' /\ InOrder'
    BY <1>0, <1>2, <2>1 DEF IInv, Numbered, Deletes, Teardowns, Comes, InOrder, Before, At, Exists
  <2> QED
    BY <1>0, <2>1, <2>2, <2>3
    DEF IInv, Carries, Agreed, Working, ItsDatabaseAnswers, Lives, Exists, Kept
<1>4. CASE env.id = Head(queue).id
  <2>1. PICK dbPw \in Reuse(env.wired.dbPw),
             cachePw \in IF env.at = AtHome THEN {env.wired.cachePw} ELSE Reuse(env.wired.cachePw) :
          job' = [pc |-> "database", todo |-> Head(queue), at |-> env.at, wired |-> env.wired,
                  dbPw |-> dbPw, cachePw |-> cachePw]
    BY <1>4 DEF TakeProvision
  <2>2. /\ env.wired.dbPw \in Passwords /\ env.wired.cachePw \in Passwords
        /\ env.wired \in Wirings /\ env.at \in Placements
    BY <1>1 DEF Typed, Wirings
  <2>3. /\ dbPw \in Secrets /\ cachePw \in Passwords
        /\ env.at # AtHome => cachePw \in Secrets
        /\ env.wired.dbPw # None => dbPw = env.wired.dbPw
    BY <2>2 DEF Reuse, Passwords
  <2>4. /\ job' \in Steps /\ job'.pc = "database" /\ job'.todo = Head(queue) /\ job'.at = env.at
        /\ job'.dbPw = dbPw /\ job'.cachePw = cachePw
    <3>1. dbPw \in Passwords /\ Head(queue) \in Todos
      BY <1>2, <2>3 DEF Passwords
    <3> QED
      BY <2>1, <2>2, <2>3, <3>1 DEF Steps
  <2>5. TypeOK'
    BY <1>0, <1>2, <2>4 DEF IInv, TypeOK, Jobs, Todos, Steps
  <2>6. Numbered' /\ Deletes' /\ Teardowns' /\ InOrder'
    BY <1>0, <1>2, <2>4 DEF IInv, Numbered, Deletes, Teardowns, Comes, InOrder, Before, At, Exists
  <2>7. Carries'
    BY <1>0, <2>3, <2>4 DEF Carries, Working
  <2>8. Agreed'
    BY <1>0, <1>4, <2>3, <2>4 DEF IInv, Agreed, Working, Lives, Exists
  <2>9. ItsDatabaseAnswers' /\ Kept
    BY <1>0 DEF IInv, ItsDatabaseAnswers, Lives, Exists, Kept
  <2> QED
    BY <2>5, <2>6, <2>7, <2>8, <2>9 DEF IInv
<1> QED
  BY <1>3, <1>4

(* A step of the worker between taking a job and its end: the queue waits, *)
(* and the job is the same.                                                *)
LEMMA QueueWaits ==
  ASSUME IInv, ~At("idle"), job'.pc # "idle", job'.todo = job.todo,
         env'.id = env.id, env'.wired.db # None => env.wired.db # None \/ job.todo.id = env.id,
         job.todo.kind = "provision" \/ env'.wired.db = env.wired.db,
         env.id = 0 => env' = env,
         UNCHANGED <<queue, born, deleting, handing, run>>
  PROVE  Numbered' /\ Deletes' /\ Teardowns' /\ InOrder'
<1> USE Constants, Blank
<1>0. Typed
  BY WhatIsTyped DEF IInv
<1>1. Numbered' /\ Deletes'
  BY DEF IInv, Numbered, Deletes, At, Exists
<1>2. InOrder'
  BY DEF IInv, InOrder, Before, At
<1>3. Teardowns'
  <2>1. CASE env'.wired.db # None => env.wired.db # None
    BY <2>1 DEF IInv, Teardowns, Comes, At
  <2>2. CASE env'.wired.db # None /\ env.wired.db = None
    <3>1. job.todo.id = env.id /\ job.todo.kind = "provision" /\ env.id \in 1 .. born
          /\ env.id = born
      BY <2>2 DEF IInv, Numbered
    <3>2. \A i \in DOMAIN queue : queue[i].kind = "deprovision" => queue[i].id = env.id
      BY <3>1 DEF IInv, InOrder, Before, Numbered
    <3> QED
      BY <3>1, <3>2 DEF IInv, Teardowns, Comes, At
  <2> QED
    BY <2>1, <2>2
<1> QED
  BY <1>1, <1>2, <1>3

(* The job puts a database at p, with the password it carries.             *)
LEMMA DatabaseMade ==
  ASSUME IInv, job.pc \in Working, NEW p \in {"app", "data"},
         dbs' = dbs \/ dbs' = [dbs EXCEPT ![p] = job.dbPw],
         UNCHANGED <<env, deleting, run>>
  PROVE  /\ ItsDatabaseAnswers' /\ Kept
         /\ run.id # 0 /\ run.id = env.id /\ Lives => dbs'[run.wired.db] = run.wired.dbPw
<1> USE Constants, Blank
<1>0. Typed
  BY WhatIsTyped DEF IInv
<1>1. /\ env.wired.db \in {"app", "data"} \union {None}
      /\ run.wired.db \in {"app", "data"} \union {None}
  BY <1>0 DEF Typed, Wirings, Places
<1> QED
  BY <1>0, <1>1 DEF IInv, Typed, Agreed, ItsDatabaseAnswers, Lives, Exists, Kept

LEMMA ProvisionDatabaseKeeps ==
  ASSUME IInv, ProvisionDatabase
  PROVE  IInv' /\ Kept
<1> USE Constants, Blank DEF ProvisionDatabase, world, bounds
<1>0. Typed /\ job.pc \in Working
  BY WhatIsTyped DEF IInv, At, Working
<1>1. /\ job' \in Steps /\ job'.pc = "cache" /\ job'.todo = job.todo /\ job'.at = job.at
      /\ job'.wired = job.wired /\ job'.dbPw = job.dbPw /\ job'.cachePw = job.cachePw
  BY StepTyped
<1>2. job.dbPw \in Passwords /\ job.at \in Placements
  BY <1>0 DEF Typed, Steps
<1>3. TypeOK'
  BY <1>1, <1>2 DEF IInv, TypeOK, Places, Steps, Todos, Jobs
<1>4. Numbered' /\ Deletes' /\ Teardowns' /\ InOrder'
  BY <1>0, <1>1, QueueWaits DEF At
<1>5. /\ ItsDatabaseAnswers' /\ Kept
      /\ run.id # 0 /\ run.id = env.id /\ Lives => dbs'[run.wired.db] = run.wired.dbPw
  BY <1>0, DatabaseMade DEF Target
<1>6. Carries'
  BY <1>0, <1>1, <1>2 DEF IInv, Typed, Carries, Working, Target, At
<1>7. Agreed'
  BY <1>0, <1>1, <1>5 DEF IInv, Agreed, Working, Lives, Exists
<1> QED
  BY <1>3, <1>4, <1>5, <1>6, <1>7 DEF IInv

LEMMA ProvisionCacheKeeps ==
  ASSUME IInv, ProvisionCache
  PROVE  IInv' /\ Kept
<1> USE Constants, Blank DEF ProvisionCache, world, bounds
<1>0. Typed /\ job.pc \in Working
  BY WhatIsTyped DEF IInv, At, Working
<1>1. /\ job' \in Steps /\ job'.pc = "local" /\ job'.todo = job.todo /\ job'.at = job.at
      /\ job'.wired = job.wired /\ job'.dbPw = job.dbPw /\ job'.cachePw = job.cachePw
  BY StepTyped
<1>2. caches' \in [Places -> Secrets \union {"none", "open"}]
  BY <1>0 DEF IInv, TypeOK, Carries, Target, Places
<1>3. TypeOK'
  BY <1>1, <1>2 DEF IInv, TypeOK, Steps, Todos, Jobs
<1>4. Numbered' /\ Deletes' /\ Teardowns' /\ InOrder'
  BY <1>0, <1>1, QueueWaits DEF At
<1>5. Carries' /\ Agreed' /\ ItsDatabaseAnswers' /\ Kept
  BY <1>0, <1>1 DEF IInv, Carries, Agreed, Working, ItsDatabaseAnswers, Lives, Exists, Kept, At
<1> QED
  BY <1>3, <1>4, <1>5 DEF IInv

LEMMA ProvisionLocalKeeps ==
  ASSUME IInv, ProvisionLocal
  PROVE  IInv' /\ Kept
<1> USE Constants, Blank DEF ProvisionLocal, world, bounds
<1>0. Typed /\ job.pc \in Working
  BY WhatIsTyped DEF IInv, At, Working
<1>1. /\ job' \in Steps /\ job'.pc = "write" /\ job'.todo = job.todo /\ job'.at = job.at
      /\ job'.wired = job.wired /\ job'.dbPw = job.dbPw /\ job'.cachePw = job.cachePw
  BY StepTyped
<1>2. job.dbPw \in Passwords /\ job.at \in Placements
  BY <1>0 DEF Typed, Steps
<1>3. caches' \in [Places -> Secrets \union {"none", "open"}]
  BY <1>0 DEF IInv, TypeOK, Carries, Target, Places, LocalRedis
<1>4. dbs' \in [Places -> Passwords]
  BY <1>2 DEF IInv, TypeOK, Places
<1>5. TypeOK'
  BY <1>1, <1>3, <1>4 DEF IInv, TypeOK, Steps, Todos, Jobs
<1>6. Numbered' /\ Deletes' /\ Teardowns' /\ InOrder'
  BY <1>0, <1>1, QueueWaits DEF At
<1>7. /\ ItsDatabaseAnswers' /\ Kept
      /\ run.id # 0 /\ run.id = env.id /\ Lives => dbs'[run.wired.db] = run.wired.dbPw
  BY <1>0, DatabaseMade DEF Target
<1>8. Carries'
  BY <1>0, <1>1, <1>2 DEF IInv, Typed, Carries, Working, Target, At
<1>9. Agreed'
  BY <1>0, <1>1, <1>7 DEF IInv, Agreed, Working, Lives, Exists
<1> QED
  BY <1>5, <1>6, <1>7, <1>8, <1>9 DEF IInv

LEMMA WriteWiringKeeps ==
  ASSUME IInv, WriteWiring
  PROVE  IInv' /\ Kept
<1> USE Constants, Blank DEF WriteWiring, world, bounds, plane
<1>0. Typed /\ job.pc \in Working /\ job.todo.kind = "provision"
  BY WhatIsTyped DEF IInv, At, Working, Carries
<1>1. /\ job' \in Steps /\ job'.pc = "done" /\ job'.todo = job.todo
  BY StepTyped
<1>2. /\ job.dbPw \in Secrets /\ job.at \in Placements /\ job.wired \in Wirings
      /\ job.cachePw \in Passwords /\ dbs[job.at.db] = job.dbPw
  BY <1>0 DEF IInv, Typed, Steps, Carries, At
<1>3. /\ Wired \in Wirings /\ Wired.db = job.at.db /\ Wired.dbPw = job.dbPw
  BY <1>2 DEF Wired, Wirings, Target, Passwords, Places
<1>4. CASE env.id = job.todo.id
  <2>1. /\ env' \in Envs /\ env'.id = env.id /\ env'.wired = Wired /\ env'.state = "provisioned"
    BY <1>3, <1>4 DEF IInv, TypeOK, Envs, States
  <2>2. TypeOK'
    BY <1>1, <2>1 DEF IInv, TypeOK, Steps, Todos, Jobs
  <2>3. env.id # 0
    BY <1>0, <1>4 DEF IInv, Numbered, At, Working
  <2>4. Numbered' /\ Deletes' /\ Teardowns' /\ InOrder'
    BY <1>0, <1>1, <1>4, <2>1, <2>3, QueueWaits DEF At
  <2>5. Carries' /\ Kept
    BY <1>0, <1>1, <1>2, <1>3, <2>1 DEF IInv, Carries, Agreed, Working, Kept
  <2>6. job.at.db # None /\ job.dbPw # None
    BY <1>2
  <2>7. Agreed'
    BY <1>0, <1>1, <1>3, <2>1, <2>6 DEF IInv, Agreed, Working, Lives, Exists
  <2>8. ItsDatabaseAnswers'
    BY <1>2, <1>3, <2>1 DEF ItsDatabaseAnswers, Lives, Exists
  <2> QED
    BY <2>2, <2>4, <2>5, <2>7, <2>8 DEF IInv
<1>5. CASE env.id # job.todo.id
  <2>1. TypeOK'
    BY <1>1, <1>5 DEF IInv, TypeOK, Steps, Todos, Jobs
  <2>2. Numbered' /\ Deletes' /\ Teardowns' /\ InOrder'
    BY <1>0, <1>1, <1>5, QueueWaits DEF At
  <2> QED
    BY <1>1, <1>5, <2>1, <2>2
    DEF IInv, Carries, Agreed, Working, ItsDatabaseAnswers, Lives, Exists, Kept
<1> QED
  BY <1>4, <1>5

LEMMA FailsKeeps ==
  ASSUME IInv, Fails
  PROVE  IInv' /\ Kept
<1> USE Constants, Blank DEF Fails, world, bounds, plane
<1>0. Typed /\ job.pc \in Working /\ job.todo.kind = "provision"
  BY WhatIsTyped DEF IInv, Working, Carries
<1>1. /\ job' \in Steps /\ job'.pc = "done" /\ job'.todo = job.todo
  BY StepTyped
<1>2. /\ env' \in Envs /\ env'.id = env.id /\ env'.wired = env.wired
      /\ env'.state = "provisioned" => env.state = "provisioned"
  BY DEF IInv, TypeOK, Envs, States
<1>3. TypeOK'
  BY <1>1, <1>2 DEF IInv, TypeOK, Steps, Todos, Jobs
<1>4. env.id = 0 => env' = env
  BY <1>0 DEF IInv, Numbered, At, Working
<1>5. Numbered' /\ Deletes' /\ Teardowns' /\ InOrder'
  BY <1>0, <1>1, <1>2, <1>4, QueueWaits DEF At, Working
<1>6. Carries' /\ Agreed' /\ ItsDatabaseAnswers' /\ Kept
  BY <1>1, <1>2 DEF IInv, Carries, Agreed, Working, ItsDatabaseAnswers, Lives, Exists, Kept
<1> QED
  BY <1>3, <1>5, <1>6 DEF IInv

LEMMA TakeDeprovisionKeeps ==
  ASSUME IInv, TakeDeprovision
  PROVE  IInv' /\ Kept
<1> USE Constants, Blank
<1>0. /\ At("idle") /\ queue # <<>> /\ Head(queue).kind = "deprovision" /\ queue' = Tail(queue)
      /\ UNCHANGED <<env, dbs, caches, born, deleting, missed, handing, kept, run, used, deaths>>
  BY DEF TakeDeprovision, plane, world, bounds
<1>1. /\ queue' \in Seq(Todos) /\ Head(queue) \in Todos /\ Head(queue).id \in 1 .. born
      /\ Comes(Head(queue))
      /\ \A i \in DOMAIN queue' :
           /\ queue'[i].id \in 1 .. born /\ Comes(queue'[i])
           /\ Before(Head(queue), queue'[i])
           /\ \A k \in DOMAIN queue' : i < k => Before(queue'[i], queue'[k])
  BY <1>0, QueueShrinks
<1>2. job' \in Steps /\ job'.pc = "teardown" /\ job'.todo = Head(queue)
  BY <1>1 DEF TakeDeprovision, Steps
<1>3. TypeOK'
  BY <1>0, <1>1, <1>2 DEF IInv, TypeOK, Jobs, Todos, Steps
<1>4. Numbered' /\ Deletes' /\ Teardowns' /\ InOrder'
  BY <1>0, <1>1, <1>2 DEF IInv, Numbered, Deletes, Teardowns, Comes, InOrder, Before, At, Exists
<1>5. Carries' /\ Agreed' /\ ItsDatabaseAnswers' /\ Kept
  BY <1>0, <1>2 DEF IInv, Carries, Agreed, Working, ItsDatabaseAnswers, Lives, Exists, Kept
<1> QED
  BY <1>3, <1>4, <1>5 DEF IInv

(* No teardown meets a wired environment that is there to stay.            *)
LEMMA DeprovisionUnitKeeps ==
  ASSUME IInv, DeprovisionUnit
  PROVE  IInv' /\ Kept
<1> USE Constants, Blank
<1>0. /\ At("teardown") /\ Goes("done") /\ job.todo.kind = "deprovision"
      /\ UNCHANGED <<env, queue, born, deleting, missed, handing, kept, run, used, deaths>>
  BY DEF DeprovisionUnit, world, bounds, IInv, Carries, At
<1>1. Typed
  BY WhatIsTyped DEF IInv
<1>2. PICK reached \in SUBSET {"app", "data"} :
        LET at == job.todo.at IN
        /\ dbs' = [p \in Places |->
             IF p \in reached /\ (p = "app" \/ at.db = p) THEN None ELSE dbs[p]]
        /\ caches' = [p \in Places |->
             IF p \in reached /\ (p = "app" \/ at.cache = p) THEN "none" ELSE caches[p]]
  BY DEF DeprovisionUnit
<1>3. dbs' \in [Places -> Passwords] /\ caches' \in [Places -> Secrets \union {"none", "open"}]
  BY <1>2 DEF IInv, TypeOK, Passwords
<1>4. /\ job' \in Steps /\ job'.pc = "done" /\ job'.todo = job.todo
  BY <1>0, StepTyped
<1>5. TypeOK'
  BY <1>0, <1>3, <1>4 DEF IInv, TypeOK, Steps, Todos, Jobs
<1>6. Numbered' /\ Deletes' /\ Teardowns' /\ InOrder'
  BY <1>0, <1>4, QueueWaits DEF At
<1>7. Lives => env.wired.db = None
  BY <1>0 DEF IInv, Teardowns, Comes, Lives, At
<1>8. Carries' /\ Agreed' /\ ItsDatabaseAnswers' /\ Kept
  BY <1>0, <1>4, <1>7 DEF IInv, Carries, Agreed, Working, ItsDatabaseAnswers, Lives, Exists, Kept
<1> QED
  BY <1>5, <1>6, <1>8 DEF IInv

LEMMA JobDoneKeeps ==
  ASSUME IInv, JobDone
  PROVE  IInv' /\ Kept
<1> USE Constants, Blank DEF JobDone, plane, world, bounds
<1>1. TypeOK'
  BY DEF IInv, TypeOK, Steps, Todos, Jobs
<1>2. Numbered' /\ Deletes' /\ Teardowns' /\ InOrder'
  BY DEF IInv, Numbered, Deletes, Teardowns, Comes, InOrder, Before, At, Exists
<1>3. Carries' /\ Agreed' /\ ItsDatabaseAnswers' /\ Kept
  BY DEF IInv, Carries, Agreed, Working, ItsDatabaseAnswers, Lives, Exists, Kept
<1> QED
  BY <1>1, <1>2, <1>3 DEF IInv

----------------------------------------------------------------------------
(* Runs and deaths.                                                        *)

LEMMA RunReadsKeeps ==
  ASSUME IInv, RunReads
  PROVE  IInv' /\ Kept
<1> USE Constants, Blank DEF RunReads, plane, jobs, bounds
<1>0. Typed /\ Exists
  BY WhatIsTyped DEF IInv, Numbered, Exists
<1>1. run'.id = env.id /\ run'.wired = env.wired /\ run' \in [id : 0 .. MaxEnvs, wired : Wirings]
  BY <1>0 DEF Typed
<1>2. TypeOK'
  BY <1>1 DEF IInv, TypeOK
<1>3. Numbered' /\ Deletes' /\ Teardowns' /\ InOrder'
  BY <1>0, <1>1 DEF IInv, Typed, Numbered, Deletes, Teardowns, Comes, InOrder, Before, At, Exists
<1>4. Carries' /\ Agreed' /\ ItsDatabaseAnswers' /\ Kept
  BY <1>0, <1>1 DEF IInv, Carries, Agreed, Working, ItsDatabaseAnswers, Lives, Exists, Kept
<1> QED
  BY <1>2, <1>3, <1>4 DEF IInv

(* What the run writes back is older, perhaps, and works.                  *)
LEMMA RunMintsKeeps ==
  ASSUME IInv, RunMints
  PROVE  IInv' /\ Kept
<1> USE Constants, Blank
<1>0. /\ run # NoRun /\ run' = NoRun
      /\ UNCHANGED <<born, deleting, dbs, caches, missed, handing, queue, kept, job, used, deaths>>
  BY DEF RunMints, plane, jobs, bounds
<1>1. Typed /\ run' \in [id : 0 .. MaxEnvs, wired : Wirings]
  BY <1>0, WhatIsTyped DEF IInv, NoRun
<1>2. CASE env' = env
  <2>1. TypeOK'
    BY <1>0, <1>1, <1>2 DEF IInv, TypeOK
  <2>2. Numbered' /\ Deletes' /\ Teardowns' /\ InOrder'
    BY <1>0, <1>1, <1>2
    DEF IInv, Typed, Numbered, Deletes, Teardowns, Comes, InOrder, Before, At, Exists
  <2> QED
    BY <1>0, <1>2, <2>1, <2>2
    DEF IInv, Carries, Agreed, Working, ItsDatabaseAnswers, Lives, Exists, Kept
<1>3. CASE /\ env.id = run.id /\ env' = [env EXCEPT !.wired = [run.wired EXCEPT !.runtime = TRUE]]
           /\ run.id # 0
  <2>1. /\ env' \in Envs /\ env'.id = env.id /\ env'.state = env.state
        /\ env'.wired.db = run.wired.db /\ env'.wired.dbPw = run.wired.dbPw
    BY <1>1, <1>3 DEF IInv, TypeOK, Typed, Envs, Wirings
  <2>2. TypeOK'
    BY <1>0, <1>1, <2>1 DEF IInv, TypeOK
  <2>3. Numbered' /\ Deletes'
    BY <1>0, <1>1, <1>3, <2>1 DEF IInv, Typed, Numbered, Deletes, At, Exists
  <2>4. Teardowns' /\ InOrder'
    BY <1>0, <1>3, <2>1 DEF IInv, Agreed, Teardowns, Comes, InOrder, Before, At
  <2>5. Carries' /\ Agreed' /\ ItsDatabaseAnswers' /\ Kept
    BY <1>0, <1>3, <2>1
    DEF IInv, Carries, Agreed, Working, ItsDatabaseAnswers, Lives, Exists, Kept
  <2> QED
    BY <2>2, <2>3, <2>4, <2>5 DEF IInv
<1>4. run.id # 0
  BY <1>0 DEF IInv, Numbered
<1> QED
  BY <1>2, <1>3, <1>4 DEF RunMints

LEMMA RequestDiesKeeps ==
  ASSUME IInv, RequestDies
  PROVE  IInv' /\ Kept
<1> USE Constants, Blank DEF RequestDies, Dies, plane
<1>0. handing' \subseteq handing
  OBVIOUS
<1>1. TypeOK'
  BY <1>0 DEF IInv, TypeOK
<1>2. Numbered' /\ Deletes' /\ Teardowns' /\ InOrder'
  BY <1>0 DEF IInv, Numbered, Deletes, Teardowns, Comes, InOrder, Before, At, Exists
<1>3. Carries' /\ Agreed' /\ ItsDatabaseAnswers' /\ Kept
  BY DEF IInv, Carries, Agreed, Working, ItsDatabaseAnswers, Lives, Exists, Kept
<1> QED
  BY <1>1, <1>2, <1>3 DEF IInv

(* A job handed out again goes before all that wait, as it did.            *)
LEMMA WorkerDiesKeeps ==
  ASSUME IInv, WorkerDies
  PROVE  IInv' /\ Kept
<1> USE Constants, Blank DEF plane
<1>0. /\ ~At("idle") /\ job' = Idle /\ deaths' \in 0 .. MaxDeaths
      /\ UNCHANGED <<env, born, deleting, dbs, caches, missed, handing, run, used>>
  BY DEF WorkerDies, Dies, IInv, TypeOK
<1>1. Typed /\ job.todo.id \in 1 .. born /\ job.todo.id \in 1 .. MaxEnvs
  BY <1>0, WhatIsTyped DEF IInv, Numbered, Typed
<1>2. kept' \subseteq 1 .. MaxEnvs
  BY <1>1 DEF WorkerDies, IInv, TypeOK
<1>3. CASE queue' = queue
  <2>1. TypeOK'
    BY <1>0, <1>2, <1>3 DEF IInv, TypeOK, Steps, Todos, Jobs
  <2>2. Numbered' /\ Deletes' /\ Teardowns' /\ InOrder'
    BY <1>0, <1>3 DEF IInv, Numbered, Deletes, Teardowns, Comes, InOrder, Before, At, Exists
  <2> QED
    BY <1>0, <2>1, <2>2
    DEF IInv, Carries, Agreed, Working, ItsDatabaseAnswers, Lives, Exists, Kept
<1>4. CASE queue' = Again(job.todo)
  <2> DEFINE j == [job.todo EXCEPT !.again = TRUE]
  <2>1. j \in Todos /\ j.id = job.todo.id /\ j.kind = job.todo.kind /\ queue' = <<j>> \o queue
    BY <1>1, <1>4 DEF Typed, Todos, Again
  <2> HIDE DEF j
  <2>2. /\ queue' \in Seq(Todos) /\ DOMAIN queue = 1 .. Len(queue) /\ Len(queue) \in Nat
        /\ DOMAIN queue' = 1 .. Len(queue) + 1 /\ queue'[1] = j
        /\ \A i \in 2 .. Len(queue) + 1 : queue'[i] = queue[i - 1]
    BY <1>1, <2>1, Prepended DEF Typed
  <2>3. \A i \in DOMAIN queue' :
          i = 1 \/ (i > 1 /\ i - 1 \in DOMAIN queue /\ queue'[i] = queue[i - 1])
    BY <2>2
  <2>4. TypeOK'
    BY <1>0, <1>2, <2>2 DEF IInv, TypeOK, Steps, Todos, Jobs
  <2>5. Numbered' /\ Deletes'
    BY <1>0, <1>1, <2>1, <2>2, <2>3 DEF IInv, Numbered, Deletes, At, Exists
  <2>6. Teardowns'
    BY <1>0, <2>1, <2>2, <2>3 DEF IInv, Teardowns, Comes, At
  <2>7. InOrder'
    <3>1. ASSUME NEW i \in DOMAIN queue', NEW k \in DOMAIN queue', i < k
          PROVE  Before(queue'[i], queue'[k])
      <4>1. k > 1 /\ k - 1 \in DOMAIN queue /\ queue'[k] = queue[k - 1]
        BY <2>2, <2>3, <3>1
      <4>2. CASE i = 1
        BY <1>0, <2>1, <2>2, <4>1, <4>2 DEF IInv, InOrder, Before
      <4>3. CASE i # 1
        <5>1. i - 1 \in DOMAIN queue /\ queue'[i] = queue[i - 1] /\ i - 1 < k - 1
          BY <2>2, <2>3, <3>1, <4>3
        <5> QED
          BY <4>1, <5>1 DEF IInv, InOrder
      <4> QED
        BY <4>2, <4>3
    <3> QED
      BY <1>0, <3>1 DEF InOrder, At
  <2> QED
    BY <1>0, <2>4, <2>5, <2>6, <2>7
    DEF IInv, Carries, Agreed, Working, ItsDatabaseAnswers, Lives, Exists, Kept
<1> QED
  BY <1>3, <1>4 DEF WorkerDies

----------------------------------------------------------------------------
(* The theorems.                                                           *)

LEMMA Continues == IInv /\ [Next]_vars => IInv' /\ [Kept]_vars
<1> SUFFICES ASSUME IInv, [Next]_vars PROVE IInv' /\ [Kept]_vars
  OBVIOUS
<1>1. CASE Create \/ ProvisionAgain \/ Update \/ ReadDeleted \/ EnqueueTeardown \/ DeleteRow
           \/ Enqueue
  BY <1>1, CreateKeeps, ProvisionAgainKeeps, UpdateKeeps, ReadDeletedKeeps,
     EnqueueTeardownKeeps, DeleteRowKeeps, EnqueueKeeps
<1>2. CASE WorkerStep
  BY <1>2, TakeProvisionKeeps, ProvisionDatabaseKeeps, ProvisionCacheKeeps,
     ProvisionLocalKeeps, WriteWiringKeeps, FailsKeeps, TakeDeprovisionKeeps,
     DeprovisionUnitKeeps, JobDoneKeeps DEF WorkerStep
<1>3. CASE RunReads \/ RunMints \/ RequestDies \/ WorkerDies
  BY <1>3, RunReadsKeeps, RunMintsKeeps, RequestDiesKeeps, WorkerDiesKeeps
<1>4. CASE UNCHANGED vars
  BY <1>4 DEF vars, plane, jobs, bounds, IInv, TypeOK, Numbered, Deletes, Teardowns, Comes,
     InOrder, Before, Carries, Agreed, Working, ItsDatabaseAnswers, Lives, Exists, At
<1> QED
  BY <1>1, <1>2, <1>3, <1>4 DEF Next

(* Every reachable state satisfies the inductive invariant.                *)
THEOREM Invariance == Spec => []IInv
<1>1. IInv /\ [Next]_vars => IInv'
  BY Continues
<1> QED
  BY <1>1, Starts, PTL DEF Spec

(* The database an environment is wired to is there and takes the password *)
(* of its wiring: for any number of environments created under one name,   *)
(* of edits and repeated requests, and wherever the worker dies.           *)
THEOREM DatabaseAnswers == Spec => []DatabaseReachable
<1>1. IInv => DatabaseReachable
  BY DEF IInv, DatabaseReachable
<1> QED
  BY <1>1, Invariance, PTL

(* The provision job and the minting of secrets, which write platformEnv   *)
(* as a whole from their own readings, keep its database password.         *)
THEOREM CredentialsStay == Spec => CredentialsKept
<1>1. IInv /\ [Next]_vars =>
        [(env'.id = env.id /\ env.wired.dbPw # None)
           => env'.wired.dbPw = env.wired.dbPw]_vars
  BY Continues DEF Kept
<1> QED
  BY <1>1, Invariance, PTL DEF Spec, CredentialsKept
=============================================================================
