---------------------------- MODULE Provisioning ----------------------------
(***************************************************************************)
(* The data plane behind one environment name: the row and its             *)
(* platformEnv, the queue of provision and deprovision jobs, the worker    *)
(* that runs one of them at a time, and the databases and caches it        *)
(* creates on the servers.                                                 *)
(*                                                                         *)
(* The database and cache of an environment are named by project and       *)
(* environment name, so an environment deleted and created again under     *)
(* the same name meets what its predecessor left.  The provision job reads *)
(* the row once, drives the servers, and writes platformEnv as a whole at  *)
(* the end; a deployment that mints the runtime secrets does the same from *)
(* its own reading.  The api writes the row first and enqueues later.      *)
(***************************************************************************)
EXTENDS Naturals, Sequences, FiniteSets

CONSTANTS
  Secrets,    \* values the random generators return
  None,       \* null
  Moves,      \* the placements an update may choose, besides the app server
  MaxEnvs,    \* bound: how many environments are created under the name
  MaxUpdates, \* bound: how many times a placement is edited
  MaxClicks,  \* bound: how many times a person asks to provision again
  MaxDeaths   \* bound: how many processes die between two steps

Places == {"app", "data"}   \* the environment's own server, and another one
Placements == [db : Places, cache : Places]
AtHome == [db |-> "app", cache |-> "app"]

ASSUME SecretsAssumption == None \notin Secrets \union Places
ASSUME MovesAssumption == Moves \subseteq Placements
ASSUME BoundsAssumption == {MaxEnvs, MaxUpdates, MaxClicks, MaxDeaths} \subseteq Nat

VARIABLES
  env,       \* the row of the current environment: [id, state, at, wired]; id 0: no row
  born,      \* how many environments have been created
  deleting,  \* the delete request: the environment, where it stands, what it has read
  dbs,       \* dbs[p]: the password of the unit's database role on p; None: no unit
  caches,    \* caches[p]: the unit's Redis on p: "none", "open", or its password
  missed,    \* history: environments a request for which found its job kept, or done
             \* but not removed yet
  handing,   \* jobs a request has still to enqueue
  queue,     \* the jobs waiting
  kept,      \* environments whose given-up provision job is kept, with its id
  job,       \* the job the worker runs
  run,       \* the deployment run: what it read of the row
  used,      \* counts updates and clicks, for the bounds
  deaths     \* counts the deaths of processes, for the bound

plane == <<dbs, caches>>
jobs == <<missed, handing, queue, kept>>
bounds == <<used, deaths>>
vars == <<env, born, deleting, plane, jobs, job, run, bounds>>

(* platformEnv: the database URL, the cache's place and REDIS_PASSWORD, and *)
(* whether the runtime secrets are in it.                                   *)
Unwired == [db |-> None, dbPw |-> None, cache |-> None, cachePw |-> None, runtime |-> FALSE]

NoEnv == [id |-> 0, state |-> "none", at |-> AtHome, wired |-> Unwired]

Provision(id) == [kind |-> "provision", id |-> id, at |-> AtHome, again |-> FALSE]
Deprovision(id, at) == [kind |-> "deprovision", id |-> id, at |-> at, again |-> FALSE]

Idle == [pc |-> "idle", todo |-> Provision(0), at |-> AtHome, wired |-> Unwired,
         dbPw |-> None, cachePw |-> None]
NoRun == [id |-> 0, wired |-> Unwired]
NoDelete == [id |-> 0, pc |-> "read", teardown |-> FALSE, at |-> AtHome]

Init ==
  /\ env = NoEnv
  /\ born = 0
  /\ deleting = NoDelete
  /\ dbs = [p \in Places |-> None]
  /\ caches = [p \in Places |-> "none"]
  /\ missed = {}
  /\ handing = {}
  /\ queue = <<>>
  /\ kept = {}
  /\ job = Idle
  /\ run = NoRun
  /\ used = [updates |-> 0, clicks |-> 0]
  /\ deaths = 0

Exists == env.id # 0
At(pc) == job.pc = pc
Works(kind, id) == ~At("idle") /\ job.todo.kind = kind /\ job.todo.id = id

----------------------------------------------------------------------------
(* The api.                                                                *)

(* create: an environment whose servers can host it is provisioned at once. *)
Create ==
  /\ ~Exists /\ born < MaxEnvs
  /\ born' = born + 1
  /\ \E can \in BOOLEAN :
       /\ env' = [NoEnv EXCEPT !.id = born + 1,
                               !.state = IF can THEN "provisioning" ELSE "unprovisioned"]
       /\ handing' = IF can THEN handing \union {Provision(born + 1)} ELSE handing
  /\ UNCHANGED <<deleting, plane, missed, queue, kept, job, run, bounds>>

(* provision: the status is written before the job is enqueued.            *)
ProvisionAgain ==
  /\ Exists /\ used.clicks < MaxClicks
  /\ used' = [used EXCEPT !.clicks = @ + 1]
  /\ env' = [env EXCEPT !.state = "provisioning"]
  /\ handing' = handing \union {Provision(env.id)}
  /\ UNCHANGED <<born, deleting, plane, missed, queue, kept, job, run, deaths>>

(* update: a placement edit touches neither the status nor the wiring.     *)
Update ==
  /\ Exists /\ used.updates < MaxUpdates
  /\ used' = [used EXCEPT !.updates = @ + 1]
  /\ \E at \in Moves \union {AtHome} : env' = [env EXCEPT !.at = at]
  /\ UNCHANGED <<born, deleting, plane, jobs, job, run, deaths>>

(* delete reads the row, enqueues the teardown from that snapshot, then     *)
(* deletes the row; a request that dies half way stops there for good.  A   *)
(* second delete at the same time is left out.                              *)
ReadDeleted ==
  /\ Exists /\ deleting = NoDelete
  /\ deleting' = [id |-> env.id, pc |-> "enqueue", teardown |-> env.state # "unprovisioned",
                  at |-> env.at]
  /\ UNCHANGED <<env, born, plane, jobs, job, run, bounds>>

EnqueueTeardown ==
  /\ deleting.pc = "enqueue"
  /\ deleting' = [NoDelete EXCEPT !.id = deleting.id, !.pc = "row"]
  /\ queue' = IF deleting.teardown
              THEN Append(queue, Deprovision(deleting.id, deleting.at)) ELSE queue
  /\ UNCHANGED <<env, born, plane, missed, handing, kept, job, run, bounds>>

DeleteRow ==
  /\ deleting.pc = "row"
  /\ deleting' = NoDelete
  /\ env' = NoEnv
  /\ UNCHANGED <<born, plane, jobs, job, run, bounds>>

(* BullMQ ignores a job whose id it still holds, waiting, active or failed. *)
Collapses(j) ==
  \/ j.id \in kept \/ Works("provision", j.id)
  \/ \E i \in DOMAIN queue : queue[i].kind = "provision" /\ queue[i].id = j.id

Enqueue ==
  \E j \in handing :
    /\ handing' = handing \ {j}
    /\ queue' = IF Collapses(j) THEN queue ELSE Append(queue, j)
    /\ missed' = IF j.id \in kept \/ (At("done") /\ Works("provision", j.id))
                 THEN missed \union {j.id} ELSE missed
    /\ UNCHANGED <<env, born, deleting, plane, kept, job, run, bounds>>

----------------------------------------------------------------------------
(* The provisioning worker.                                                *)

Goes(pc) == job' = [job EXCEPT !.pc = pc]
world == <<born, deleting, missed, handing, kept, run, bounds>>

Regenerate(pw) == Secrets
Reuse(pw) == IF pw = None THEN Secrets ELSE {pw}

(* The row is read, and the passwords taken from it or generated (that of  *)
(* the cache has no use while both are at home).                           *)
TakeProvision ==
  /\ At("idle") /\ queue # <<>> /\ Head(queue).kind = "provision"
  /\ queue' = Tail(queue)
  /\ IF env.id = Head(queue).id
     THEN \E dbPw \in Reuse(env.wired.dbPw),
             cachePw \in IF env.at = AtHome THEN {env.wired.cachePw} ELSE Reuse(env.wired.cachePw) :
            job' = [pc |-> "database", todo |-> Head(queue), at |-> env.at, wired |-> env.wired,
                    dbPw |-> dbPw, cachePw |-> cachePw]
     ELSE UNCHANGED job
  /\ UNCHANGED <<env, plane, world>>

Target == job.at

(* A database that moved is created on its own server.                     *)
ProvisionDatabase ==
  /\ At("database")
  /\ dbs' = IF Target.db = "data" THEN [dbs EXCEPT !["data"] = job.dbPw] ELSE dbs
  /\ Goes("cache")
  /\ UNCHANGED <<env, caches, queue, world>>

(* So is a cache, afresh each time.                                        *)
ProvisionCache ==
  /\ At("cache")
  /\ caches' = IF Target.cache = "data" THEN [caches EXCEPT !["data"] = job.cachePw] ELSE caches
  /\ Goes("local")
  /\ UNCHANGED <<env, dbs, queue, world>>

(* What stays on the app server: both halves when the database is there (a *)
(* Redis that exists is kept), else a fresh Redis with a password.         *)
LocalRedis ==
  IF Target.db = "app"
  THEN IF caches["app"] = "none" THEN "open" ELSE caches["app"]
  ELSE IF Target.cache = "app" THEN job.cachePw ELSE caches["app"]

ProvisionLocal ==
  /\ At("local")
  /\ dbs' = IF Target.db = "app" THEN [dbs EXCEPT !["app"] = job.dbPw] ELSE dbs
  /\ caches' = [caches EXCEPT !["app"] = LocalRedis]
  /\ Goes("write")
  /\ UNCHANGED <<env, queue, world>>

(* The wiring on top of the platformEnv that was read: REDIS_PASSWORD is   *)
(* written when the cache or the database moved, and stays otherwise.      *)
Wired ==
  [job.wired EXCEPT
     !.db = Target.db, !.dbPw = job.dbPw, !.cache = Target.cache,
     !.cachePw = IF Target # AtHome THEN job.cachePw ELSE @]

WriteWiring ==
  /\ At("write")
  /\ env' = IF env.id = job.todo.id
            THEN [env EXCEPT !.wired = Wired, !.state = "provisioned"] ELSE env
  /\ Goes("done")
  /\ UNCHANGED <<plane, queue, world>>

FailsSilently ==
  /\ job.pc \in {"database", "cache", "local", "write"}
  /\ Goes("done")
  /\ UNCHANGED <<env, plane, queue, world>>

(* Any check or remote command may fail: fail() leaves platformEnv alone.  *)
Fails ==
  /\ job.pc \in {"database", "cache", "local", "write"}
  /\ env' = IF env.id = job.todo.id THEN [env EXCEPT !.state = "failed"] ELSE env
  /\ Goes("done")
  /\ UNCHANGED <<plane, queue, world>>

TakeDeprovision ==
  /\ At("idle") /\ queue # <<>> /\ Head(queue).kind = "deprovision"
  /\ queue' = Tail(queue)
  /\ job' = [Idle EXCEPT !.pc = "teardown", !.todo = Head(queue)]
  /\ UNCHANGED <<env, plane, world>>

(* Best effort: any server may be out of reach; the app server loses both  *)
(* halves, another one what was placed there.                              *)
DeprovisionUnit ==
  /\ At("teardown")
  /\ \E reached \in SUBSET {"app", "data"} :
       LET at == job.todo.at IN
       /\ dbs' = [p \in Places |->
            IF p \in reached /\ (p = "app" \/ at.db = p) THEN None ELSE dbs[p]]
       /\ caches' = [p \in Places |->
            IF p \in reached /\ (p = "app" \/ at.cache = p) THEN "none" ELSE caches[p]]
  /\ Goes("done")
  /\ UNCHANGED <<env, queue, world>>

JobDone ==
  /\ At("done")
  /\ job' = Idle
  /\ UNCHANGED <<env, plane, queue, world>>

----------------------------------------------------------------------------
(* A deployment run of the environment, as far as it touches the row.      *)

RunReads ==
  /\ run = NoRun /\ env.state = "provisioned"
  /\ run' = [id |-> env.id, wired |-> env.wired]
  /\ UNCHANGED <<env, born, deleting, plane, jobs, job, bounds>>

(* ensureRuntimeSecrets: what was read, with the secrets, by id.           *)
RunMints ==
  /\ run # NoRun
  /\ run' = NoRun
  /\ IF ~run.wired.runtime /\ env.id = run.id
     THEN env' = [env EXCEPT !.wired = [run.wired EXCEPT !.runtime = TRUE]]
     ELSE UNCHANGED env
  /\ UNCHANGED <<born, deleting, plane, jobs, job, bounds>>

----------------------------------------------------------------------------
(* Deaths.                                                                 *)

Dies == deaths < MaxDeaths /\ deaths' = deaths + 1

RequestDies ==
  /\ Dies
  /\ \E j \in handing : handing' = handing \ {j}
  /\ UNCHANGED <<env, born, deleting, plane, missed, queue, kept, job, run, used>>

(* A stalled job goes back to the front of the queue, once; a provision    *)
(* job given up is kept, and its id with it.                               *)
AgainAtTheBack(j) == Append(queue, [j EXCEPT !.again = TRUE])
Again(j) == <<[j EXCEPT !.again = TRUE]>> \o queue

WorkerDies ==
  /\ ~At("idle") /\ Dies
  /\ job' = Idle
  /\ IF job.todo.again
     THEN /\ kept' = IF job.todo.kind = "provision" THEN kept \union {job.todo.id} ELSE kept
          /\ UNCHANGED queue
     ELSE queue' = Again(job.todo) /\ UNCHANGED kept
  /\ UNCHANGED <<env, born, deleting, plane, missed, handing, run, used>>

WorkerStep ==
  \/ TakeProvision \/ ProvisionDatabase \/ ProvisionCache \/ ProvisionLocal \/ WriteWiring
  \/ Fails \/ TakeDeprovision \/ DeprovisionUnit \/ JobDone

Next ==
  \/ Create \/ ProvisionAgain \/ Update \/ ReadDeleted \/ EnqueueTeardown \/ DeleteRow \/ Enqueue
  \/ WorkerStep \/ RunReads \/ RunMints \/ RequestDies \/ WorkerDies

Spec == Init /\ [][Next]_vars

(* The worker goes on and a request in progress finishes.                  *)
FairSpec == Spec /\ WF_vars(WorkerStep) /\ WF_vars(Enqueue)

----------------------------------------------------------------------------
(* Properties.                                                             *)

Passwords == Secrets \union {None}
Wirings == [db : Places \union {None}, dbPw : Passwords, cache : Places \union {None},
            cachePw : Passwords, runtime : BOOLEAN]
States == {"none", "unprovisioned", "provisioning", "provisioned", "failed"}
Envs == [id : 0 .. MaxEnvs, state : States, at : Placements, wired : Wirings]
Jobs == [kind : {"provision", "deprovision"}, id : 0 .. MaxEnvs, at : Placements, again : BOOLEAN]

TypeOK ==
  /\ env \in Envs
  /\ born \in 0 .. MaxEnvs
  /\ deleting \in [id : 0 .. MaxEnvs, pc : {"read", "enqueue", "row"}, teardown : BOOLEAN,
                   at : Placements]
  /\ missed \subseteq 1 .. MaxEnvs
  /\ dbs \in [Places -> Passwords]
  /\ caches \in [Places -> Secrets \union {"none", "open"}]
  /\ handing \subseteq Jobs /\ queue \in Seq(Jobs) /\ kept \subseteq 1 .. MaxEnvs
  /\ job \in [pc : {"idle", "database", "cache", "local", "write", "teardown", "done"},
              todo : Jobs, at : Placements, wired : Wirings, dbPw : Passwords, cachePw : Passwords]
  /\ run \in [id : 0 .. MaxEnvs, wired : Wirings]
  /\ used \in [updates : 0 .. MaxUpdates, clicks : 0 .. MaxClicks]
  /\ deaths \in 0 .. MaxDeaths

Lives == Exists /\ deleting.pc # "row"

(* The database the environment is wired to is there and takes the         *)
(* password of its wiring, while it is provisioned again, moved, when a    *)
(* run fails or dies half way, and when its name had another owner before. *)
ItsDatabaseAnswers ==
  (Lives /\ env.wired.db # None) => dbs[env.wired.db] = env.wired.dbPw

(* That, in states in which every variable has its type.                   *)
DatabaseReachable == TypeOK /\ ItsDatabaseAnswers

(* Neither of the two writers of platformEnv, each from its own reading,   *)
(* rotates the database password of an environment.                        *)
CredentialsKept ==
  [][(env'.id = env.id /\ env.wired.dbPw # None) => env'.wired.dbPw = env.wired.dbPw]_vars

(* An environment that says provisioning comes to an answer, unless the    *)
(* request met a job that was done or kept, or some process died.          *)
ProvisioningEnds ==
  env.state = "provisioning" ~>
    (env.state # "provisioning" \/ env.id \in missed \/ deaths > 0)
=============================================================================
