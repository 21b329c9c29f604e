---------------------------- MODULE Deployments ----------------------------
(***************************************************************************)
(* The deployments of one environment: the api that requests and cancels   *)
(* them, the webhook worker that requests them for merges into the default *)
(* branch, the queue, and the deployment worker that builds and rolls out  *)
(* one run at a time.                                                      *)
(*                                                                         *)
(* The row, the queue and the box are three stores that no transaction     *)
(* spans: a row is inserted first and its job enqueued later, the worker   *)
(* writes a phase when it starts it and acts on the box in between.  Any   *)
(* process may die between two of those steps.  The queue hands the job of *)
(* a dead worker out once more and then gives it up.                       *)
(*                                                                         *)
(* provisionStatus and autoDeploy are columns other components set at any  *)
(* time (the first in Provisioning), so here a read finds either value: a  *)
(* request is refused, a run fails, a merge is passed over as well as not. *)
(***************************************************************************)
EXTENDS Naturals, Sequences, FiniteSets

CONSTANTS
  MaxRuns,    \* bound: how many deployments are ever requested
  MaxHead,    \* bound: how many heads of the default branch are told apart
  MaxPending, \* bound: how many merges wait for the webhook worker at once
  MaxDeaths,  \* bound: how many processes die between two steps
  Window      \* how many recent rows the auto-deploy reads (10 in the code)

ASSUME BoundsAssumption == {MaxRuns, MaxHead, MaxPending, MaxDeaths, Window} \subseteq Nat

Runs == 1 .. MaxRuns   \* in the order of createdAt
NoRun == 0

VARIABLES
  status,      \* deployment.status, or "unborn", or "gone" with the environment
  auto,        \* deployment.trigger is 'auto'
  stopAsked,   \* deployment.cancelRequested
  attempts,    \* history: how often the worker has taken the run up
  asked,       \* history: the head of the default branch when the row was inserted
  present,     \* the environment row exists
  minted,      \* its platformEnv holds the runtime secrets
  head,        \* the default branch on GitHub, as the number of merges
  merges,      \* webhook jobs of merges that have not been processed
  deciding,    \* the webhook worker has decided to auto-deploy and not inserted yet
  handing,     \* rows inserted whose job is not enqueued yet
  cancelling,  \* the run a cancel request has found and not flagged yet
  queue,       \* the jobs waiting: the run, and whether it is handed out again
  job,         \* the job the worker executes
  box,         \* the app server: the commit rolled out last; is there an owner account
  deaths       \* counts the deaths of processes, for the bound

rowVars == <<status, auto, stopAsked, attempts, asked>>
repoVars == <<head, merges, deciding>>
vars == <<rowVars, present, minted, repoVars, handing, cancelling, queue, job, box, deaths>>

Record == INSTANCE DeploymentRecord
  WITH Runs <- Runs, status <- status, stopAsked <- stopAsked, attempts <- attempts

InFlight(r) == Record!InFlight(r)
Born(r) == status[r] \in Record!RunStatuses

Idle == [pc |-> "idle", run |-> NoRun, again |-> FALSE,
         aborted |-> FALSE, sha |-> 0, seeds |-> FALSE]

Init ==
  /\ status = [r \in Runs |-> "unborn"]
  /\ auto = [r \in Runs |-> FALSE]
  /\ stopAsked = [r \in Runs |-> FALSE]
  /\ attempts = [r \in Runs |-> 0]
  /\ asked = [r \in Runs |-> 0]
  /\ present = TRUE
  /\ minted = FALSE
  /\ head = 0
  /\ merges = 0
  /\ deciding = FALSE
  /\ handing = {}
  /\ cancelling = NoRun
  /\ queue = <<>>
  /\ job = Idle
  /\ box = [sha |-> 0, seeded |-> FALSE]
  /\ deaths = 0

----------------------------------------------------------------------------
(* The api and the webhook worker.                                         *)

(* createDeployment: the next row of the table.                            *)
Insert(byMachine) ==
  \E r \in Runs :
    /\ present
    /\ status[r] = "unborn" /\ \A q \in Runs : q < r => status[q] # "unborn"
    /\ status' = [status EXCEPT ![r] = "queued"]
    /\ auto' = [auto EXCEPT ![r] = byMachine]
    /\ asked' = [asked EXCEPT ![r] = head]
    /\ handing' = handing \union {r}
    /\ UNCHANGED <<stopAsked, attempts>>

(* A person deploys: nothing asks whether a run is in flight.              *)
Deploy ==
  /\ Insert(FALSE)
  /\ UNCHANGED <<present, minted, repoVars, cancelling, queue, job, box, deaths>>

(* enqueueDeploy: the request's second half.                               *)
Enqueue(r) ==
  /\ r \in handing
  /\ handing' = handing \ {r}
  /\ queue' = Append(queue, [run |-> r, again |-> FALSE])
  /\ UNCHANGED <<rowVars, present, minted, repoVars, cancelling, job, box, deaths>>

(* findActiveDeployment takes the newest run in flight ...                *)
FindActive(r) ==
  /\ present /\ cancelling = NoRun
  /\ InFlight(r) /\ \A q \in Runs : q > r => ~InFlight(q)
  /\ cancelling' = r
  /\ UNCHANGED <<rowVars, present, minted, repoVars, handing, queue, job, box, deaths>>

(* ... and requestDeploymentCancel flags it, settled or not by now.  The   *)
(* worker does the rest.                                                   *)
RequestCancel ==
  /\ cancelling # NoRun
  /\ stopAsked' = IF Born(cancelling) THEN [stopAsked EXCEPT ![cancelling] = TRUE] ELSE stopAsked
  /\ cancelling' = NoRun
  /\ UNCHANGED <<status, auto, attempts, asked, present, minted, repoVars, handing, queue, job,
                 box, deaths>>

(* The rows go with the environment; a job that runs is not told.          *)
Delete ==
  /\ present
  /\ present' = FALSE
  /\ status' = [r \in Runs |-> IF status[r] = "unborn" THEN "unborn" ELSE "gone"]
  /\ auto' = [r \in Runs |-> FALSE]
  /\ stopAsked' = [r \in Runs |-> FALSE]
  /\ attempts' = [r \in Runs |-> 0]
  /\ asked' = [r \in Runs |-> 0]
  /\ UNCHANGED <<minted, repoVars, handing, cancelling, queue, job, box, deaths>>

Merge ==
  /\ merges < MaxPending
  /\ head' = IF head < MaxHead THEN head + 1 ELSE head
  /\ merges' = merges + 1
  /\ UNCHANGED <<rowVars, present, minted, deciding, handing, cancelling, queue, job, box, deaths>>

Recent == {r \in Runs : Born(r) /\ Cardinality({q \in Runs : q > r /\ Born(q)}) < Window}

BusyRunning == \E r \in Recent : status[r] \in {"building", "deploying"}
Busy == \E r \in Recent : InFlight(r)

AutoFailed(r) == auto[r] /\ status[r] = "failed"

ComputeAutoDeployPaused ==
  \E a, b \in Recent :
    /\ a < b /\ AutoFailed(a) /\ AutoFailed(b)
    /\ \A q \in Recent : q > a => status[q] # "healthy" /\ ~InFlight(q)

(* The webhook worker handles one job at a time: it reads the environment  *)
(* and its recent rows, and inserts after that.                            *)
AutoDeploy ==
  /\ merges > 0 /\ ~deciding
  /\ \/ /\ present /\ ~Busy /\ ~ComputeAutoDeployPaused
        /\ deciding' = TRUE
        /\ UNCHANGED merges
     \/ /\ merges' = merges - 1
        /\ UNCHANGED deciding
  /\ UNCHANGED <<rowVars, present, minted, head, handing, cancelling, queue, job, box, deaths>>

(* The insert of a deleted environment's row fails the webhook job.        *)
AutoInsert ==
  /\ deciding
  /\ IF present THEN Insert(TRUE) ELSE UNCHANGED <<rowVars, handing>>
  /\ deciding' = FALSE
  /\ merges' = merges - 1
  /\ UNCHANGED <<present, minted, head, cancelling, queue, job, box, deaths>>

----------------------------------------------------------------------------
(* The deployment worker.  job.pc is the next thing process and run do.    *)

At(pc) == job.pc = pc

Goes(pc) == job' = [job EXCEPT !.pc = pc]

(* update(id, patch) by id: it hits nothing when the row is gone.          *)
Writes(r, to) == status' = IF Born(r) THEN [status EXCEPT ![r] = to] ELSE status

Working == {"env", "resolve", "build", "render", "up"}

restOfWorld == <<auto, stopAsked, asked, present, repoVars, handing, cancelling>>

(* process returns early when the row is gone or the run already healthy.  *)
ToDoRow(r) == Born(r)
ToDo(r) == Born(r) /\ status[r] # "healthy"

(* The queue hands the oldest job to the worker, which reads the row.      *)
TakeJob ==
  /\ At("idle") /\ queue # <<>>
  /\ queue' = Tail(queue)
  /\ LET next == Head(queue) IN
       IF ToDo(next.run)
       THEN /\ job' = [Idle EXCEPT !.pc = "env", !.run = next.run, !.again = next.again]
            /\ attempts' = [attempts EXCEPT ![next.run] = @ + 1]
       ELSE UNCHANGED <<job, attempts>>
  /\ UNCHANGED <<status, restOfWorld, minted, box, deaths>>

(* pollCancel, every three seconds while the job runs.                     *)
PollCancel ==
  /\ job.pc \in Working \union {"finish"} /\ ~job.aborted
  /\ Born(job.run) /\ stopAsked[job.run]
  /\ job' = [job EXCEPT !.aborted = TRUE]
  /\ UNCHANGED <<status, attempts, restOfWorld, minted, queue, box, deaths>>

(* The environment is read and checked, and the preflight run on the box.  *)
(* A cancelled run is stopped by its next remote command, which it has     *)
(* here only if the environment has hostnames.                             *)
Begin ==
  /\ At("env")
  /\ present
  /\ Writes(job.run, "building")
  /\ Goes("resolve")
  /\ UNCHANGED <<attempts, restOfWorld, minted, queue, box, deaths>>

ResolvedAtRequest == asked[job.run]
Resolved == head   \* resolve-head-sha asks GitHub when the job runs

ResolveHead ==
  /\ At("resolve") /\ ~job.aborted
  /\ job' = [job EXCEPT !.pc = "build", !.sha = Resolved]
  /\ UNCHANGED <<status, attempts, restOfWorld, minted, queue, box, deaths>>

(* build-images and the transfer; then the row says deploying.             *)
Build ==
  /\ At("build") /\ ~job.aborted
  /\ Writes(job.run, "deploying")
  /\ Goes("render")
  /\ UNCHANGED <<attempts, restOfWorld, minted, queue, box, deaths>>

(* neverDeployedHealthy: the seed goes along until some row is healthy.    *)
NeedsSeedFirst == ~minted
NeedsSeed == \A r \in Runs : status[r] # "healthy"

(* ensureRuntimeSecrets mints once; then the .env is rendered and written. *)
Render ==
  /\ At("render")
  /\ minted' = (minted \/ present)
  /\ job' = [job EXCEPT !.pc = "up", !.seeds = NeedsSeed]
  /\ UNCHANGED <<status, attempts, restOfWorld, queue, box, deaths>>

(* deploy-stack returned: the health gate passed, with the seed applied.   *)
BringUp ==
  /\ At("up") /\ ~job.aborted
  /\ box' = [sha |-> job.sha, seeded |-> box.seeded \/ job.seeds]
  /\ Goes("finish")
  /\ UNCHANGED <<status, attempts, restOfWorld, minted, queue, deaths>>

StepFailsUnlessAborted ==
  /\ job.pc \in Working /\ ~job.aborted
  /\ job' = [Idle EXCEPT !.pc = "failing", !.run = job.run, !.again = job.again]
  /\ UNCHANGED <<status, attempts, restOfWorld, minted, queue, box, deaths>>

(* Any step that drives a box may fail, and does once the run is aborted;  *)
(* a roll-out that fails may have got as far as the containers, or the     *)
(* seed.                                                                   *)
StepFails ==
  /\ job.pc \in Working
  /\ job' = [Idle EXCEPT !.pc = "failing", !.run = job.run, !.again = job.again,
                        !.aborted = job.aborted]
  /\ \/ UNCHANGED box
     \/ /\ At("up")
        /\ \E seeded \in {box.seeded, box.seeded \/ job.seeds} :
             box' = [sha |-> job.sha, seeded |-> seeded]
  /\ UNCHANGED <<status, attempts, restOfWorld, minted, queue, deaths>>

FinishForgetsCancel ==
  /\ \/ At("finish") /\ Writes(job.run, "healthy")
     \/ At("failing") /\ IF job.aborted THEN UNCHANGED status ELSE Writes(job.run, "failed")
  /\ job' = [Idle EXCEPT !.pc = "done", !.run = job.run, !.again = job.again]
  /\ UNCHANGED <<attempts, restOfWorld, minted, queue, box, deaths>>
Finish ==
  /\ \/ At("finish") /\ Writes(job.run, "healthy")
     \/ At("failing") /\ Writes(job.run, IF job.aborted THEN "cancelled" ELSE "failed")
  /\ job' = [Idle EXCEPT !.pc = "done", !.run = job.run, !.again = job.again]
  /\ UNCHANGED <<attempts, restOfWorld, minted, queue, box, deaths>>

JobDone ==
  /\ At("done")
  /\ job' = Idle
  /\ UNCHANGED <<status, attempts, restOfWorld, minted, queue, box, deaths>>

----------------------------------------------------------------------------
(* Deaths.                                                                 *)

Dies == deaths < MaxDeaths /\ deaths' = deaths + 1

(* Between the insert of the row and the job: the row stays queued.        *)
HandoverDies(r) ==
  /\ r \in handing /\ Dies
  /\ handing' = handing \ {r}
  /\ UNCHANGED <<rowVars, present, minted, repoVars, cancelling, queue, job, box>>

(* A stalled job goes back to the front of the queue, once.                *)
Redelivered == IF job.again THEN queue ELSE <<[run |-> job.run, again |-> TRUE]>> \o queue

WorkerDies ==
  /\ ~At("idle") /\ Dies
  /\ queue' = Redelivered
  /\ job' = Idle
  /\ UNCHANGED <<status, attempts, restOfWorld, minted, box>>

WorkerStep ==
  \/ TakeJob \/ Begin \/ ResolveHead \/ Build \/ Render \/ BringUp
  \/ StepFails \/ Finish \/ JobDone

Next ==
  \/ Deploy \/ Delete \/ Merge \/ AutoDeploy \/ AutoInsert
  \/ \E r \in Runs : Enqueue(r) \/ FindActive(r) \/ HandoverDies(r)
  \/ RequestCancel \/ WorkerStep \/ PollCancel \/ WorkerDies

Spec == Init /\ [][Next]_vars

(* The worker goes on, a request in progress finishes, and so does the     *)
(* webhook job that has decided; people and GitHub owe nothing.            *)
FairSpec ==
  /\ Spec
  /\ WF_vars(WorkerStep)
  /\ \A r \in Runs : WF_vars(Enqueue(r))
  /\ WF_vars(AutoInsert)

----------------------------------------------------------------------------
(* Properties.                                                             *)

Jobs == [run : Runs, again : BOOLEAN]

TypeOK ==
  /\ status \in [Runs -> Record!RunStatuses \union {"unborn", "gone"}]
  /\ auto \in [Runs -> BOOLEAN]
  /\ stopAsked \in [Runs -> BOOLEAN]
  /\ attempts \in [Runs -> 0 .. 2]
  /\ asked \in [Runs -> 0 .. MaxHead]
  /\ present \in BOOLEAN /\ minted \in BOOLEAN /\ deciding \in BOOLEAN
  /\ head \in 0 .. MaxHead /\ merges \in 0 .. MaxPending
  /\ handing \subseteq Runs /\ cancelling \in Runs \union {NoRun}
  /\ queue \in Seq(Jobs)
  /\ job \in [pc : Working \union {"idle", "failing", "finish", "done"},
              run : Runs \union {NoRun}, again : BOOLEAN, aborted : BOOLEAN,
              sha : 0 .. MaxHead, seeds : BOOLEAN]
  /\ box \in [sha : 0 .. MaxHead, seeded : BOOLEAN]
  /\ deaths \in 0 .. MaxDeaths

(* The history keeps the promises of DeploymentRecord: every step of the   *)
(* api, the queue and the worker is one of its steps or leaves it alone.   *)
KeepsTheRecord == Record!Spec

(* An environment with a healthy deployment has its owner account: some    *)
(* roll-out that carried the seed has passed the health gate, whatever     *)
(* failed, was cancelled or died half way before.                          *)
HealthyIsSeeded == (\E r \in Runs : status[r] = "healthy") => box.seeded

(* The breaker: the machine does not loop on a red environment.  Between   *)
(* its look at the recent rows and its insert, whatever people request and *)
(* the worker finishes meanwhile, the machine never stands before a third  *)
(* automatic deployment on top of two that failed without a success since. *)
(* A run that is executed a second time may fail after the breaker has     *)
(* judged it, so the promise is about runs executed once.                  *)
BreakerHolds ==
  deciding => ~\E a, b \in Recent :
                 /\ a < b
                 /\ \A r \in {a, b} : AutoFailed(r) /\ attempts[r] <= 1
                 /\ \A q \in Recent : q > a => status[q] # "healthy"

(* The box serves at least what was asked of every healthy run: neither a  *)
(* queue that reorders requests nor a job handed out again rolls it back.  *)
BoxServesTheHealthy ==
  \A r \in Runs : status[r] = "healthy" => box.sha >= asked[r]

Held(r) ==
  \/ r \in handing
  \/ \E i \in DOMAIN queue : queue[i].run = r
  \/ job.run = r /\ ~At("idle")

Orphans == {r \in Runs : InFlight(r) /\ ~Held(r)}

(* A row that says in flight while nobody is going to finish it - which no *)
(* cancel can end and which holds back every automatic deployment - costs  *)
(* a death of its own.                                                     *)
OrphansCostDeaths == Cardinality(Orphans) <= deaths

(* A deployment in flight comes to an end, or its job or request has died. *)
EveryRunEnds == \A r \in Runs : InFlight(r) ~> (~InFlight(r) \/ r \in Orphans)

=============================================================================
