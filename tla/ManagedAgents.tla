--------------------------- MODULE ManagedAgents ---------------------------
(***************************************************************************)
(* One managed agent: a row the api, the worker and the agent itself write *)
(* to, and a tmux session on a server that runs it.  People start and stop *)
(* it through a queue; the worker carries the requests out over ssh; every *)
(* MCP call of the agent stamps the row; a sweep compares row and session. *)
(*                                                                         *)
(* All of them write the row by its id, whatever it says by then, each     *)
(* after a remote command, so a stamp or the verdict of the sweep may land *)
(* on an agent that was stopped or started meanwhile.                      *)
(***************************************************************************)
EXTENDS Naturals, Sequences

CONSTANTS
  MaxClicks, \* bound: how often a person starts or stops the agent
  MaxDeaths, \* bound: how many processes die between two steps
  MaxFails,  \* bound: how many remote commands fail
  MaxLosses  \* bound: how often a runner ends unasked or its server is deleted

Clicks == 1 .. MaxClicks

VARIABLES
  status,   \* agent.status
  hosted,   \* agent.serverId is set: its server has not been deleted
  session,  \* the box: no session, a live CLI in it, its dead pane, or vanished
  wish,     \* what each click asked for, "none" before it
  handing,  \* the starts that have written the row and not enqueued their job
  last,     \* history: the click enqueued last, 0 before the first
  outcome,  \* history: what became of each click
  queue,    \* the jobs waiting: the click, and whether it is handed out again
  job,      \* the job the worker executes
  touch,    \* a stamp under way: the status it is going to write, or "none"
  sweep,    \* the sweep: "idle", "asks" the box, "writes" that the session is gone
  deaths, fails, losses   \* counters, for the bounds

asking == <<wish, handing, last>>
bounds == <<deaths, fails, losses>>
vars == <<status, hosted, session, asking, outcome, queue, job, touch, sweep, bounds>>

Presence == {"idle", "working"}
Up == {"live", "exited"}   \* tmux has-session

Nobody == [pc |-> "idle", click |-> 0, again |-> FALSE, writes |-> "none"]

(* createManaged parks the agent stopped.                                  *)
Init ==
  /\ status = "stopped"
  /\ hosted = TRUE
  /\ session = "none"
  /\ wish = [c \in Clicks |-> "none"]
  /\ handing = {}
  /\ last = 0
  /\ outcome = [c \in Clicks |-> "open"]
  /\ queue = <<>>
  /\ job = Nobody
  /\ touch = "none"
  /\ sweep = "idle"
  /\ deaths = 0 /\ fails = 0 /\ losses = 0

----------------------------------------------------------------------------
(* The api.                                                                *)

EnqueuedOnce(c) ==
  LET action == IF c \in handing THEN "start" ELSE "stop" IN
    IF \E i \in DOMAIN queue : wish[queue[i].click] = action
    THEN queue ELSE Append(queue, [click |-> c, again |-> FALSE])

(* The producer's name for a job is not its id: requests never collapse.   *)
Enqueued(c) == Append(queue, [click |-> c, again |-> FALSE])

IsNext(c) == wish[c] = "none" /\ \A b \in Clicks : b < c => wish[b] # "none"

(* start says so in the row first, whatever the row says, and then asks    *)
(* the worker.                                                             *)
Start(c) ==
  /\ IsNext(c)
  /\ wish' = [wish EXCEPT ![c] = "start"]
  /\ handing' = handing \union {c}
  /\ status' = "starting"
  /\ UNCHANGED <<hosted, session, last, outcome, queue, job, touch, sweep, bounds>>

EnqueueStart(c) ==
  /\ c \in handing
  /\ handing' = handing \ {c}
  /\ last' = c
  /\ queue' = Enqueued(c)
  /\ UNCHANGED <<wish, status, hosted, session, outcome, job, touch, sweep, bounds>>

(* stop leaves the row to the worker.                                      *)
Stop(c) ==
  /\ IsNext(c)
  /\ wish' = [wish EXCEPT ![c] = "stop"]
  /\ last' = c
  /\ queue' = Enqueued(c)
  /\ UNCHANGED <<status, hosted, session, handing, outcome, job, touch, sweep, bounds>>

(* touch, of any MCP call: it reads the claim of the agent's user, which   *)
(* the task board changes at any time, and stamps the row by its id.  One  *)
(* stamp at a time is under way.                                           *)
TouchReads ==
  /\ session = "live" /\ touch = "none"
  /\ touch' \in Presence
  /\ UNCHANGED <<status, hosted, session, asking, outcome, queue, job, sweep, bounds>>

TouchStamps ==
  /\ touch # "none"
  /\ status' = touch
  /\ touch' = "none"
  /\ UNCHANGED <<hosted, session, asking, outcome, queue, job, sweep, bounds>>

(* Deleting the server asks nothing of its agents: the foreign key is set  *)
(* to null.                                                                *)
DeleteServer ==
  /\ hosted /\ losses < MaxLosses
  /\ hosted' = FALSE /\ losses' = losses + 1
  /\ UNCHANGED <<status, session, asking, outcome, queue, job, touch, sweep, deaths, fails>>

----------------------------------------------------------------------------
(* The lifecycle worker.  job.pc is what process does next.                *)

At(pc) == job.pc = pc

First == [start |-> "ensure", stop |-> "kill"]

Ends(how) == outcome' = [outcome EXCEPT ![job.click] = how]

(* The row is read with its server; without one nothing is done.           *)
TakeJob ==
  /\ At("idle") /\ queue # <<>>
  /\ queue' = Tail(queue)
  /\ LET next == Head(queue) IN
       IF hosted
       THEN /\ job' = [pc |-> First[wish[next.click]], click |-> next.click,
                       again |-> next.again, writes |-> "none"]
            /\ UNCHANGED outcome
       ELSE /\ outcome' = [outcome EXCEPT ![next.click] = "lost"]
            /\ UNCHANGED job
  /\ UNCHANGED <<status, hosted, session, asking, touch, sweep, bounds>>

restOfJob == <<hosted, asking, queue, touch, sweep, deaths, losses>>

WillWrite(to) == job' = [job EXCEPT !.pc = "write", !.writes = to]

(* ensure-runner probes the CLI's login.                                   *)
Ensure ==
  /\ At("ensure")
  /\ \/ job' = [job EXCEPT !.pc = "launch"]
     \/ WillWrite("auth_needed")
  /\ UNCHANGED <<status, session, outcome, fails, restOfJob>>

(* runner-start leaves a session alone that is there, dead or alive.       *)
Launched == IF session \in Up THEN session ELSE "live"

Launch ==
  /\ At("launch")
  /\ session' = Launched
  /\ WillWrite("idle")
  /\ UNCHANGED <<status, outcome, fails, restOfJob>>

(* runner-stop: absence is success.                                        *)
Kill ==
  /\ At("kill")
  /\ session' = "none"
  /\ WillWrite("stopped")
  /\ UNCHANGED <<status, outcome, fails, restOfJob>>

CommandFailsSilently ==
  /\ job.pc \in {"ensure", "launch", "kill"}
  /\ fails < MaxFails /\ fails' = fails + 1
  /\ \/ UNCHANGED session
     \/ At("launch") /\ session' = Launched
     \/ At("kill") /\ session' = "none"
  /\ WillWrite(IF At("kill") THEN "stopped" ELSE "error")
  /\ UNCHANGED <<status, outcome, restOfJob>>

(* A command may fail before or after it has done its work.                *)
CommandFails ==
  /\ job.pc \in {"ensure", "launch", "kill"}
  /\ fails < MaxFails /\ fails' = fails + 1
  /\ \/ UNCHANGED session
     \/ At("launch") /\ session' = Launched
     \/ At("kill") /\ session' = "none"
  /\ WillWrite("error")
  /\ UNCHANGED <<status, outcome, restOfJob>>

(* patch, by id; then the job is done.                                     *)
Patch ==
  /\ At("write")
  /\ status' = job.writes
  /\ Ends(IF job.writes \in {"idle", "stopped"} THEN "done" ELSE "failed")
  /\ job' = Nobody
  /\ UNCHANGED <<session, fails, restOfJob>>

----------------------------------------------------------------------------
(* pollManaged.                                                            *)

PolledAtWork == {"working"}
Polled == {"idle", "working"}

SweepSelects ==
  /\ sweep = "idle"
  /\ hosted /\ status \in Polled
  /\ sweep' = "asks"
  /\ UNCHANGED <<status, hosted, session, asking, outcome, queue, job, touch, bounds>>

(* A poll that fails is tried again at the next tick.                      *)
SweepAsks ==
  /\ sweep = "asks"
  /\ \/ sweep' = (IF session \in Up THEN "idle" ELSE "writes") /\ UNCHANGED fails
     \/ sweep' = "idle" /\ fails < MaxFails /\ fails' = fails + 1
  /\ UNCHANGED <<status, hosted, session, asking, outcome, queue, job, touch, deaths, losses>>

SweepWrites ==
  /\ sweep = "writes"
  /\ status' = "error"
  /\ sweep' = "idle"
  /\ UNCHANGED <<hosted, session, asking, outcome, queue, job, touch, bounds>>

----------------------------------------------------------------------------
(* The box, and deaths.                                                    *)

(* The CLI ends; its pane is kept for a day.                               *)
CliExits ==
  /\ session = "live" /\ losses < MaxLosses
  /\ session' = "exited" /\ losses' = losses + 1
  /\ UNCHANGED <<status, hosted, asking, outcome, queue, job, touch, sweep, deaths, fails>>

(* The day is over; or the box restarts, or somebody kills the session.    *)
SessionVanishes ==
  /\ \/ session = "exited" /\ UNCHANGED losses
     \/ session = "live" /\ losses < MaxLosses /\ losses' = losses + 1
  /\ session' = "gone"
  /\ UNCHANGED <<status, hosted, asking, outcome, queue, job, touch, sweep, deaths, fails>>

Dies == deaths < MaxDeaths /\ deaths' = deaths + 1

(* The request of a start, between its two halves.                         *)
HandoverDies(c) ==
  /\ c \in handing /\ Dies
  /\ handing' = handing \ {c}
  /\ outcome' = [outcome EXCEPT ![c] = "lost"]
  /\ UNCHANGED <<status, hosted, session, wish, last, queue, job, touch, sweep, fails, losses>>

AgainAtTheBack == Append(queue, [click |-> job.click, again |-> TRUE])
Again == <<[click |-> job.click, again |-> TRUE]>> \o queue

(* A stalled job comes back to the front of the queue, once.               *)
WorkerDies ==
  /\ ~At("idle") /\ Dies
  /\ IF job.again
     THEN Ends("lost") /\ UNCHANGED queue
     ELSE queue' = Again /\ UNCHANGED outcome
  /\ job' = Nobody
  /\ UNCHANGED <<status, hosted, session, asking, touch, sweep, fails, losses>>

SweepDies ==
  /\ sweep # "idle" /\ Dies
  /\ sweep' = "idle"
  /\ UNCHANGED <<status, hosted, session, asking, outcome, queue, job, touch, fails, losses>>

WorkerStep == TakeJob \/ Ensure \/ Launch \/ Kill \/ CommandFails \/ Patch
SweepStep == SweepSelects \/ SweepAsks \/ SweepWrites

Next ==
  \/ \E c \in Clicks : Start(c) \/ EnqueueStart(c) \/ Stop(c) \/ HandoverDies(c)
  \/ TouchReads \/ TouchStamps \/ DeleteServer
  \/ WorkerStep \/ SweepStep
  \/ CliExits \/ SessionVanishes \/ WorkerDies \/ SweepDies

Spec == Init /\ [][Next]_vars

(* The worker goes on, the sweep comes back, a request ends; people, the   *)
(* agent and the box owe nothing.                                          *)
FairSpec ==
  /\ Spec
  /\ WF_vars(WorkerStep)
  /\ WF_vars(SweepStep)
  /\ \A c \in Clicks : WF_vars(EnqueueStart(c))

----------------------------------------------------------------------------
(* Properties.                                                             *)

Statuses == Presence \union {"stopped", "starting", "auth_needed", "error"}

TypeOK ==
  /\ status \in Statuses
  /\ hosted \in BOOLEAN
  /\ session \in Up \union {"none", "gone"}
  /\ wish \in [Clicks -> {"none", "start", "stop"}]
  /\ handing \subseteq Clicks
  /\ last \in 0 .. MaxClicks
  /\ outcome \in [Clicks -> {"open", "done", "failed", "lost"}]
  /\ queue \in Seq([click : Clicks, again : BOOLEAN])
  /\ job \in [pc : {"idle", "ensure", "launch", "kill", "write"}, click : 0 .. MaxClicks,
              again : BOOLEAN, writes : Statuses \union {"none"}]
  /\ touch \in Presence \union {"none"}
  /\ sweep \in {"idle", "asks", "writes"}
  /\ deaths \in 0 .. MaxDeaths /\ fails \in 0 .. MaxFails /\ losses \in 0 .. MaxLosses

(* The start c is queued or executed, or it was given up half way.         *)
StartHangs(c) ==
  /\ wish[c] = "start"
  /\ \/ job.click = c
     \/ \E i \in DOMAIN queue : queue[i].click = c
     \/ outcome[c] = "lost"

(* An agent its row calls stopped holds no session on the box, whatever    *)
(* stamps, sweeps and redeliveries are under way; unless a start is just   *)
(* being carried out, or died on the way and was given up.                 *)
StoppedIsGone ==
  status = "stopped" /\ session \in Up => \E c \in Clicks : StartHangs(c)

Quiet == queue = <<>> /\ At("idle")

(* The last request decides: once the queue has run dry, what the person   *)
(* who asked last wanted is what the box shows, although requests overtake *)
(* each other on their way, commands are repeated, and a job may be handed *)
(* out again after later ones were queued; unless that request failed,     *)
(* which the row says, or was lost.                                        *)
LastWordHolds ==
  Quiet /\ last # 0 /\ outcome[last] \notin {"failed", "lost"} =>
    session \in (IF wish[last] = "start" THEN Up \union {"gone"} ELSE {"none"})

Intact == hosted /\ \A c \in Clicks : outcome[c] # "lost"
Awaited == status = "starting" /\ Intact
Vanished == status \in Presence /\ session \notin Up /\ hosted

(* The row does not stay wrong.  A start comes to an answer unless its     *)
(* request or job was given up; and an agent whose session has gone, be it *)
(* killed from outside, be it that a late stamp hides a stop, is found out *)
(* by the sweep.                                                           *)
Settles == []<>~Awaited /\ []<>~Vanished

=============================================================================
