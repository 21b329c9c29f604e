-------------------------- MODULE DeploymentRecord --------------------------
(***************************************************************************)
(* What the deployment history of an environment promises its readers,     *)
(* whatever the api, the queue and the worker do to keep it: a run is      *)
(* requested once, executed at most twice (the queue redelivers a job      *)
(* once), moves forward within an execution, is cancelled only when        *)
(* somebody asked, and stays healthy once it is.  The rows disappear only  *)
(* together, with their environment.                                       *)
(***************************************************************************)
EXTENDS Naturals

CONSTANT Runs   \* the deployments of one environment

VARIABLES
  status,     \* deployment.status, or "unborn", or "gone" with the environment
  stopAsked,  \* deployment.cancelRequested
  attempts    \* how often the worker has taken the run up

InFlightStatuses == {"queued", "building", "deploying"}
SettledStatuses == {"healthy", "failed", "cancelled"}
RunStatuses == InFlightStatuses \union SettledStatuses

InFlight(r) == status[r] \in InFlightStatuses

Init ==
  /\ status = [r \in Runs |-> "unborn"]
  /\ stopAsked = [r \in Runs |-> FALSE]
  /\ attempts = [r \in Runs |-> 0]

Moves(r, to) == status' = [status EXCEPT ![r] = to]

Request(r) ==
  /\ status[r] = "unborn"
  /\ Moves(r, "queued")
  /\ UNCHANGED <<stopAsked, attempts>>

(* A person stops a run in flight; the flag may reach a run that has       *)
(* settled by then.                                                        *)
Stop(r) ==
  /\ status[r] \in RunStatuses
  /\ stopAsked' = [stopAsked EXCEPT ![r] = TRUE]
  /\ UNCHANGED <<status, attempts>>

(* The worker takes a run up; it may take up a run that failed or was      *)
(* cancelled again, when it died before it could report the job done.      *)
TakeUp(r) ==
  /\ status[r] \in RunStatuses \ {"healthy"}
  /\ attempts[r] < 2
  /\ attempts' = [attempts EXCEPT ![r] = @ + 1]
  /\ UNCHANGED <<status, stopAsked>>

Execute(r) ==
  /\ status[r] \in RunStatuses \ {"healthy"}
  /\ attempts[r] > 0
  /\ Moves(r, "building")
  /\ UNCHANGED <<stopAsked, attempts>>

Roll(r) ==
  /\ status[r] = "building"
  /\ Moves(r, "deploying")
  /\ UNCHANGED <<stopAsked, attempts>>

Settle(r) ==
  /\ \/ status[r] = "deploying" /\ Moves(r, "healthy")
     \/ status[r] \in RunStatuses \ {"healthy"} /\ attempts[r] > 0 /\ Moves(r, "failed")
     \/ status[r] \in RunStatuses \ {"healthy"} /\ stopAsked[r] /\ Moves(r, "cancelled")
  /\ UNCHANGED <<stopAsked, attempts>>

Vanish ==
  /\ status' = [r \in Runs |-> IF status[r] = "unborn" THEN "unborn" ELSE "gone"]
  /\ stopAsked' = [r \in Runs |-> FALSE]
  /\ attempts' = [r \in Runs |-> 0]

Next ==
  \/ \E r \in Runs : Request(r) \/ Stop(r) \/ TakeUp(r) \/ Execute(r) \/ Roll(r) \/ Settle(r)
  \/ Vanish

Spec == Init /\ [][Next]_<<status, stopAsked, attempts>>
=============================================================================
