------------------------------ MODULE TaskBoard ------------------------------
(***************************************************************************)
(* What the task service promises its callers, with every request, read,   *)
(* race and sweep left out: a board of tasks, each with a status and a     *)
(* holder of its claim.                                                    *)
(*                                                                         *)
(*   - a task is filed as a draft and from then on its status moves only   *)
(*     along an edge some actor's transition map holds;                    *)
(*   - nobody holds a draft or a queued task: queueing drops the claim;    *)
(*   - a queued task is claimed as it is taken, by one user, and the claim *)
(*     then stays where it is until the task is queued again or work on it *)
(*     is resumed, whatever the review does to it;                         *)
(*   - a task that leaves the board never comes back.                      *)
(*                                                                         *)
(* A step moves any number of tasks, because the bulk promotion moves many *)
(* in one statement.  TaskLifecycle implements this specification.         *)
(***************************************************************************)
EXTENDS TaskProtocol

CONSTANTS
  Tasks,      \* ids of tasks, filed or not yet
  Users,      \* ids of users, the ones agents' keys belong to among them
  NoOne       \* the null of claimedBy

VARIABLES
  status,     \* status[t]: where t is, "unborn" before it is filed
  claimedBy   \* claimedBy[t]: who holds t

bvars == <<status, claimedBy>>

Conditions == TaskStatuses \union {"unborn", "deleted"}

BoardInit ==
  /\ status = [t \in Tasks |-> "unborn"]
  /\ claimedBy = [t \in Tasks |-> NoOne]

----------------------------------------------------------------------------
ClaimStays(t) == claimedBy'[t] = claimedBy[t]

Stay(t) == status'[t] = status[t] /\ ClaimStays(t)

File(t) == status[t] = "unborn" /\ status'[t] = "draft" /\ ClaimStays(t)

Queue(t) ==
  /\ <<status[t], status'[t]>> \in AutonomousMoves
  /\ status'[t] = "ready"
  /\ claimedBy'[t] = NoOne

Claim(t) ==
  /\ status[t] = "ready" /\ claimedBy[t] = NoOne
  /\ status'[t] = "in_progress"
  /\ claimedBy'[t] \in Users

Resume(t) ==
  /\ status[t] \in {"blocked", "changes_requested"}
  /\ status'[t] = "in_progress"
  /\ claimedBy'[t] \in Users \union {claimedBy[t]}

Advance(t) ==
  /\ <<status[t], status'[t]>> \in AutonomousMoves
  /\ status'[t] \notin {"ready", "in_progress"}
  /\ ClaimStays(t)

Erase(t) ==
  /\ status[t] \in TaskStatuses
  /\ status'[t] = "deleted"
  /\ claimedBy'[t] = NoOne

BoardStep(t) ==
  Stay(t) \/ File(t) \/ Queue(t) \/ Claim(t) \/ Resume(t) \/ Advance(t) \/ Erase(t)

BoardNext ==
  /\ status' \in [Tasks -> Conditions]
  /\ claimedBy' \in [Tasks -> Users \union {NoOne}]
  /\ \A t \in Tasks : BoardStep(t)

BoardSpec == BoardInit /\ [][BoardNext]_bvars
=============================================================================
