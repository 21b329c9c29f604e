-------------------------- MODULE TaskDependencies --------------------------
(***************************************************************************)
(* The prerequisite edges between the tasks of one project: who adds and   *)
(* removes them, what cancelling a task does to the ones that wait for it, *)
(* and which drafts a bulk promotion takes along.                          *)
(*                                                                         *)
(* An edge <<a, b>> says that a waits for b.  As in TaskLifecycle a request*)
(* is a small process, and nothing keeps two of them apart: adding an edge *)
(* walks a copy of the graph and inserts later, cancelling moves the task, *)
(* then reads its dependents, then detaches them.                          *)
(*                                                                         *)
(* A status change other than a cancellation is one step here, because its *)
(* compare-and-swap makes it one (TaskLifecycle).  Claims, notes and specs *)
(* are left to that module.                                                *)
(***************************************************************************)
EXTENDS TaskProtocol

CONSTANTS
  Tasks,     \* ids of tasks
  NoTask,    \* null, for a task
  Blank,     \* the tasks whose context or criteria are missing
  Editors,   \* requests that may be in flight
  Adders,    \* those of them that may be adding an edge
  Mortals,   \* those of them that may die half way
  Moves      \* the edges of the protocol the instance uses

ASSUME EditorsAssumption == Adders \union Mortals \subseteq Editors
ASSUME MovesAssumption == Moves \subseteq AutonomousMoves
ASSUME TasksAssumption == NoTask \notin Tasks

VARIABLES
  status,    \* task.status, or "deleted"
  edges,     \* the rows of task_dependency
  excused,   \* history: edges the cancellation of their prerequisite could not see
  call       \* call[c]: the request c has in flight

vars == <<status, edges, excused, call>>

Conditions == TaskStatuses \union {"deleted"}

Idle == [pc |-> "idle", task |-> NoTask, dep |-> NoTask, set |-> {}]

(* A project whose tasks are filed and not yet related.                    *)
Init ==
  /\ status = [t \in Tasks |-> "draft"]
  /\ edges = {}
  /\ excused = {}
  /\ call = [c \in Editors |-> Idle]

----------------------------------------------------------------------------
Live(t) == status[t] # "deleted"

Settled(t) == status[t] \in TerminalStatuses

Free(c) == call[c].pc = "idle"

At(c, pc) == call[c].pc = pc

Reply(c) == call' = [call EXCEPT ![c] = Idle]

Await(c, pc, t, u, set) ==
  call' = [call EXCEPT ![c] = [pc |-> pc, task |-> t, dep |-> u, set |-> set]]

(* What a walk along E from the nodes of start has seen when it stops: the *)
(* least set that holds start and follows every edge.                      *)
Closed(S, E) == \A e \in E : e[1] \in S => e[2] \in S

Reached(start, E) ==
  {x \in Tasks : \A S \in SUBSET Tasks : start \subseteq S /\ Closed(S, E) => x \in S}

----------------------------------------------------------------------------
(* addDependency and removeDependency.                                     *)

ShortWalk(E, a, b) == <<b, a>> \in E
WouldCycle(E, a, b) == a \in Reached({b}, E)

AddRead(c, a, b) ==
  /\ Free(c) /\ c \in Adders
  /\ Live(a) /\ Live(b)
  /\ a # b /\ ~WouldCycle(edges, a, b)
  /\ Await(c, "insert", a, b, {})
  /\ UNCHANGED <<status, edges, excused>>

(* The foreign keys refuse an edge to or from a task that is gone.         *)
AddInsert(c) ==
  LET e == <<call[c].task, call[c].dep>>
      new == IF Live(e[1]) /\ Live(e[2]) THEN {e} ELSE {}
  IN  /\ At(c, "insert")
      /\ edges' = edges \union new
      /\ excused' = excused \union {x \in new : status[x[2]] = "cancelled"}
      /\ Reply(c)
      /\ UNCHANGED status

Remove(e) ==
  /\ e \in edges
  /\ edges' = edges \ {e}
  /\ excused' = excused \ {e}
  /\ UNCHANGED <<status, call>>

----------------------------------------------------------------------------
(* Status changes; the cancellation's fan-out.                             *)

Move(t, to) ==
  /\ <<status[t], to>> \in Moves /\ to # "cancelled"
  /\ status[t] = "draft" /\ to = "ready" => t \notin Blank
  /\ status' = [status EXCEPT ![t] = to]
  /\ UNCHANGED <<edges, excused, call>>

Cancel(c, t) ==
  /\ Free(c)
  /\ <<status[t], "cancelled">> \in Moves
  /\ status' = [status EXCEPT ![t] = "cancelled"]
  /\ Await(c, "dependents", t, NoTask, {})
  /\ UNCHANGED <<edges, excused>>

(* findNonTerminalDependents.                                              *)
DependentsInQueue(t) == {a \in Tasks : <<a, t>> \in edges /\ status[a] = "ready"}
Dependents(t) == {a \in Tasks : <<a, t>> \in edges /\ ~Settled(a)}

DependentsRead(c) ==
  LET t == call[c].task
  IN  /\ At(c, "dependents")
      /\ IF Dependents(t) = {} THEN Reply(c) ELSE Await(c, "detach", t, NoTask, Dependents(t))
      /\ excused' = excused \union {e \in edges : e[2] = t /\ Settled(e[1])}
      /\ UNCHANGED <<status, edges>>

(* detachDependents.                                                       *)
Detach(c) ==
  LET gone == {<<a, call[c].task>> : a \in call[c].set}
  IN  /\ At(c, "detach")
      /\ edges' = edges \ gone
      /\ excused' = excused \ gone
      /\ Reply(c)
      /\ UNCHANGED status

----------------------------------------------------------------------------
(* markReady: the drafts of the requested scope and every draft they wait  *)
(* for, through drafts, as far as they are specified.                      *)

Drafts == {t \in Tasks : status[t] = "draft"}

DirectTargets(targets) == targets
ReachableDrafts(targets) == Reached(targets, {e \in edges : e[2] \in Drafts})

MarkReadyRead(c, targets) ==
  /\ Free(c)
  /\ targets \subseteq Drafts /\ targets # {}
  /\ Await(c, "promote", NoTask, NoTask, ReachableDrafts(targets) \ Blank)
  /\ UNCHANGED <<status, edges, excused>>

(* bulkPromoteDraftsToReady.                                               *)
MarkReadyWrite(c) ==
  /\ At(c, "promote")
  /\ status' = [t \in Tasks |-> IF t \in call[c].set \intersect Drafts THEN "ready" ELSE status[t]]
  /\ Reply(c)
  /\ UNCHANGED <<edges, excused>>

----------------------------------------------------------------------------
(* delete: only a draft, by the read; its edges go with it, both ways.     *)

DeleteRead(c, t) ==
  /\ Free(c)
  /\ status[t] = "draft"
  /\ Await(c, "erase", t, NoTask, {})
  /\ UNCHANGED <<status, edges, excused>>

EdgesOf(t) == {e \in edges : t \in {e[1], e[2]}}

DeleteWrite(c) ==
  LET t == call[c].task
  IN  /\ At(c, "erase")
      /\ status' = [status EXCEPT ![t] = "deleted"]
      /\ edges' = edges \ EdgesOf(t)
      /\ excused' = excused \ EdgesOf(t)
      /\ Reply(c)

----------------------------------------------------------------------------
(* The api's process dies with the request; a cancellation it had not      *)
(* finished leaves the edges to the cancelled task behind.                 *)
Die(c) ==
  /\ c \in Mortals /\ ~Free(c)
  /\ excused' = excused \union
       IF call[c].pc \in {"dependents", "detach"}
       THEN {e \in edges : e[2] = call[c].task} ELSE {}
  /\ Reply(c)
  /\ UNCHANGED <<status, edges>>

Next ==
  \/ \E c \in Editors :
       \/ \E a, b \in Tasks : AddRead(c, a, b)
       \/ AddInsert(c)
       \/ \E t \in Tasks : Cancel(c, t) \/ DeleteRead(c, t)
       \/ DependentsRead(c) \/ Detach(c)
       \/ \E targets \in SUBSET Tasks : MarkReadyRead(c, targets)
       \/ MarkReadyWrite(c) \/ DeleteWrite(c) \/ Die(c)
  \/ \E e \in edges : Remove(e)
  \/ \E t \in Tasks, to \in TaskStatuses : Move(t, to)

Spec == Init /\ [][Next]_vars

----------------------------------------------------------------------------
(* Properties.                                                             *)

CallStates ==
  [pc : {"idle", "insert", "dependents", "detach", "promote", "erase"},
   task : Tasks \union {NoTask}, dep : Tasks \union {NoTask}, set : SUBSET Tasks]

(* Every variable keeps its type, and an edge joins two tasks that exist.  *)
TypeOK ==
  /\ status \in [Tasks -> Conditions]
  /\ edges \subseteq {e \in Tasks \X Tasks : Live(e[1]) /\ Live(e[2]) /\ e[1] # e[2]}
  /\ excused \subseteq edges
  /\ call \in [Editors -> CallStates]

(* No tasks wait for each other in a knot: in every group of tasks there   *)
(* is one that waits for none of the group.  A knot would stay out of the  *)
(* agents' queue for ever.  One walk and insert at a time keeps this, with *)
(* edges removed, detached and cascaded away while the walk's copy ages;   *)
(* two at a time do not.                                                   *)
Knot(S, E) == S # {} /\ \A a \in S : \E b \in S : <<a, b>> \in E

NoKnot == \A S \in SUBSET Tasks : ~Knot(S, edges)

(* Cancelling cuts loose every task that was waiting and still in play     *)
(* when the cancellation looked: what it leaves is an edge of a settled    *)
(* task, one added since, or one whose cancellation died half way.         *)
CancelCutsLoose ==
  \A e \in edges :
    status[e[2]] = "cancelled" /\ ~Settled(e[1]) =>
      \/ e \in excused
      \/ \E c \in Editors : call[c].pc \in {"dependents", "detach"} /\ call[c].task = e[2]

(* A bulk promotion names no task without naming every specified draft it  *)
(* waits for: the tasks it queues are not stranded behind a draft, which   *)
(* nothing but a human would ever move.                                    *)
TakesPrerequisitesAlong ==
  [][\A c \in Editors :
       At(c, "idle") /\ call'[c].pc = "promote" =>
         \A e \in edges :
           e[1] \in call'[c].set /\ e[2] \in Drafts \ Blank => e[2] \in call'[c].set]_vars

----------------------------------------------------------------------------
(* Why the invariants above hold.                                          *)

(* What a request in flight knows of the tasks it has read.                *)
RequestsKnow ==
  \A c \in Editors :
    LET k == call[c]
    IN  /\ k.pc \notin {"idle", "promote"} => k.task \in Tasks
        /\ k.pc = "insert" => c \in Adders /\ k.dep \in Tasks /\ k.task # k.dep

(* The walk a request has done still holds when it inserts.                *)
WalksHold ==
  \A c \in Editors : At(c, "insert") => ~WouldCycle(edges, call[c].task, call[c].dep)

(* An edge to a cancelled task is excused, about to be looked at, or about *)
(* to go.                                                                  *)
Handled(e) ==
  \/ e \in excused
  \/ \E c \in Editors :
       /\ call[c].task = e[2]
       /\ At(c, "dependents") \/ (At(c, "detach") /\ e[1] \in call[c].set)

CancelledHandled == \A e \in edges : status[e[2]] = "cancelled" => Handled(e)
=============================================================================
