----------------------- MODULE TaskDependencies_proofs -----------------------
(***************************************************************************)
(* Any number of tasks, any interleaving of one request that adds edges    *)
(* with others that cancel, delete, promote and move: no knot.             *)
(***************************************************************************)
EXTENDS TaskDependencies, TLAPS

----------------------------------------------------------------------------
(* Walks and knots.                                                        *)

(* Fewer edges reach fewer tasks.                                          *)
LEMMA ReachedLess ==
  ASSUME NEW start, NEW F, NEW E \in SUBSET F
  PROVE  Reached(start, E) \subseteq Reached(start, F)
BY DEF Reached, Closed

(* A walk has seen where it starts and whatever an edge leads to from what *)
(* it has seen.                                                            *)
LEMMA ReachedIsClosed ==
  ASSUME NEW E \in SUBSET (Tasks \X Tasks), NEW start \in SUBSET Tasks
  PROVE  /\ start \subseteq Reached(start, E)
         /\ \A x, y \in Tasks : x \in Reached(start, E) /\ <<x, y>> \in E => y \in Reached(start, E)
<1>1. start \subseteq Reached(start, E)
  BY DEF Reached
<1>2. ASSUME NEW x \in Tasks, NEW y \in Tasks, x \in Reached(start, E), <<x, y>> \in E
      PROVE  y \in Reached(start, E)
  <2> SUFFICES ASSUME NEW S \in SUBSET Tasks, start \subseteq S, Closed(S, E)
               PROVE  y \in S
    BY DEF Reached
  <2>1. x \in S
    BY <1>2 DEF Reached
  <2> QED
    BY <1>2, <2>1 DEF Closed
<1> QED
  BY <1>1, <1>2

(* A graph with fewer edges has fewer knots.                               *)
LEMMA KnotLess ==
  ASSUME NEW F, NEW E \in SUBSET F, NEW S, Knot(S, E)
  PROVE  Knot(S, F)
BY DEF Knot

(* An edge the walk allows ties no knot: a group with a knot through the   *)
(* new edge would hold a smaller one, of the tasks the walk has seen.      *)
LEMMA AllowedEdgeTiesNoKnot ==
  ASSUME NEW E \in SUBSET (Tasks \X Tasks), NEW a \in Tasks, NEW b \in Tasks,
         \A S \in SUBSET Tasks : ~Knot(S, E),
         ~WouldCycle(E, a, b)
  PROVE  \A S \in SUBSET Tasks : ~Knot(S, E \union {<<a, b>>})
<1> SUFFICES ASSUME NEW S \in SUBSET Tasks, Knot(S, E \union {<<a, b>>})
             PROVE  FALSE
  OBVIOUS
<1>1. CASE a \in S /\ b \in S
  <2> DEFINE T == S \intersect Reached({b}, E)
  <2>1. b \in T
    BY <1>1, ReachedIsClosed
  <2>2. ASSUME NEW x \in T
        PROVE  \E y \in T : <<x, y>> \in E
    <3>1. x # a
      BY DEF WouldCycle
    <3>2. PICK y \in S : <<x, y>> \in E \union {<<a, b>>}
      BY DEF Knot
    <3>3. <<x, y>> \in E
      BY <3>1, <3>2
    <3>4. y \in Reached({b}, E)
      BY <3>3, ReachedIsClosed
    <3> QED
      BY <3>3, <3>4
  <2>3. Knot(T, E)
    BY <2>1, <2>2 DEF Knot
  <2> QED
    BY <2>3
<1>2. CASE ~(a \in S /\ b \in S)
  <2>1. Knot(S, E)
    BY <1>2 DEF Knot
  <2> QED
    BY <2>1
<1> QED
  BY <1>1, <1>2

----------------------------------------------------------------------------
(* Types, and what requests know.                                          *)

(* An edge of the protocol joins two statuses and takes no task back from  *)
(* deletion.                                                               *)
LEMMA MovesShape ==
  ASSUME NEW f, NEW g, <<f, g>> \in Moves
  PROVE  f \in TaskStatuses /\ g \in TaskStatuses
BY MovesAssumption DEF AutonomousMoves, AgentMoves, HumanMoves, TaskStatuses

Typed == TypeOK /\ RequestsKnow

(* Nothing is in flight at first and nothing is related.                   *)
LEMMA InitTyped == Init => Typed
BY DEF Init, Idle, Typed, TypeOK, RequestsKnow, CallStates, Conditions, TaskStatuses, Live

(* A finished request is a typed one, with nothing to know.                *)
LEMMA ReplyTyped ==
  ASSUME Typed, NEW c \in Editors, Reply(c)
  PROVE  call' \in [Editors -> CallStates] /\ RequestsKnow'
BY DEF Typed, TypeOK, RequestsKnow, Reply, Idle, CallStates

(* A waiting one is, when its fields are.                                  *)
LEMMA AwaitTyped ==
  ASSUME Typed, NEW c \in Editors, NEW pc \in {"insert", "dependents", "detach", "promote", "erase"},
         NEW t \in Tasks \union {NoTask}, NEW u \in Tasks \union {NoTask}, NEW set \in SUBSET Tasks,
         Await(c, pc, t, u, set),
         pc # "promote" => t \in Tasks,
         pc = "insert" => c \in Adders /\ u \in Tasks /\ t # u
  PROVE  call' \in [Editors -> CallStates] /\ RequestsKnow'
BY DEF Typed, TypeOK, RequestsKnow, Await, CallStates

(* Every step of a request keeps the types.                                *)
LEMMA RequestTyped ==
  ASSUME Typed, NEW c \in Editors,
         \/ \E a, b \in Tasks : AddRead(c, a, b)
         \/ AddInsert(c)
         \/ \E t \in Tasks : Cancel(c, t) \/ DeleteRead(c, t)
         \/ DependentsRead(c) \/ Detach(c)
         \/ \E targets \in SUBSET Tasks : MarkReadyRead(c, targets)
         \/ MarkReadyWrite(c) \/ DeleteWrite(c) \/ Die(c)
  PROVE  Typed'
<1>1. ASSUME NEW a \in Tasks, NEW b \in Tasks, AddRead(c, a, b)
      PROVE  Typed'
  <2>1. call' \in [Editors -> CallStates] /\ RequestsKnow'
    BY <1>1, AwaitTyped DEF AddRead
  <2> QED
    BY <1>1, <2>1 DEF AddRead, Typed, TypeOK, Live
<1>2. ASSUME AddInsert(c)
      PROVE  Typed'
  <2>1. call[c].task \in Tasks /\ call[c].dep \in Tasks /\ call[c].task # call[c].dep
    BY <1>2 DEF AddInsert, At, Typed, RequestsKnow
  <2>2. call' \in [Editors -> CallStates] /\ RequestsKnow'
    BY <1>2, ReplyTyped DEF AddInsert
  <2> QED
    BY <1>2, <2>1, <2>2 DEF AddInsert, Typed, TypeOK, Live
<1>3. ASSUME NEW t \in Tasks, Cancel(c, t)
      PROVE  Typed'
  <2>1. call' \in [Editors -> CallStates] /\ RequestsKnow'
    <3>1. Await(c, "dependents", t, NoTask, {})
      BY <1>3 DEF Cancel
    <3> QED
      BY <3>1, AwaitTyped
  <2> QED
    BY <1>3, <2>1 DEF Cancel, Typed, TypeOK, Live, Conditions, TaskStatuses
<1>4. ASSUME NEW t \in Tasks, DeleteRead(c, t)
      PROVE  Typed'
  <2>1. call' \in [Editors -> CallStates] /\ RequestsKnow'
    BY <1>4, AwaitTyped DEF DeleteRead
  <2> QED
    BY <1>4, <2>1 DEF DeleteRead, Typed, TypeOK, Live
<1>5. ASSUME DependentsRead(c)
      PROVE  Typed'
  <2> DEFINE t == call[c].task
             set == Dependents(t)
  <2>1. t \in Tasks /\ set \in SUBSET Tasks
    BY <1>5 DEF DependentsRead, At, Typed, RequestsKnow, Dependents
  <2>2. call' \in [Editors -> CallStates] /\ RequestsKnow'
    <3>1. CASE Reply(c)
      BY <3>1, ReplyTyped
    <3>2. CASE Await(c, "detach", t, NoTask, set)
      BY <2>1, <3>2, AwaitTyped
    <3> QED
      BY <1>5, <3>1, <3>2 DEF DependentsRead
  <2> QED
    BY <1>5, <2>2 DEF DependentsRead, Typed, TypeOK, Live
<1>6. ASSUME Detach(c)
      PROVE  Typed'
  <2>1. call' \in [Editors -> CallStates] /\ RequestsKnow'
    BY <1>6, ReplyTyped DEF Detach
  <2> QED
    BY <1>6, <2>1 DEF Detach, Typed, TypeOK, Live
<1>7. ASSUME NEW targets \in SUBSET Tasks, MarkReadyRead(c, targets)
      PROVE  Typed'
  <2>1. ReachableDrafts(targets) \ Blank \in SUBSET Tasks
    BY DEF ReachableDrafts, Reached
  <2>2. call' \in [Editors -> CallStates] /\ RequestsKnow'
    BY <1>7, <2>1, AwaitTyped DEF MarkReadyRead
  <2> QED
    BY <1>7, <2>2 DEF MarkReadyRead, Typed, TypeOK, Live
<1>8. ASSUME MarkReadyWrite(c)
      PROVE  Typed'
  <2>1. call' \in [Editors -> CallStates] /\ RequestsKnow'
    BY <1>8, ReplyTyped DEF MarkReadyWrite
  <2> QED
    BY <1>8, <2>1 DEF MarkReadyWrite, Typed, TypeOK, Live, Conditions, TaskStatuses
<1>9. ASSUME DeleteWrite(c)
      PROVE  Typed'
  <2>1. call' \in [Editors -> CallStates] /\ RequestsKnow'
    BY <1>9, ReplyTyped DEF DeleteWrite
  <2> QED
    BY <1>9, <2>1 DEF DeleteWrite, EdgesOf, Typed, TypeOK, Live, Conditions
<1>10. ASSUME Die(c)
       PROVE  Typed'
  <2>1. call' \in [Editors -> CallStates] /\ RequestsKnow'
    BY <1>10, ReplyTyped DEF Die
  <2> QED
    BY <1>10, <2>1 DEF Die, Typed, TypeOK, Live
<1> QED
  BY <1>1, <1>2, <1>3, <1>4, <1>5, <1>6, <1>7, <1>8, <1>9, <1>10

(* So does every step at all.                                              *)
LEMMA StepTyped ==
  ASSUME Typed, [Next]_vars
  PROVE  Typed'
<1>1. ASSUME NEW e \in edges, Remove(e)
      PROVE  Typed'
  BY <1>1 DEF Remove, Typed, TypeOK, RequestsKnow, Live
<1>2. ASSUME NEW t \in Tasks, NEW to \in TaskStatuses, Move(t, to)
      PROVE  Typed'
  BY <1>2 DEF Move, Typed, TypeOK, RequestsKnow, Live, Conditions, TaskStatuses
<1>3. ASSUME UNCHANGED vars
      PROVE  Typed'
  BY <1>3 DEF vars, Typed, TypeOK, RequestsKnow, Live
<1> QED
  BY <1>1, <1>2, <1>3, RequestTyped DEF Next

(* Every variable keeps its type, and no edge dangles.                     *)
THEOREM TypeCorrect == Spec => []TypeOK
<1>1. Typed /\ [Next]_vars => Typed'
  BY StepTyped
<1>2. Typed => TypeOK
  BY DEF Typed
<1> QED
  BY InitTyped, <1>1, <1>2, PTL DEF Spec

----------------------------------------------------------------------------
(* No knot, with one adder.                                                *)

KnotInv == Typed /\ NoKnot /\ WalksHold

(* Steps that add no edge and start no insert keep the graph free of knots *)
(* and every walk good: it saw at least the edges there are.               *)
LEMMA ShrinkKeeps ==
  ASSUME KnotInv, edges' \subseteq edges,
         \A d \in Editors : call'[d].pc = "insert" => call'[d] = call[d]
  PROVE  NoKnot' /\ WalksHold'
<1>1. NoKnot'
  BY KnotLess DEF KnotInv, NoKnot
<1>2. ASSUME NEW d \in Editors, call'[d].pc = "insert"
      PROVE  ~WouldCycle(edges', call'[d].task, call'[d].dep)
  <2>1. ~WouldCycle(edges, call'[d].task, call'[d].dep)
    BY <1>2 DEF KnotInv, WalksHold, At
  <2> QED
    BY <2>1, ReachedLess DEF WouldCycle
<1> QED
  BY <1>1, <1>2 DEF WalksHold, At

(* The insert uses a walk that still holds, and no other is in flight.     *)
LEMMA InsertKeeps ==
  ASSUME \A c, d \in Adders : c = d,
         KnotInv, NEW c \in Editors, AddInsert(c)
  PROVE  NoKnot' /\ WalksHold'
<1> DEFINE a == call[c].task
           b == call[c].dep
<1>1. /\ a \in Tasks /\ b \in Tasks /\ c \in Adders
      /\ ~WouldCycle(edges, a, b)
  BY DEF AddInsert, KnotInv, Typed, RequestsKnow, WalksHold, At
<1>2. edges \in SUBSET (Tasks \X Tasks)
  BY DEF KnotInv, Typed, TypeOK
<1>3. edges' \subseteq edges \union {<<a, b>>}
  BY DEF AddInsert
<1>4. NoKnot'
  <2>1. \A S \in SUBSET Tasks : ~Knot(S, edges \union {<<a, b>>})
    BY <1>1, <1>2, AllowedEdgeTiesNoKnot DEF KnotInv, NoKnot
  <2> QED
    BY <1>3, <2>1, KnotLess DEF NoKnot
<1>5. WalksHold'
  <2>1. ASSUME NEW d \in Editors
        PROVE  call'[d].pc # "insert"
    <3>1. CASE d = c
      BY <3>1 DEF AddInsert, Reply, Idle, KnotInv, Typed, TypeOK
    <3>2. CASE d # c
      BY <1>1, <3>2 DEF AddInsert, Reply, KnotInv, Typed, TypeOK, RequestsKnow
    <3> QED
      BY <3>1, <3>2
  <2> QED
    BY <2>1 DEF WalksHold, At
<1> QED
  BY <1>4, <1>5

(* The read that starts an insert walks the edges there are.               *)
LEMMA WalkKeeps ==
  ASSUME KnotInv, NEW c \in Editors, NEW a \in Tasks, NEW b \in Tasks, AddRead(c, a, b)
  PROVE  NoKnot' /\ WalksHold'
<1>1. edges' = edges /\ ~WouldCycle(edges, a, b)
  BY DEF AddRead
<1>2. /\ call'[c] = [pc |-> "insert", task |-> a, dep |-> b, set |-> {}]
      /\ \A d \in Editors \ {c} : call'[d] = call[d]
  BY DEF AddRead, Await, KnotInv, Typed, TypeOK
<1>3. NoKnot'
  BY <1>1 DEF KnotInv, NoKnot
<1>4. ASSUME NEW d \in Editors, call'[d].pc = "insert"
      PROVE  ~WouldCycle(edges', call'[d].task, call'[d].dep)
  BY <1>1, <1>2, <1>4 DEF KnotInv, WalksHold, At
<1> QED
  BY <1>3, <1>4 DEF WalksHold, At

(* One request adding edges at a time, whatever the others remove, cancel, *)
(* delete or promote meanwhile, never closes a cycle.                      *)
THEOREM OneAdderTiesNoKnot ==
  ASSUME \A c, d \in Adders : c = d
  PROVE  Spec => []NoKnot
<1>1. Init => KnotInv
  <2>1. Init => NoKnot /\ WalksHold
    BY DEF Init, Idle, NoKnot, Knot, WalksHold, At
  <2> QED
    BY <2>1, InitTyped DEF KnotInv
<1>2. KnotInv /\ [Next]_vars => KnotInv'
  <2> SUFFICES ASSUME KnotInv, [Next]_vars PROVE KnotInv'
    OBVIOUS
  <2>1. Typed'
    BY StepTyped DEF KnotInv
  <2>2. ASSUME NEW c \in Editors,
               \/ \E t \in Tasks : Cancel(c, t) \/ DeleteRead(c, t)
               \/ DependentsRead(c) \/ Detach(c)
               \/ \E targets \in SUBSET Tasks : MarkReadyRead(c, targets)
               \/ MarkReadyWrite(c) \/ DeleteWrite(c) \/ Die(c)
        PROVE  NoKnot' /\ WalksHold'
    <3>1. edges' \subseteq edges
      BY <2>2 DEF Cancel, DeleteRead, DependentsRead, Detach, MarkReadyRead, MarkReadyWrite,
                  DeleteWrite, Die
    <3>2. \/ Reply(c)
          \/ \E pc \in {"dependents", "detach", "promote", "erase"},
                t, u \in Tasks \union {NoTask} : \E set : Await(c, pc, t, u, set)
      BY <2>2 DEF Cancel, DeleteRead, DependentsRead, Detach, MarkReadyRead, MarkReadyWrite,
                  DeleteWrite, Die, KnotInv, Typed, RequestsKnow, At
    <3>3. \A d \in Editors : call'[d].pc = "insert" => call'[d] = call[d]
      BY <3>2 DEF Reply, Await, Idle, KnotInv, Typed, TypeOK
    <3> QED
      BY <3>1, <3>3, ShrinkKeeps
  <2>3. ASSUME \/ \E e \in edges : Remove(e)
               \/ \E t \in Tasks, to \in TaskStatuses : Move(t, to)
               \/ UNCHANGED vars
        PROVE  NoKnot' /\ WalksHold'
    <3>1. edges' \subseteq edges /\ call' = call
      BY <2>3 DEF Remove, Move, vars
    <3> QED
      BY <3>1, ShrinkKeeps
  <2> QED
    BY <2>1, <2>2, <2>3, InsertKeeps, WalkKeeps DEF Next, KnotInv
<1>3. KnotInv => NoKnot
  BY DEF KnotInv
<1> QED
  BY <1>1, <1>2, <1>3, PTL DEF Spec

----------------------------------------------------------------------------
(* What a cancellation cuts loose.                                         *)

(* Steps that cancel nothing, add no edge and leave every cancellation in  *)
(* flight where it is keep its edges in hand.                              *)
LEMMA QuietHandled ==
  ASSUME Typed, CancelledHandled, edges' \subseteq edges, excused \intersect edges' \subseteq excused',
         \A t \in Tasks : status'[t] = "cancelled" => status[t] = "cancelled",
         \A d \in Editors : At(d, "dependents") \/ At(d, "detach") => call'[d] = call[d]
  PROVE  CancelledHandled'
<1> SUFFICES ASSUME NEW e \in edges', status'[e[2]] = "cancelled"
             PROVE  Handled(e)'
  BY DEF CancelledHandled
<1>1. e \in edges /\ e[2] \in Tasks
  BY DEF Typed, TypeOK
<1>2. Handled(e)
  BY <1>1 DEF CancelledHandled
<1> QED
  BY <1>2 DEF Handled, At

(* The steps of a cancellation itself: it takes charge of the edges, then  *)
(* excuses those of settled tasks, then deletes the rest.                  *)
LEMMA CancelHandled ==
  ASSUME Typed, CancelledHandled, NEW c \in Editors,
         (\E t \in Tasks : Cancel(c, t)) \/ DependentsRead(c) \/ Detach(c) \/ Die(c)
  PROVE  CancelledHandled'
<1> SUFFICES ASSUME NEW e \in edges', status'[e[2]] = "cancelled"
             PROVE  Handled(e)'
  BY DEF CancelledHandled
<1>1. call \in [Editors -> CallStates] /\ edges \subseteq Tasks \X Tasks
  BY DEF Typed, TypeOK
<1>2. e \in edges
  BY DEF Cancel, DependentsRead, Detach, Die
<1>3. e[1] \in Tasks /\ e[2] \in Tasks /\ e = <<e[1], e[2]>>
  BY <1>1, <1>2
<1>4. ASSUME NEW t \in Tasks, Cancel(c, t)
      PROVE  Handled(e)'
  <2>1. /\ call'[c].pc = "dependents" /\ call'[c].task = t
        /\ \A d \in Editors \ {c} : call'[d] = call[d]
    BY <1>1, <1>4 DEF Cancel, Await
  <2>2. CASE e[2] = t
    BY <2>1, <2>2 DEF Handled, At
  <2>3. CASE e[2] # t
    <3>1. status[e[2]] = "cancelled"
      BY <1>3, <1>4, <2>3 DEF Cancel, Typed, TypeOK
    <3>2. Handled(e)
      BY <1>2, <3>1 DEF CancelledHandled
    <3> QED
      BY <1>4, <2>1, <3>2 DEF Cancel, Free, Handled, At
  <2> QED
    BY <2>2, <2>3
<1>5. ASSUME DependentsRead(c)
      PROVE  Handled(e)'
  <2> DEFINE t == call[c].task
  <2>1. Handled(e)
    BY <1>2, <1>5 DEF DependentsRead, CancelledHandled
  <2>2. \A d \in Editors \ {c} : call'[d] = call[d]
    BY <1>1, <1>5 DEF DependentsRead, Await, Reply
  <2>3. CASE e[2] = t /\ Settled(e[1])
    BY <1>2, <1>5, <2>3 DEF DependentsRead, Handled
  <2>4. CASE e[2] = t /\ ~Settled(e[1])
    <3>1. e[1] \in Dependents(t)
      BY <1>2, <1>3, <2>4 DEF Dependents
    <3>2. call'[c] = [pc |-> "detach", task |-> t, dep |-> NoTask, set |-> Dependents(t)]
      BY <1>1, <1>5, <3>1 DEF DependentsRead, Await
    <3> QED
      BY <2>4, <3>1, <3>2 DEF Handled, At
  <2>5. CASE e[2] # t
    BY <1>5, <2>1, <2>2, <2>5 DEF DependentsRead, Handled, At
  <2> QED
    BY <2>3, <2>4, <2>5
<1>6. ASSUME Detach(c)
      PROVE  Handled(e)'
  <2>1. Handled(e)
    BY <1>2, <1>6 DEF Detach, CancelledHandled
  <2>2. \A d \in Editors \ {c} : call'[d] = call[d]
    BY <1>1, <1>6 DEF Detach, Reply
  <2>3. ~(e[2] = call[c].task /\ e[1] \in call[c].set)
    BY <1>3, <1>6 DEF Detach
  <2>4. e \in excused => e \in excused'
    BY <1>6 DEF Detach
  <2> QED
    BY <1>6, <2>1, <2>2, <2>3, <2>4 DEF Detach, Handled, At
<1>7. ASSUME Die(c)
      PROVE  Handled(e)'
  <2>1. Handled(e)
    BY <1>2, <1>7 DEF Die, CancelledHandled
  <2>2. \A d \in Editors \ {c} : call'[d] = call[d]
    BY <1>1, <1>7 DEF Die, Reply
  <2> QED
    BY <1>2, <1>7, <2>1, <2>2 DEF Die, Handled, At
<1> QED
  BY <1>4, <1>5, <1>6, <1>7

(* An edge inserted under a cancelled task is excused as it is.            *)
LEMMA InsertHandled ==
  ASSUME Typed, CancelledHandled, NEW c \in Editors, AddInsert(c)
  PROVE  CancelledHandled'
<1> SUFFICES ASSUME NEW e \in edges', status'[e[2]] = "cancelled"
             PROVE  Handled(e)'
  BY DEF CancelledHandled
<1>1. CASE e \in edges
  <2>1. Handled(e)
    BY <1>1 DEF AddInsert, CancelledHandled
  <2> QED
    BY <2>1 DEF AddInsert, Reply, Typed, TypeOK, Handled, At
<1>2. CASE e \notin edges
  BY <1>2 DEF AddInsert, Handled
<1> QED
  BY <1>1, <1>2

(* Whatever else goes on, a cancellation that ends leaves no task in play  *)
(* waiting for the cancelled one, but for the edges it could not see.      *)
THEOREM CancelDetaches == Spec => []CancelCutsLoose
<1>1. Init => Typed /\ CancelledHandled
  BY InitTyped DEF Init, CancelledHandled
<1>2. Typed /\ CancelledHandled /\ [Next]_vars => Typed' /\ CancelledHandled'
  <2> SUFFICES ASSUME Typed, CancelledHandled, [Next]_vars
               PROVE  CancelledHandled'
    BY StepTyped
  <2>1. ASSUME NEW c \in Editors,
               \/ \E a, b \in Tasks : AddRead(c, a, b)
               \/ \E t \in Tasks : DeleteRead(c, t)
               \/ \E targets \in SUBSET Tasks : MarkReadyRead(c, targets)
               \/ MarkReadyWrite(c) \/ DeleteWrite(c)
        PROVE  CancelledHandled'
    <3>1. edges' \subseteq edges /\ excused \intersect edges' \subseteq excused'
      BY <2>1 DEF AddRead, DeleteRead, MarkReadyRead, MarkReadyWrite, DeleteWrite
    <3>2. \A t \in Tasks : status'[t] = "cancelled" => status[t] = "cancelled"
      BY <2>1 DEF AddRead, DeleteRead, MarkReadyRead, MarkReadyWrite, DeleteWrite, Typed, TypeOK
    <3>3. ~At(c, "dependents") /\ ~At(c, "detach")
      BY <2>1 DEF AddRead, DeleteRead, MarkReadyRead, MarkReadyWrite, DeleteWrite, Free, At
    <3>4. \A d \in Editors \ {c} : call'[d] = call[d]
      BY <2>1 DEF AddRead, DeleteRead, MarkReadyRead, MarkReadyWrite, DeleteWrite, Await, Reply,
                  Typed, TypeOK
    <3> QED
      BY <3>1, <3>2, <3>3, <3>4, QuietHandled
  <2>2. ASSUME \/ \E e \in edges : Remove(e)
               \/ \E t \in Tasks, to \in TaskStatuses : Move(t, to)
               \/ UNCHANGED vars
        PROVE  CancelledHandled'
    <3>1. /\ edges' \subseteq edges /\ excused \intersect edges' \subseteq excused'
          /\ call' = call
      BY <2>2 DEF Remove, Move, vars
    <3>2. \A t \in Tasks : status'[t] = "cancelled" => status[t] = "cancelled"
      BY <2>2 DEF Remove, Move, vars, Typed, TypeOK
    <3> QED
      BY <3>1, <3>2, QuietHandled
  <2> QED
    BY <2>1, <2>2, CancelHandled, InsertHandled DEF Next
<1>3. CancelledHandled => CancelCutsLoose
  BY DEF CancelledHandled, CancelCutsLoose, Handled, At
<1> QED
  BY <1>1, <1>2, <1>3, PTL DEF Spec

----------------------------------------------------------------------------
(* What a bulk promotion takes along.                                      *)

(* The set a promotion names holds, with a task, every specified draft the *)
(* task waits for, however long the chain of drafts to it is.              *)
THEOREM PromotionIsClosed == Spec => TakesPrerequisitesAlong
<1> DEFINE Along ==
      \A c \in Editors :
        At(c, "idle") /\ call'[c].pc = "promote" =>
          \A e \in edges :
            e[1] \in call'[c].set /\ e[2] \in Drafts \ Blank => e[2] \in call'[c].set
<1>1. Typed /\ [Next]_vars => [Along]_vars
  <2> SUFFICES ASSUME Typed, Next, NEW c \in Editors, At(c, "idle"), call'[c].pc = "promote",
                      NEW e \in edges, e[1] \in call'[c].set, e[2] \in Drafts \ Blank
               PROVE  e[2] \in call'[c].set
    OBVIOUS
  <2>1. call \in [Editors -> CallStates] /\ edges \subseteq Tasks \X Tasks
    BY DEF Typed, TypeOK
  <2>2. PICK targets \in SUBSET Tasks : MarkReadyRead(c, targets)
    <3>1. call'[c] # call[c]
      BY DEF At
    <3>2. ASSUME NEW d \in Editors, d # c, \A x \in Editors \ {d} : call'[x] = call[x]
          PROVE  FALSE
      BY <3>1, <3>2
    <3>3. ASSUME NEW d \in Editors,
                 \/ \E a, b \in Tasks : AddRead(d, a, b)
                 \/ AddInsert(d)
                 \/ \E t \in Tasks : Cancel(d, t) \/ DeleteRead(d, t)
                 \/ DependentsRead(d) \/ Detach(d)
                 \/ MarkReadyWrite(d) \/ DeleteWrite(d) \/ Die(d)
          PROVE  FALSE
      <4>1. \/ Reply(d)
            \/ \E pc \in {"insert", "dependents", "detach", "erase"},
                  t, u \in Tasks \union {NoTask} : \E set : Await(d, pc, t, u, set)
        BY <3>3 DEF AddRead, AddInsert, Cancel, DeleteRead, DependentsRead, Detach,
                    MarkReadyWrite, DeleteWrite, Die, At, Typed, RequestsKnow
      <4>2. \A x \in Editors \ {d} : call'[x] = call[x]
        BY <2>1, <4>1 DEF Reply, Await
      <4>3. call'[d].pc # "promote"
        BY <2>1, <4>1 DEF Reply, Await, Idle
      <4> QED
        BY <3>2, <4>2, <4>3
    <3>4. ASSUME NEW d \in Editors, d # c, NEW targets \in SUBSET Tasks, MarkReadyRead(d, targets)
          PROVE  FALSE
      BY <2>1, <3>2, <3>4 DEF MarkReadyRead, Await
    <3>5. ASSUME \/ \E x \in edges : Remove(x)
                 \/ \E t \in Tasks, to \in TaskStatuses : Move(t, to)
          PROVE  FALSE
      BY <3>1, <3>5 DEF Remove, Move
    <3> QED
      BY <3>3, <3>4, <3>5 DEF Next
  <2> DEFINE E == {x \in edges : x[2] \in Drafts}
  <2>3. call'[c].set = Reached(targets, E) \ Blank
    BY <2>1, <2>2 DEF MarkReadyRead, Await, ReachableDrafts
  <2>4. e \in E /\ e = <<e[1], e[2]>> /\ e[1] \in Tasks /\ e[2] \in Tasks
    BY <2>1
  <2>5. E \in SUBSET (Tasks \X Tasks) /\ targets \in SUBSET Tasks
    BY <2>1
  <2>6. e[2] \in Reached(targets, E)
    BY <2>3, <2>4, <2>5, ReachedIsClosed
  <2> QED
    BY <2>3, <2>6
<1>2. Typed /\ [Next]_vars => Typed'
  BY StepTyped
<1> QED
  BY InitTyped, <1>1, <1>2, PTL DEF Spec, TakesPrerequisitesAlong
=============================================================================
