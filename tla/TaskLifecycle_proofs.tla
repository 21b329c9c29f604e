------------------------ MODULE TaskLifecycle_proofs ------------------------
(***************************************************************************)
(* What TaskLifecycle keeps for any tasks, users, requests, modes and      *)
(* bounds.                                                                 *)
(***************************************************************************)
EXTENDS TaskLifecycle, TLAPS

----------------------------------------------------------------------------
(* The protocol's edges and the shape of requests.                         *)

(* Every map an actor may be given is part of the widest one.              *)
LEMMA MapsAreNarrower ==
  /\ AgentMoves \subseteq AutonomousMoves
  /\ HumanMoves \subseteq AutonomousMoves
  /\ AssigneeMoves \subseteq AutonomousMoves
BY DEF AgentMoves, HumanMoves, AssigneeMoves, AutonomousMoves

(* An edge joins two different statuses; work is entered from the queue or *)
(* from a pause, and a task goes back to draft from the queue alone.       *)
LEMMA EdgeShape ==
  ASSUME NEW f, NEW g, <<f, g>> \in AutonomousMoves
  PROVE  /\ f \in TaskStatuses /\ g \in TaskStatuses /\ f # g
         /\ g = "in_progress" => f \in {"ready", "blocked", "changes_requested"}
         /\ g = "draft" => f = "ready"
BY DEF AutonomousMoves, AgentMoves, HumanMoves, TaskStatuses

(* The releases of the sweep and of the promotion are edges of the map.    *)
LEMMA QueueEdges ==
  <<"in_progress", "ready">> \in AutonomousMoves /\ <<"draft", "ready">> \in AutonomousMoves
BY DEF AutonomousMoves, HumanMoves

(* A caller acts for a user.                                               *)
LEMMA CallerIsUser == \A c \in Callers : c.user \in Users
BY DEF Callers, Users

(* The free slot and the empty patch are typed.                            *)
LEMMA IdleTyped == Idle \in CallStates /\ NoPatch \in Patches /\ Idle.pc = "idle"
BY DEF Idle, CallStates, NoPatch, Patches

----------------------------------------------------------------------------
(* Type correctness, one step at a time.                                   *)

(* The initial values are typed.                                           *)
LEMMA InitTyped == Init => TypeOK
<1> SUFFICES ASSUME Init PROVE TypeOK
  OBVIOUS
<1>1. specced \in [Tasks -> BOOLEAN] /\ unread \in [Tasks -> BOOLEAN] /\ archived \in BOOLEAN
  BY Zenon DEF Init
<1>2. /\ status \in [Tasks -> Conditions]
      /\ claimedBy \in [Tasks -> Users \union {NoOne}]
      /\ executor \in [Tasks -> Humans \union {NoOne}]
      /\ linked \in [Tasks -> LinkStates]
      /\ presence \in [Users -> {"none", "fresh", "stale"}]
  BY DEF Init, Conditions, LinkStates
<1>3. owed \in [Tasks -> SUBSET Callers] /\ winners \in [Tasks -> SUBSET Callers]
  BY DEF Init
<1>4. call \in [Callers -> CallStates]
  BY IdleTyped DEF Init
<1>5. aborts \in 0..MaxAborts
  BY BoundsAssumption DEF Init
<1> QED
  BY <1>1, <1>2, <1>3, <1>4, <1>5 DEF Init, TypeOK

(* Reading a row for a new request, or filing a task, keeps the types.     *)
LEMMA RequestTyped ==
  ASSUME TypeOK, NEW c \in Callers, Request(c)
  PROVE  TypeOK'
<1> USE DEF rows, cols, notes, rest, proj, sweep
<1>1. ASSUME NEW t \in Tasks, NEW f \in Filings, Create(c, t, f)
      PROVE  TypeOK'
  BY <1>1, ChoicesAssumption DEF TypeOK, Create, Conditions, TaskStatuses
<1>2. ASSUME NEW t \in Tasks, NEW to \in TaskStatuses, TransitionRead(c, t, to)
      PROVE  TypeOK'
  <2>1. [Idle EXCEPT !.pc = FirstAwait(c, status[t], to), !.task = t,
                     !.from = status[t], !.to = to,
                     !.claims = to = "in_progress" /\ claimedBy[t] = NoOne] \in CallStates
    <3>1. FirstAwait(c, status[t], to) \in {"mode", "notes", "cas"}
      BY DEF FirstAwait, AfterMode
    <3>2. status[t] \in TaskStatuses
      BY <1>2 DEF TransitionRead, Live
    <3> QED
      BY <3>1, <3>2, IdleTyped DEF CallStates, Idle
  <2> QED
    BY <1>2, <2>1 DEF TransitionRead, TypeOK
<1>3. ASSUME NEW t \in Tasks, NEW p \in Requests, UpdateRead(c, t, p) \/ SpecEditRead(c, t, p)
      PROVE  TypeOK'
  <2>1. p \in Patches
    BY ChoicesAssumption
  <2>2. [Idle EXCEPT !.pc = "patch", !.task = t, !.patch = p] \in CallStates
    BY <2>1, IdleTyped DEF CallStates, Idle
  <2> QED
    BY <1>3, <2>2 DEF UpdateRead, SpecEditRead, PatchRead, TypeOK
<1>4. ASSUME NEW t \in Tasks, NoteRead(c, t) \/ GetNotesRead(c, t) \/ DeleteRead(c, t)
      PROVE  TypeOK'
  <2>1. \A pc \in {"note", "ack", "erase"} : [Idle EXCEPT !.pc = pc, !.task = t] \in CallStates
    BY IdleTyped DEF CallStates, Idle
  <2> QED
    BY <1>4, <2>1 DEF NoteRead, GetNotesRead, DeleteRead, TypeOK
<1>5. ASSUME NEW batch \in SUBSET Tasks, MarkReadyRead(c, batch)
      PROVE  TypeOK'
  <2>1. [Idle EXCEPT !.pc = "promote", !.batch = batch] \in CallStates
    BY IdleTyped DEF CallStates, Idle
  <2> QED
    BY <1>5, <2>1 DEF MarkReadyRead, TypeOK
<1> QED
  BY <1>1, <1>2, <1>3, <1>4, <1>5 DEF Request

(* So does each later step of a request; the target of a swap is a status  *)
(* because the request holds an edge of the map.                           *)
LEMMA ContinueTyped ==
  ASSUME TypeOK, RequestsKnow, NEW c \in Callers, Continue(c)
  PROVE  TypeOK'
<1> USE DEF rows, cols, notes, rest, proj, sweep
<1>1. call[c] \in CallStates /\ c.user \in Users
  BY CallerIsUser DEF TypeOK
<1>2. Reply(c) => call' \in [Callers -> CallStates]
  BY IdleTyped DEF Reply, TypeOK
<1>3. ASSUME NEW pc \in {"notes", "cas"}, Await(c, pc)
      PROVE  call' \in [Callers -> CallStates]
  BY <1>1, <1>3 DEF Await, TypeOK, CallStates
<1>4. ASSUME TransitionMode(c) \/ TransitionNotes(c) \/ TransitionConflict(c)
      PROVE  TypeOK'
  BY <1>2, <1>3, <1>4 DEF TransitionMode, TransitionNotes, TransitionConflict, AfterMode, TypeOK
<1>5. ASSUME TransitionSwap(c)
      PROVE  TypeOK'
  <2> DEFINE k == call[c]
  <2>1. k.task \in Tasks /\ k.to \in TaskStatuses
    BY <1>5, EdgeShape DEF TransitionSwap, At, RequestsKnow, RequestKnows
  <2>2. ClaimWritten(k, c.user) \in Users \union {NoOne}
    BY <1>1, <2>1 DEF ClaimWritten, TypeOK
  <2>3. WinnersAfter(k, c) \in SUBSET Callers
    BY <2>1 DEF WinnersAfter, TypeOK
  <2>4. [Idle EXCEPT !.pc = "comment", !.task = k.task] \in CallStates
    BY <2>1, IdleTyped DEF Idle, CallStates
  <2>5. status' \in [Tasks -> Conditions]
    BY <1>5, <2>1 DEF TransitionSwap, TypeOK, Conditions
  <2>6. claimedBy' \in [Tasks -> Users \union {NoOne}]
    BY <1>5, <2>2 DEF TransitionSwap, TypeOK
  <2>7. winners' \in [Tasks -> SUBSET Callers] /\ owed' \in [Tasks -> SUBSET Callers]
    BY <1>5, <2>3 DEF TransitionSwap, TypeOK
  <2>8. call' \in [Callers -> CallStates]
    BY <1>5, <2>4, IdleTyped DEF TransitionSwap, TypeOK
  <2> QED
    BY <1>5, <2>5, <2>6, <2>7, <2>8 DEF TransitionSwap, TypeOK
<1>6. ASSUME TransitionComment(c)
      PROVE  TypeOK'
  BY <1>2, <1>6 DEF TransitionComment, TypeOK
<1>7. ASSUME PatchWrite(c)
      PROVE  TypeOK'
  <2> DEFINE p == IF Live(call[c].task) THEN call[c].patch ELSE NoPatch
  <2>1. p \in Patches
    BY <1>1, IdleTyped DEF CallStates
  <2>2. executor' \in [Tasks -> Humans \union {NoOne}]
    BY <1>7, <2>1, UsersAssumption DEF PatchWrite, Patched, Patches, TypeOK
  <2>3. specced' \in [Tasks -> BOOLEAN]
    <3>1. \A b \in BOOLEAN : Patched(b, p.specced) \in BOOLEAN
      BY <2>1, Zenon DEF Patched, Patches
    <3> QED
      BY <1>7, <3>1 DEF PatchWrite, TypeOK
  <2>4. linked' \in [Tasks -> LinkStates]
    BY <1>7, <2>1 DEF PatchWrite, Patched, Patches, TypeOK
  <2> QED
    BY <1>2, <1>7, <2>2, <2>3, <2>4 DEF PatchWrite, TypeOK
<1>8. ASSUME NoteWrite(c) \/ AckNotes(c)
      PROVE  TypeOK'
  <2>1. \A x \in BOOLEAN : [unread EXCEPT ![call[c].task] = x] \in [Tasks -> BOOLEAN]
    BY DEF TypeOK
  <2>2. Live(call[c].task) \in BOOLEAN
    BY DEF Live
  <2>3. unread' \in [Tasks -> BOOLEAN]
    BY <1>8, <2>1, <2>2 DEF NoteWrite, AckNotes
  <2> QED
    BY <1>2, <1>8, <2>3 DEF NoteWrite, AckNotes, TypeOK
<1>9. ASSUME DeleteWrite(c)
      PROVE  TypeOK'
  BY <1>2, <1>9 DEF DeleteWrite, TypeOK, Conditions, LinkStates
<1>10. ASSUME MarkReadyWrite(c)
       PROVE  TypeOK'
  BY <1>2, <1>10 DEF MarkReadyWrite, TypeOK, Conditions, TaskStatuses
<1> QED
  BY <1>4, <1>5, <1>6, <1>7, <1>8, <1>9, <1>10 DEF Continue, TransitionStep

(* The sweep keeps the types: it drops the rows without a claimant as it   *)
(* reads them.                                                             *)
LEMMA SweepTyped ==
  ASSUME TypeOK, SweepStep
  PROVE  TypeOK'
<1> USE DEF rows, cols, notes, rest, proj, sweep
<1>1. ASSUME NEW batch \in SUBSET ClaimRows, SweepRead(batch)
      PROVE  TypeOK'
  <2>1. \A r \in batch : r \in [task : Tasks, user : Users \union {NoOne}]
    BY DEF ClaimRows, TypeOK
  <2>2. sweepRows' \subseteq [task : Tasks, user : Users]
    BY <1>1, <2>1 DEF SweepRead
  <2> QED
    BY <1>1, <2>2 DEF SweepRead, TypeOK
<1>2. ASSUME NEW r \in sweepRows, SweepJudge(r)
      PROVE  TypeOK'
  BY <1>2 DEF SweepJudge, TypeOK
<1>3. ASSUME SweepRelease
      PROVE  TypeOK'
  BY <1>3 DEF SweepRelease, TypeOK, Conditions, TaskStatuses
<1> QED
  BY <1>1, <1>2, <1>3 DEF SweepStep

(* So do the owner, the agents' heartbeats and the deaths.                 *)
LEMMA SurroundingsTyped ==
  ASSUME TypeOK, Surroundings
  PROVE  TypeOK'
<1> USE DEF rows, cols, notes, rest, proj, sweep
<1>1. ASSUME NEW m \in Modes, SetMode(m)
      PROVE  TypeOK'
  BY <1>1 DEF SetMode, TypeOK
<1>2. ASSUME NEW b \in Archivals, SetArchived(b)
      PROVE  TypeOK'
  BY <1>2, ChoicesAssumption DEF SetArchived, TypeOK
<1>3. ASSUME NEW u \in Agents, Touch(u) \/ GoSilent(u)
      PROVE  TypeOK'
  BY <1>3 DEF Touch, GoSilent, TypeOK
<1>4. ASSUME SweepDies
      PROVE  TypeOK'
  BY <1>4, BoundsAssumption DEF SweepDies, TypeOK
<1>5. ASSUME NEW c \in Callers, CallDies(c)
      PROVE  TypeOK'
  BY <1>5, BoundsAssumption, IdleTyped DEF CallDies, Reply, TypeOK
<1> QED
  BY <1>1, <1>2, <1>3, <1>4, <1>5 DEF Surroundings

----------------------------------------------------------------------------
(* The inductive invariant.                                                *)

(* An empty board satisfies the invariant.                                 *)
LEMMA InitInv == Init => Inv
<1> SUFFICES ASSUME Init PROVE Inv
  OBVIOUS
<1>1. RequestsKnow
  BY IdleTyped DEF Init, RequestsKnow, RequestKnows, Idle
<1>2. UnstartedIsUnclaimed /\ QueuedIsUnwon /\ ClaimedOnce /\ QuestionOnFile
  BY DEF Init, UnstartedIsUnclaimed, QueuedIsUnwon, ClaimedOnce, QuestionOnFile
<1> QED
  BY InitTyped, <1>1, <1>2 DEF Inv

(* A request keeps its knowledge through the steps of others, as no task   *)
(* goes back to being unborn.                                              *)
LEMMA KnowledgeLasts ==
  ASSUME RequestsKnow, NEW d \in Callers, call'[d] = call[d],
         \A t \in Tasks : status[t] # "unborn" => status'[t] # "unborn"
  PROVE  RequestKnows(d)'
BY DEF RequestsKnow, RequestKnows

(* A free slot knows nothing and has nothing to know.                      *)
LEMMA FreeKnows ==
  ASSUME NEW c, call'[c] = Idle
  PROVE  RequestKnows(c)'
BY DEF RequestKnows, Idle

(* Steps that touch neither status, claim, winner nor question, and move   *)
(* at most the one request c, which is not storing a comment.              *)
LEMMA QuietStep ==
  ASSUME Inv, TypeOK', UNCHANGED <<status, claimedBy, winners, owed, aborts>>,
         NEW c \in Callers, ~At(c, "comment"), RequestKnows(c)',
         \A d \in Callers \ {c} : call'[d] = call[d]
  PROVE  Inv'
<1>1. RequestsKnow'
  BY KnowledgeLasts DEF Inv, RequestsKnow
<1>2. UnstartedIsUnclaimed' /\ QueuedIsUnwon' /\ ClaimedOnce'
  BY DEF Inv, UnstartedIsUnclaimed, QueuedIsUnwon, ClaimedOnce
<1>3. QuestionOnFile'
  BY DEF Inv, TypeOK, QuestionOnFile, At
<1> QED
  BY <1>1, <1>2, <1>3 DEF Inv

(* Steps that leave every request and the rows' protocol alone.            *)
LEMMA AloneStep ==
  ASSUME Inv, TypeOK', UNCHANGED <<status, claimedBy, winners, owed, aborts, call>>
  PROVE  Inv'
BY DEF Inv, RequestsKnow, RequestKnows, UnstartedIsUnclaimed, QueuedIsUnwon, ClaimedOnce,
       QuestionOnFile, At

(* A request's first step records what it has read, and that is so as yet. *)
LEMMA RequestInv ==
  ASSUME Inv, NEW c \in Callers, Request(c)
  PROVE  Inv'
<1> USE DEF rows, cols, notes, rest, proj, sweep
<1>1. TypeOK'
  BY RequestTyped DEF Inv
<1>2. call \in [Callers -> CallStates]
  BY DEF Inv, TypeOK
<1>3. ASSUME NEW t \in Tasks, NEW f \in Filings, Create(c, t, f)
      PROVE  Inv'
  <2>1. \A u \in Tasks : status[u] # "unborn" => status'[u] # "unborn"
    BY <1>3 DEF Create, Inv, TypeOK
  <2>2. RequestsKnow'
    BY <1>3, <2>1, KnowledgeLasts DEF Create, Inv, RequestsKnow
  <2>3. UnstartedIsUnclaimed' /\ QueuedIsUnwon'
    BY <1>3 DEF Create, Inv, TypeOK, UnstartedIsUnclaimed, QueuedIsUnwon, Unstarted
  <2>4. ClaimedOnce' /\ QuestionOnFile'
    BY <1>3 DEF Create, Inv, ClaimedOnce, QuestionOnFile, At
  <2> QED
    BY <1>1, <2>2, <2>3, <2>4 DEF Inv
<1>4. ASSUME NEW t \in Tasks, NEW to \in TaskStatuses, TransitionRead(c, t, to)
      PROVE  Inv'
  <2>1. <<status[t], to>> \in AutonomousMoves /\ status[t] # "unborn"
    BY <1>4, MapsAreNarrower, EdgeShape
       DEF TransitionRead, OfferedMoves, Live, TaskStatuses
  <2>2. status[t] = "ready" => claimedBy[t] = NoOne
    BY DEF Inv, UnstartedIsUnclaimed, Unstarted
  <2>3. /\ call'[c].task = t /\ call'[c].from = status[t] /\ call'[c].to = to
        /\ call'[c].claims = (to = "in_progress" /\ claimedBy[t] = NoOne)
    BY <1>2, <1>4 DEF TransitionRead, Idle
  <2>4. RequestKnows(c)'
    BY <1>4, <2>1, <2>2, <2>3 DEF TransitionRead, RequestKnows
  <2>5. ~At(c, "comment") /\ \A d \in Callers \ {c} : call'[d] = call[d]
    BY <1>2, <1>4 DEF TransitionRead, CanStart, Free, At
  <2> QED
    BY <1>1, <1>4, <2>4, <2>5, QuietStep DEF TransitionRead
<1>5. ASSUME NEW t \in Tasks,
             \/ \E p \in Requests : UpdateRead(c, t, p) \/ SpecEditRead(c, t, p)
             \/ NoteRead(c, t) \/ GetNotesRead(c, t) \/ DeleteRead(c, t)
      PROVE  Inv'
  <2>1. status[t] # "unborn" /\ status'[t] = status[t]
    BY <1>5 DEF UpdateRead, SpecEditRead, PatchRead, NoteRead, GetNotesRead, DeleteRead,
                Live, TaskStatuses
  <2>2. call'[c].task = t /\ call'[c].pc \in {"patch", "note", "ack", "erase"}
    BY <1>2, <1>5 DEF UpdateRead, SpecEditRead, PatchRead, NoteRead, GetNotesRead, DeleteRead, Idle
  <2>3. RequestKnows(c)'
    BY <2>1, <2>2 DEF RequestKnows
  <2>4. ~At(c, "comment") /\ \A d \in Callers \ {c} : call'[d] = call[d]
    BY <1>2, <1>5 DEF UpdateRead, SpecEditRead, PatchRead, NoteRead, GetNotesRead, DeleteRead,
                      CanStart, Free, At
  <2>5. UNCHANGED <<status, claimedBy, winners, owed, aborts>>
    BY <1>5 DEF UpdateRead, SpecEditRead, PatchRead, NoteRead, GetNotesRead, DeleteRead
  <2> QED
    BY <1>1, <2>3, <2>4, <2>5, QuietStep
<1>6. ASSUME NEW batch \in SUBSET Tasks, MarkReadyRead(c, batch)
      PROVE  Inv'
  <2>1. RequestKnows(c)'
    BY <1>2, <1>6 DEF MarkReadyRead, RequestKnows, Idle
  <2>2. ~At(c, "comment") /\ \A d \in Callers \ {c} : call'[d] = call[d]
    BY <1>2, <1>6 DEF MarkReadyRead, CanStart, Free, At
  <2> QED
    BY <1>1, <1>6, <2>1, <2>2, QuietStep DEF MarkReadyRead
<1> QED
  BY <1>3, <1>4, <1>5, <1>6 DEF Request

(* The compare-and-swap, the one step of a transition that writes the row: *)
(* the row still has the status the request read, so the claim the request *)
(* decided on fits the edge it takes.                                      *)
LEMMA SwapInv ==
  ASSUME Inv, NEW c \in Callers, TransitionSwap(c)
  PROVE  Inv'
<1> DEFINE k == call[c]
           t == k.task
<1>1. TypeOK'
  BY ContinueTyped DEF Inv, Continue, TransitionStep
<1>2. call \in [Callers -> CallStates] /\ status \in [Tasks -> Conditions]
      /\ claimedBy \in [Tasks -> Users \union {NoOne}]
      /\ winners \in [Tasks -> SUBSET Callers] /\ owed \in [Tasks -> SUBSET Callers]
  BY DEF Inv, TypeOK
<1>3. /\ t \in Tasks /\ status[t] = k.from
      /\ <<k.from, k.to>> \in AutonomousMoves
      /\ k.from = "ready" /\ k.to = "in_progress" => k.claims
      /\ k.claims => k.to = "in_progress"
  BY DEF TransitionSwap, At, Swaps, Inv, RequestsKnow, RequestKnows
<1>4. /\ k.from \in TaskStatuses /\ k.to \in TaskStatuses
      /\ k.to = "draft" => k.from = "ready"
      /\ k.to # "unborn" /\ k.to # "deleted"
  BY <1>3, EdgeShape DEF TaskStatuses
<1>5. RequestsKnow'
  <2>1. \A u \in Tasks : status[u] # "unborn" => status'[u] # "unborn"
    BY <1>2, <1>3, <1>4 DEF TransitionSwap
  <2>2. ASSUME NEW d \in Callers, d # c PROVE RequestKnows(d)'
    BY <1>2, <2>1, <2>2, KnowledgeLasts DEF TransitionSwap, Inv
  <2>3. RequestKnows(c)'
    <3>1. CASE AfterSwap(c, k.to) = "idle"
      BY <1>2, <3>1, FreeKnows DEF TransitionSwap
    <3>2. CASE AfterSwap(c, k.to) # "idle"
      <4>1. call'[c].task = t /\ call'[c].pc = "comment"
        BY <1>2, <3>2 DEF TransitionSwap, Idle
      <4>2. status'[t] # "unborn"
        BY <1>2, <1>3, <1>4 DEF TransitionSwap
      <4> QED
        BY <1>3, <4>1, <4>2 DEF RequestKnows
    <3> QED
      BY <3>1, <3>2
  <2> QED
    BY <2>2, <2>3 DEF RequestsKnow
<1>6. UnstartedIsUnclaimed'
  <2>1. k.to = "ready" => claimedBy'[t] = NoOne
    BY <1>2, <1>3 DEF TransitionSwap, ClaimWritten
  <2>2. k.to = "draft" => claimedBy'[t] = NoOne
    BY <1>2, <1>3, <1>4 DEF TransitionSwap, ClaimWritten, Inv, UnstartedIsUnclaimed, Unstarted
  <2>3. status'[t] \in Unstarted => claimedBy'[t] = NoOne
    BY <1>2, <1>3, <1>4, <2>1, <2>2 DEF TransitionSwap, Unstarted
  <2> QED
    BY <1>2, <2>3 DEF TransitionSwap, Inv, UnstartedIsUnclaimed
<1>7. QueuedIsUnwon'
  <2>1. k.to = "ready" => winners'[t] = {}
    BY <1>2, <1>3 DEF TransitionSwap, WinnersAfter
  <2> QED
    BY <1>2, <2>1 DEF TransitionSwap, Inv, QueuedIsUnwon
<1>8. ClaimedOnce'
  <2>1. \A d, e \in winners'[t] : d = e
    <3>1. k.from = "ready" => winners[t] = {}
      BY <1>3 DEF Inv, QueuedIsUnwon
    <3> QED
      BY <1>2, <1>3, <3>1 DEF TransitionSwap, WinnersAfter, Inv, ClaimedOnce
  <2> QED
    BY <1>2, <2>1 DEF TransitionSwap, Inv, ClaimedOnce
<1>9. QuestionOnFile'
  <2>1. ASSUME NEW u \in Tasks, NEW d \in owed'[u], aborts' = 0
        PROVE  call'[d].pc = "comment" /\ call'[d].task = u
    <3>1. CASE u = t
      <4>1. d = c /\ NeedsComment(k.to)
        BY <1>2, <1>3, <2>1, <3>1 DEF TransitionSwap
      <4> QED
        BY <1>2, <3>1, <4>1 DEF TransitionSwap, AfterSwap, Idle
    <3>2. CASE u # t
      <4>1. d \in owed[u] /\ aborts = 0
        BY <1>2, <2>1, <3>2 DEF TransitionSwap, rest
      <4>2. At(d, "comment") /\ call[d].task = u
        BY <4>1 DEF Inv, QuestionOnFile
      <4> QED
        BY <1>2, <4>1, <4>2 DEF TransitionSwap, At
    <3> QED
      BY <3>1, <3>2
  <2>2. aborts' \in Nat
    BY <1>1, BoundsAssumption DEF TypeOK
  <2> QED
    BY <2>1, <2>2 DEF QuestionOnFile, At
<1> QED
  BY <1>1, <1>5, <1>6, <1>7, <1>8, <1>9 DEF Inv

(* Every other step of a request.                                          *)
LEMMA ContinueInv ==
  ASSUME Inv, NEW c \in Callers, Continue(c)
  PROVE  Inv'
<1> USE DEF rows, cols, notes, rest, proj, sweep
<1>1. TypeOK'
  BY ContinueTyped DEF Inv
<1>2. call \in [Callers -> CallStates]
  BY DEF Inv, TypeOK
<1>3. ASSUME Reply(c)
      PROVE  RequestKnows(c)' /\ \A d \in Callers \ {c} : call'[d] = call[d]
  BY <1>2, <1>3, FreeKnows DEF Reply
<1>4. ASSUME NEW pc \in {"notes", "cas"}, Await(c, pc), At(c, "mode") \/ At(c, "notes"),
             UNCHANGED status
      PROVE  RequestKnows(c)' /\ \A d \in Callers \ {c} : call'[d] = call[d]
  <2>1. call'[c] = [call[c] EXCEPT !.pc = pc]
    BY <1>2, <1>4 DEF Await
  <2>2. /\ call'[c].task = call[c].task /\ call'[c].from = call[c].from
        /\ call'[c].to = call[c].to /\ call'[c].claims = call[c].claims
    BY <1>2, <2>1 DEF CallStates
  <2>3. RequestKnows(c)'
    BY <1>4, <2>2 DEF At, Inv, RequestsKnow, RequestKnows
  <2> QED
    BY <1>2, <1>4, <2>3 DEF Await
<1>5. ASSUME TransitionMode(c) \/ TransitionNotes(c) \/ TransitionConflict(c)
      PROVE  Inv'
  <2>1. RequestKnows(c)' /\ \A d \in Callers \ {c} : call'[d] = call[d]
    BY <1>3, <1>4, <1>5 DEF TransitionMode, TransitionNotes, TransitionConflict, AfterMode
  <2>2. ~At(c, "comment")
    BY <1>5 DEF TransitionMode, TransitionNotes, TransitionConflict, At
  <2> QED
    BY <1>1, <1>5, <2>1, <2>2, QuietStep
       DEF TransitionMode, TransitionNotes, TransitionConflict
<1>6. ASSUME PatchWrite(c) \/ NoteWrite(c) \/ AckNotes(c)
      PROVE  Inv'
  <2>1. Reply(c) /\ ~At(c, "comment")
    BY <1>6 DEF PatchWrite, NoteWrite, AckNotes, At
  <2> QED
    BY <1>1, <1>3, <1>6, <2>1, QuietStep DEF PatchWrite, NoteWrite, AckNotes
<1>7. ASSUME TransitionComment(c)
      PROVE  Inv'
  <2>1. RequestsKnow'
    BY <1>3, <1>7, KnowledgeLasts DEF TransitionComment, Inv, RequestsKnow
  <2>2. QuestionOnFile'
    BY <1>2, <1>3, <1>7 DEF TransitionComment, Inv, TypeOK, QuestionOnFile, At
  <2>3. UnstartedIsUnclaimed' /\ QueuedIsUnwon' /\ ClaimedOnce'
    BY <1>7 DEF TransitionComment, Inv, UnstartedIsUnclaimed, QueuedIsUnwon, ClaimedOnce
  <2> QED
    BY <1>1, <2>1, <2>2, <2>3 DEF Inv
<1>8. ASSUME DeleteWrite(c)
      PROVE  Inv'
  <2>1. \A u \in Tasks : status[u] # "unborn" => status'[u] # "unborn"
    BY <1>8 DEF DeleteWrite, Inv, TypeOK
  <2>2. RequestsKnow'
    BY <1>3, <1>8, <2>1, KnowledgeLasts DEF DeleteWrite, Inv, RequestsKnow
  <2>3. UnstartedIsUnclaimed' /\ QueuedIsUnwon' /\ ClaimedOnce'
    BY <1>8 DEF DeleteWrite, Inv, TypeOK, UnstartedIsUnclaimed, QueuedIsUnwon, ClaimedOnce
  <2>4. QuestionOnFile'
    BY <1>2, <1>3, <1>8 DEF DeleteWrite, Inv, TypeOK, QuestionOnFile, At
  <2> QED
    BY <1>1, <2>2, <2>3, <2>4 DEF Inv
<1>9. ASSUME MarkReadyWrite(c)
      PROVE  Inv'
  <2>1. \A u \in Tasks : status[u] # "unborn" => status'[u] # "unborn"
    BY <1>9 DEF MarkReadyWrite
  <2>2. RequestsKnow'
    BY <1>3, <1>9, <2>1, KnowledgeLasts DEF MarkReadyWrite, Inv, RequestsKnow
  <2>3. UnstartedIsUnclaimed' /\ QueuedIsUnwon' /\ ClaimedOnce'
    BY <1>9 DEF MarkReadyWrite, Inv, UnstartedIsUnclaimed, QueuedIsUnwon, ClaimedOnce, Unstarted
  <2>4. QuestionOnFile'
    BY <1>2, <1>3, <1>9 DEF MarkReadyWrite, Inv, TypeOK, QuestionOnFile, At
  <2> QED
    BY <1>1, <2>2, <2>3, <2>4 DEF Inv
<1> QED
  BY <1>5, <1>6, <1>7, <1>8, <1>9, SwapInv DEF Continue, TransitionStep

(* The sweep queues what it releases with the claim gone.                  *)
LEMMA SweepInv ==
  ASSUME Inv, SweepStep
  PROVE  Inv'
<1> USE DEF rows, cols, notes, rest, proj, sweep
<1>1. TypeOK'
  BY SweepTyped DEF Inv
<1>2. ASSUME \/ \E batch \in SUBSET ClaimRows : SweepRead(batch)
             \/ \E r \in sweepRows : SweepJudge(r)
      PROVE  Inv'
  BY <1>1, <1>2, AloneStep DEF SweepRead, SweepJudge
<1>3. ASSUME SweepRelease
      PROVE  Inv'
  <2>1. \A u \in Tasks : status[u] # "unborn" => status'[u] # "unborn"
    BY <1>3 DEF SweepRelease, Inv, TypeOK
  <2>2. RequestsKnow'
    BY <1>3, <2>1, KnowledgeLasts DEF SweepRelease, Inv, RequestsKnow
  <2>3. UnstartedIsUnclaimed' /\ QueuedIsUnwon' /\ ClaimedOnce'
    BY <1>3 DEF SweepRelease, Inv, TypeOK, UnstartedIsUnclaimed, QueuedIsUnwon, ClaimedOnce
  <2>4. QuestionOnFile'
    BY <1>3 DEF SweepRelease, Inv, TypeOK, QuestionOnFile, At
  <2> QED
    BY <1>1, <2>2, <2>3, <2>4 DEF Inv
<1> QED
  BY <1>2, <1>3 DEF SweepStep

(* The owner and the clock touch no row; a death is counted.               *)
LEMMA SurroundingsInv ==
  ASSUME Inv, Surroundings
  PROVE  Inv'
<1> USE DEF rows, cols, notes, rest, proj, sweep
<1>1. TypeOK'
  BY SurroundingsTyped DEF Inv
<1>2. ASSUME \/ \E m \in Modes : SetMode(m)
             \/ \E b \in Archivals : SetArchived(b)
             \/ \E u \in Agents : Touch(u) \/ GoSilent(u)
      PROVE  Inv'
  BY <1>1, <1>2, AloneStep DEF SetMode, SetArchived, Touch, GoSilent
<1>3. ASSUME SweepDies
      PROVE  Inv'
  <2>1. aborts' > 0
    BY <1>3, BoundsAssumption DEF SweepDies, Inv, TypeOK
  <2>2. RequestsKnow'
    BY <1>3, KnowledgeLasts DEF SweepDies, Inv, RequestsKnow
  <2>3. UnstartedIsUnclaimed' /\ QueuedIsUnwon' /\ ClaimedOnce' /\ QuestionOnFile'
    BY <1>3, <2>1
       DEF SweepDies, Inv, UnstartedIsUnclaimed, QueuedIsUnwon, ClaimedOnce, QuestionOnFile
  <2> QED
    BY <1>1, <2>2, <2>3 DEF Inv
<1>4. ASSUME NEW c \in Callers, CallDies(c)
      PROVE  Inv'
  <2>1. aborts' > 0
    BY <1>4, BoundsAssumption DEF CallDies, Inv, TypeOK
  <2>2. call'[c] = Idle /\ \A d \in Callers \ {c} : call'[d] = call[d]
    BY <1>4 DEF CallDies, Reply, Inv, TypeOK
  <2>3. RequestsKnow'
    BY <1>4, <2>2, FreeKnows, KnowledgeLasts DEF CallDies, Inv, RequestsKnow
  <2>4. UnstartedIsUnclaimed' /\ QueuedIsUnwon' /\ ClaimedOnce' /\ QuestionOnFile'
    BY <1>4, <2>1
       DEF CallDies, Inv, UnstartedIsUnclaimed, QueuedIsUnwon, ClaimedOnce, QuestionOnFile
  <2> QED
    BY <1>1, <2>3, <2>4 DEF Inv
<1> QED
  BY <1>2, <1>3, <1>4 DEF Surroundings

(* Nothing happening keeps everything.                                     *)
LEMMA StutterInv ==
  ASSUME Inv, UNCHANGED vars
  PROVE  Inv'
BY AloneStep DEF Inv, TypeOK, vars, rows, cols, notes, rest, proj, sweep

(* The invariant holds in every reachable state.                           *)
THEOREM Invariance == Spec => []Inv
<1>1. Init => Inv
  BY InitInv
<1>2. Inv /\ [Next]_vars => Inv'
  BY RequestInv, ContinueInv, SweepInv, SurroundingsInv, StutterInv DEF Next
<1> QED
  BY <1>1, <1>2, PTL DEF Spec

----------------------------------------------------------------------------
(* The properties the runs check.                                          *)

(* Every variable keeps its type.                                          *)
THEOREM TypeCorrect == Spec => []TypeOK
<1>1. Inv => TypeOK
  BY DEF Inv
<1> QED
  BY <1>1, Invariance, PTL

(* A draft or queued task carries no claim.                                *)
THEOREM QueuedUnclaimed == Spec => []QueuedIsUnclaimed
<1>1. Inv => QueuedIsUnclaimed
  BY DEF Inv, UnstartedIsUnclaimed, Unstarted, QueuedIsUnclaimed
<1> QED
  BY <1>1, Invariance, PTL

(* However many requests race for a queued task, one claims it.            *)
THEOREM OneWinner == Spec => []ClaimedOnce
<1>1. Inv => ClaimedOnce
  BY DEF Inv
<1> QED
  BY <1>1, Invariance, PTL

(* Without a death, a question or a feedback is stored or about to be.     *)
THEOREM QuestionsStored == Spec => []QuestionOnFile
<1>1. Inv => QuestionOnFile
  BY DEF Inv
<1> QED
  BY <1>1, Invariance, PTL

----------------------------------------------------------------------------
(* The service implements the board.                                       *)

(* Both modules import one protocol.                                       *)
LEMMA SameEdges == Board!AutonomousMoves = AutonomousMoves
BY DEF Board!AutonomousMoves, Board!AgentMoves, Board!HumanMoves,
       AutonomousMoves, AgentMoves, HumanMoves

(* An empty service is an empty board.                                     *)
LEMMA InitMaps == Init => Board!BoardInit
BY DEF Init, Board!BoardInit

(* A step that leaves status and claim alone is a stutter of the board.    *)
LEMMA QuietMaps ==
  ASSUME UNCHANGED <<status, claimedBy>>
  PROVE  [Board!BoardNext]_(Board!bvars)
BY DEF Board!bvars

(* A step that changes one task's row is a step of the board if what it    *)
(* does to that task is.                                                   *)
LEMMA OneTaskMaps ==
  ASSUME TypeOK, TypeOK', NEW t \in Tasks, Board!BoardStep(t),
         \A u \in Tasks \ {t} : status'[u] = status[u] /\ claimedBy'[u] = claimedBy[u]
  PROVE  Board!BoardNext
<1>1. \A u \in Tasks \ {t} : Board!BoardStep(u)
  BY DEF Board!BoardStep, Board!Stay, Board!ClaimStays
<1>2. status' \in [Tasks -> Board!Conditions] /\ claimedBy' \in [Tasks -> Users \union {NoOne}]
  BY DEF TypeOK, Conditions, TaskStatuses, Board!Conditions, Board!TaskStatuses
<1> QED
  BY <1>1, <1>2 DEF Board!BoardNext

(* The swap queues, claims, resumes or advances its task.                  *)
LEMMA SwapMaps ==
  ASSUME Inv, NEW c \in Callers, TransitionSwap(c)
  PROVE  Board!BoardNext
<1> DEFINE k == call[c]
           t == k.task
<1>1. TypeOK /\ TypeOK'
  BY ContinueTyped DEF Inv, Continue, TransitionStep
<1>2. /\ t \in Tasks /\ status[t] = k.from
      /\ <<k.from, k.to>> \in AutonomousMoves
      /\ k.from = "ready" /\ k.to = "in_progress" => k.claims
      /\ k.claims => k.to = "in_progress"
  BY DEF TransitionSwap, At, Swaps, Inv, RequestsKnow, RequestKnows
<1>3. /\ status'[t] = k.to /\ claimedBy'[t] = ClaimWritten(k, c.user)
      /\ \A u \in Tasks \ {t} : status'[u] = status[u] /\ claimedBy'[u] = claimedBy[u]
  BY <1>1, <1>2 DEF TransitionSwap, TypeOK
<1>4. Board!BoardStep(t)
  <2>1. CASE k.to = "ready"
    BY <1>2, <1>3, <2>1, SameEdges DEF Board!BoardStep, Board!Queue, ClaimWritten
  <2>2. CASE k.to = "in_progress" /\ k.from = "ready"
    <3>1. claimedBy[t] = NoOne
      BY <1>2, <2>2 DEF Inv, UnstartedIsUnclaimed, Unstarted
    <3>2. claimedBy'[t] \in Users
      BY <1>2, <1>3, <2>2, CallerIsUser DEF ClaimWritten
    <3> QED
      BY <1>2, <1>3, <2>2, <3>1, <3>2 DEF Board!BoardStep, Board!Claim
  <2>3. CASE k.to = "in_progress" /\ k.from # "ready"
    <3>1. k.from \in {"blocked", "changes_requested"}
      BY <1>2, <2>3, EdgeShape
    <3>2. claimedBy'[t] \in Users \union {claimedBy[t]}
      BY <1>3, <2>3, CallerIsUser DEF ClaimWritten
    <3> QED
      BY <1>2, <1>3, <2>3, <3>1, <3>2 DEF Board!BoardStep, Board!Resume
  <2>4. CASE k.to \notin {"ready", "in_progress"}
    <3>1. claimedBy'[t] = claimedBy[t]
      BY <1>2, <1>3, <2>4 DEF ClaimWritten
    <3> QED
      BY <1>2, <1>3, <2>4, <3>1, SameEdges
         DEF Board!BoardStep, Board!Advance, Board!ClaimStays
  <2> QED
    BY <2>1, <2>2, <2>3, <2>4
<1> QED
  BY <1>1, <1>2, <1>3, <1>4, OneTaskMaps

(* Filing files; the first step of any other request only reads.           *)
LEMMA RequestMaps ==
  ASSUME Inv, NEW c \in Callers, Request(c)
  PROVE  [Board!BoardNext]_(Board!bvars)
<1> USE DEF rows, cols, notes, rest, proj, sweep
<1>1. ASSUME NEW t \in Tasks, NEW f \in Filings, Create(c, t, f)
      PROVE  Board!BoardNext
  <2>1. TypeOK /\ TypeOK'
    BY <1>1, RequestTyped DEF Inv, Request
  <2>2. Board!BoardStep(t)
    BY <1>1, <2>1 DEF Create, TypeOK, Board!BoardStep, Board!File, Board!ClaimStays
  <2>3. \A u \in Tasks \ {t} : status'[u] = status[u] /\ claimedBy'[u] = claimedBy[u]
    BY <1>1, <2>1 DEF Create, TypeOK
  <2> QED
    BY <2>1, <2>2, <2>3, OneTaskMaps
<1>2. ASSUME ~ \E t \in Tasks, f \in Filings : Create(c, t, f)
      PROVE  UNCHANGED <<status, claimedBy>>
  BY <1>2 DEF Request, TransitionRead, UpdateRead, SpecEditRead, PatchRead, NoteRead,
              GetNotesRead, DeleteRead, MarkReadyRead
<1> QED
  BY <1>1, <1>2, QuietMaps

(* A deletion erases once, a promotion queues each draft it moves, and the *)
(* other steps of a request leave the board alone.                         *)
LEMMA ContinueMaps ==
  ASSUME Inv, NEW c \in Callers, Continue(c)
  PROVE  [Board!BoardNext]_(Board!bvars)
<1> USE DEF rows, cols, notes, rest, proj, sweep
<1>1. TypeOK /\ TypeOK'
  BY ContinueTyped DEF Inv
<1>2. CASE TransitionSwap(c)
  BY <1>2, SwapMaps
<1>3. CASE DeleteWrite(c)
  <2> DEFINE t == call[c].task
  <2>1. t \in Tasks /\ status[t] # "unborn"
    BY <1>3 DEF DeleteWrite, At, Inv, RequestsKnow, RequestKnows
  <2>2. /\ status'[t] = "deleted" /\ claimedBy'[t] = NoOne
        /\ \A u \in Tasks \ {t} : status'[u] = status[u] /\ claimedBy'[u] = claimedBy[u]
    BY <1>1, <1>3, <2>1 DEF DeleteWrite, TypeOK
  <2>3. Board!BoardStep(t)
    <3>1. status[t] = "deleted" => claimedBy[t] = NoOne
      BY <2>1 DEF Inv, UnstartedIsUnclaimed, Unstarted
    <3>2. status[t] # "deleted" => status[t] \in Board!TaskStatuses
      BY <1>1, <2>1 DEF TypeOK, Conditions, TaskStatuses, Board!TaskStatuses
    <3> QED
      BY <2>2, <3>1, <3>2 DEF Board!BoardStep, Board!Stay, Board!ClaimStays, Board!Erase
  <2> QED
    BY <1>1, <2>1, <2>2, <2>3, OneTaskMaps
<1>4. CASE MarkReadyWrite(c)
  <2>1. ASSUME NEW t \in Tasks
        PROVE  Board!BoardStep(t)
    <3>1. CASE status[t] = "draft" /\ t \in call[c].batch
      BY <1>4, <3>1, QueueEdges, SameEdges DEF MarkReadyWrite, Board!BoardStep, Board!Queue
    <3>2. CASE ~(status[t] = "draft" /\ t \in call[c].batch)
      BY <1>4, <3>2 DEF MarkReadyWrite, Board!BoardStep, Board!Stay, Board!ClaimStays
    <3> QED
      BY <3>1, <3>2
  <2>2. status' \in [Tasks -> Board!Conditions] /\ claimedBy' \in [Tasks -> Users \union {NoOne}]
    BY <1>1 DEF TypeOK, Conditions, TaskStatuses, Board!Conditions, Board!TaskStatuses
  <2> QED
    BY <2>1, <2>2 DEF Board!BoardNext
<1>5. ASSUME ~TransitionSwap(c), ~DeleteWrite(c), ~MarkReadyWrite(c)
      PROVE  UNCHANGED <<status, claimedBy>>
  BY <1>5 DEF Continue, TransitionStep, TransitionMode, TransitionNotes, TransitionConflict,
              TransitionComment, PatchWrite, NoteWrite, AckNotes
<1> QED
  BY <1>2, <1>3, <1>4, <1>5, QuietMaps

(* The sweep's release queues the task.                                    *)
LEMMA SweepMaps ==
  ASSUME Inv, SweepStep
  PROVE  [Board!BoardNext]_(Board!bvars)
<1> USE DEF rows, cols, notes, rest, proj, sweep
<1>1. TypeOK /\ TypeOK'
  BY SweepTyped DEF Inv
<1>2. ASSUME SweepRelease, Releases(doomed.task)
      PROVE  Board!BoardNext
  <2>1. doomed.task \in Tasks
    BY <1>1, <1>2 DEF SweepRelease, TypeOK
  <2>2. Board!BoardStep(doomed.task)
    BY <1>1, <1>2, <2>1, QueueEdges, SameEdges
       DEF SweepRelease, Releases, TypeOK, Board!BoardStep, Board!Queue
  <2>3. \A u \in Tasks \ {doomed.task} : status'[u] = status[u] /\ claimedBy'[u] = claimedBy[u]
    BY <1>1, <1>2, <2>1 DEF SweepRelease, TypeOK
  <2> QED
    BY <1>1, <2>1, <2>2, <2>3, OneTaskMaps
<1>3. ASSUME ~(SweepRelease /\ Releases(doomed.task))
      PROVE  UNCHANGED <<status, claimedBy>>
  BY <1>3 DEF SweepStep, SweepRead, SweepJudge, SweepRelease
<1> QED
  BY <1>2, <1>3, QuietMaps

(* Owner, clock and deaths leave the board alone.                          *)
LEMMA SurroundingsMaps ==
  ASSUME Surroundings
  PROVE  [Board!BoardNext]_(Board!bvars)
<1>1. UNCHANGED <<status, claimedBy>>
  BY DEF Surroundings, SetMode, SetArchived, Touch, GoSilent, SweepDies, CallDies, rows
<1> QED
  BY <1>1, QuietMaps

(* Every behaviour of the service is a behaviour of the board: whatever    *)
(* races, a task moves only along the map's edges, from the queue it is    *)
(* claimed by one user, and a claim moves only with queueing or resuming.  *)
THEOREM Refinement == Spec => KeepsTheBoard
<1>1. Init => Board!BoardInit
  BY InitMaps
<1>2. Inv /\ [Next]_vars => [Board!BoardNext]_(Board!bvars)
  <2>1. Inv /\ UNCHANGED vars => [Board!BoardNext]_(Board!bvars)
    BY QuietMaps DEF vars, rows
  <2> QED
    BY <2>1, RequestMaps, ContinueMaps, SweepMaps, SurroundingsMaps DEF Next
<1> QED
  BY <1>1, <1>2, Invariance, PTL DEF Spec, KeepsTheBoard, Board!BoardSpec
=============================================================================
