--------------------------- MODULE TaskLifecycle ---------------------------
(***************************************************************************)
(* The life of the tasks of one project, as the api's task service and the *)
(* worker's agent sweep run it.                                            *)
(*                                                                         *)
(* The service keeps no lock and opens no transaction: a request reads the *)
(* task row, checks it, awaits, and later writes.  Each request is         *)
(* therefore a small process here (the record call[c]): its first step is  *)
(* the read with every guard the handler evaluates on that snapshot, each  *)
(* further step one more read or one write.  A request the guards refuse   *)
(* changes nothing and is not a step.  The agent sweep is one more         *)
(* process, reading claims in a batch and releasing the dead ones later.   *)
(*                                                                         *)
(* The GitHub side (pull requests, CI, the automation modes' merges) is in *)
(* AutoProgress, the dependency edges in TaskDependencies.                 *)
(***************************************************************************)
EXTENDS TaskProtocol, FiniteSets

CONSTANTS
  Tasks,        \* ids of tasks
  Humans,       \* users who act through the web app
  Agents,       \* users who own an API key that agents act with
  NoOne,        \* null, for a user
  NoTask,       \* null, for a task
  Keep,         \* a field a request leaves out
  Filings,      \* the specs and executors tasks are filed with
  Requests,     \* the field patches an update request may carry
  Modes,        \* the project modes the owner may choose
  Archivals,    \* what the owner may set project.archivedAt to: null, a date
  SweepBatch,   \* how many claims one sweep reads (50 in the code)
  MaxInFlight,  \* bound: how many requests are in flight at once
  MaxAborts     \* bound: how many requests or sweeps may die half way

Users == Humans \union Agents

(* One in-flight request for each pair of a user and the door it uses.     *)
Callers == [user : Humans, actor : {"user"}] \union [user : Agents, actor : {"agent"}]

LinkStates == {"none", "pr", "both"}   \* prUrl only; branch and prUrl

Patches == [executor : Humans \union {NoOne, Keep},
            specced  : BOOLEAN \union {Keep},
            linked   : LinkStates \union {Keep}]

ASSUME TasksAssumption == NoTask \notin Tasks
ASSUME UsersAssumption == NoOne \notin Users /\ Keep \notin Users \union {NoOne}
ASSUME ChoicesAssumption ==
  /\ Filings \subseteq [specced : BOOLEAN, executor : Humans \union {NoOne}]
  /\ Requests \subseteq Patches
  /\ Modes \subseteq ProjectModes
  /\ Archivals \subseteq BOOLEAN
ASSUME BoundsAssumption == {SweepBatch, MaxInFlight} \subseteq Nat \ {0} /\ MaxAborts \in Nat

VARIABLES
  status,     \* task.status
  claimedBy,  \* task.claimedBy
  executor,   \* task.assignee where task.isHumanTask, else NoOne
  specced,    \* context is not blank and there is an acceptance criterion
  linked,     \* which of branch and prUrl are recorded
  unread,     \* some note of the task has no ackedAt
  owed,       \* who moved the task to blocked or changes_requested last, while
              \* the comment that says why is not stored; else {}
  winners,    \* history: whose claim out of the queue succeeded since it was queued
  presence,   \* lastSeen over a user's agents: no agent row, recent, or past the cutoff
  mode,       \* project.mode
  archived,   \* project.archivedAt is set
  call,       \* call[c]: the request c has in flight
  sweepRows,  \* claims the running sweep has read and not judged yet
  doomed,     \* the claim it has judged dead and is about to release
  aborts      \* counts the deaths of requests and sweeps, for the bound

cols == <<executor, specced, linked>>
notes == <<unread, owed>>
proj == <<mode, archived>>
sweep == <<sweepRows, doomed>>
rows == <<status, claimedBy, cols, notes, winners>>
rest == <<presence, proj, sweep, aborts>>
vars == <<rows, rest, call>>

Conditions == TaskStatuses \union {"unborn", "deleted"}
NoPatch == [executor |-> Keep, specced |-> Keep, linked |-> Keep]

Idle == [pc |-> "idle", task |-> NoTask, from |-> "none", to |-> "none",
         claims |-> FALSE, patch |-> NoPatch, batch |-> {}]

NoClaim == [task |-> NoTask, user |-> NoOne]

Init ==
  /\ status = [t \in Tasks |-> "unborn"]
  /\ claimedBy = [t \in Tasks |-> NoOne]
  /\ executor = [t \in Tasks |-> NoOne]
  /\ specced = [t \in Tasks |-> FALSE]
  /\ linked = [t \in Tasks |-> "none"]
  /\ unread = [t \in Tasks |-> FALSE]
  /\ owed = [t \in Tasks |-> {}]
  /\ winners = [t \in Tasks |-> {}]
  /\ presence = [u \in Users |-> "none"]
  /\ mode \in Modes
  /\ archived = FALSE
  /\ call = [c \in Callers |-> Idle]
  /\ sweepRows = {}
  /\ doomed = NoClaim
  /\ aborts = 0

----------------------------------------------------------------------------
(* What the steps share.                                                   *)

Live(t) == status[t] \in TaskStatuses

Free(c) == call[c].pc = "idle"

InFlight == {c \in Callers : ~Free(c)}

CanStart(c) == Free(c) /\ Cardinality(InFlight) < MaxInFlight

At(c, pc) == call[c].pc = pc

Reply(c) == call' = [call EXCEPT ![c] = Idle]

Await(c, pc) == call' = [call EXCEPT ![c].pc = pc]

(* The assignee of a human task acts on it as an executor.                 *)
IsExecutor(c, t) == c.actor = "user" /\ executor[t] = c.user

(* The widest map the actor may be granted: whether an agent's is widened  *)
(* is settled by the read of the project in TransitionMode.                *)
OfferedMoves(c, t) ==
  IF c.actor = "agent" THEN AutonomousMoves
  ELSE IF IsExecutor(c, t) THEN AssigneeMoves ELSE HumanMoves

DispatchGate(t, to) == status[t] = "draft" /\ to = "ready" => specced[t]

ReviewGate(c, t, to) ==
  to = "needs_review" =>
    /\ c.actor = "agent" => linked[t] = "both"
    /\ IsExecutor(c, t) => linked[t] # "none"

(* An agent submitting for review has its notes looked at first.           *)
AfterMode(c, to) == IF c.actor = "agent" /\ to = "needs_review" THEN "notes" ELSE "cas"

(* The mode decides only a move the plain agent map does not hold.         *)
FirstAwait(c, from, to) ==
  IF c.actor = "agent" /\ <<from, to>> \notin AgentMoves THEN "mode" ELSE AfterMode(c, to)

(* The moves whose comment is the question or the feedback.                *)
NeedsComment(to) == to \in {"blocked", "changes_requested"}

(* What the patch does to the claim: work on a task that was unclaimed     *)
(* when read claims it, queueing it drops whatever claim it has.           *)
ClaimKeptOnQueue(k, user) == IF k.claims THEN user ELSE claimedBy[k.task]
ClaimWritten(k, user) ==
  IF k.claims THEN user ELSE IF k.to = "ready" THEN NoOne ELSE claimedBy[k.task]

WinnersAfter(k, c) ==
  IF k.to = "ready" THEN {}
  ELSE IF k.from = "ready" /\ k.to = "in_progress" THEN winners[k.task] \union {c}
  ELSE winners[k.task]

(* The WHERE clause of the compare-and-swap.                               *)
SwapsWithoutStatus(k) == Live(k.task)
Swaps(k) == status[k.task] = k.from

(* What happens after the swap: the comment, if one is due, or the reply.  *)
NoCommentStored(c, to) == "idle"
AfterSwap(c, to) == IF NeedsComment(to) THEN "comment" ELSE "idle"

----------------------------------------------------------------------------
(* Filing a task (create).                                                 *)

Create(c, t, f) ==
  /\ CanStart(c)
  /\ c.actor = "agent" => f.executor = NoOne
  /\ ~archived
  /\ status[t] = "unborn"
  /\ status' = [status EXCEPT ![t] = "draft"]
  /\ specced' = [specced EXCEPT ![t] = f.specced]
  /\ executor' = [executor EXCEPT ![t] = f.executor]
  /\ UNCHANGED <<claimedBy, linked, notes, winners, rest, call>>

----------------------------------------------------------------------------
(* transition: the one door for status changes.                            *)

TransitionRead(c, t, to) ==
  /\ CanStart(c)
  /\ ~archived /\ Live(t)
  /\ <<status[t], to>> \in OfferedMoves(c, t)
  /\ DispatchGate(t, to)
  /\ ReviewGate(c, t, to)
  /\ call' = [call EXCEPT ![c] =
                [Idle EXCEPT !.pc = FirstAwait(c, status[t], to), !.task = t,
                             !.from = status[t], !.to = to,
                             !.claims = to = "in_progress" /\ claimedBy[t] = NoOne]]
  /\ UNCHANGED <<rows, rest>>

(* projectAllowsAgentDispatch: a move outside the agent map needs the mode *)
(* that widens it.                                                         *)
TransitionMode(c) ==
  /\ At(c, "mode")
  /\ IF mode \in AgentDispatchModes THEN Await(c, AfterMode(c, call[c].to)) ELSE Reply(c)
  /\ UNCHANGED <<rows, rest>>

(* hasUnackedNotes: the submission is refused over an unread note.         *)
TransitionNotes(c) ==
  /\ At(c, "notes")
  /\ IF unread[call[c].task] THEN Reply(c) ELSE Await(c, "cas")
  /\ UNCHANGED <<rows, rest>>

TransitionSwap(c) ==
  LET k == call[c]
      t == k.task
  IN  /\ At(c, "cas") /\ Swaps(k)
      /\ status' = [status EXCEPT ![t] = k.to]
      /\ claimedBy' = [claimedBy EXCEPT ![t] = ClaimWritten(k, c.user)]
      /\ winners' = [winners EXCEPT ![t] = WinnersAfter(k, c)]
      /\ owed' = [owed EXCEPT ![t] = IF NeedsComment(k.to) THEN {c} ELSE {}]
      /\ call' = [call EXCEPT ![c] = IF AfterSwap(c, k.to) = "idle" THEN Idle
                                     ELSE [Idle EXCEPT !.pc = "comment", !.task = t]]
      /\ UNCHANGED <<cols, unread, rest>>

(* Another request moved the task first: statusConflict or alreadyClaimed. *)
TransitionConflict(c) ==
  /\ At(c, "cas") /\ ~Swaps(call[c])
  /\ Reply(c)
  /\ UNCHANGED <<rows, rest>>

TransitionComment(c) ==
  /\ At(c, "comment")
  /\ owed' = [owed EXCEPT ![call[c].task] = @ \ {c}]
  /\ Reply(c)
  /\ UNCHANGED <<status, claimedBy, cols, unread, winners, rest>>

TransitionStep(c) ==
  \/ TransitionMode(c) \/ TransitionNotes(c)
  \/ TransitionSwap(c) \/ TransitionConflict(c) \/ TransitionComment(c)

----------------------------------------------------------------------------
(* update and agentUpdateSpec: read, check, then write the row whatever it *)
(* has become.                                                             *)

PatchRead(c, t, p) ==
  /\ CanStart(c)
  /\ ~archived /\ Live(t)
  /\ call' = [call EXCEPT ![c] = [Idle EXCEPT !.pc = "patch", !.task = t, !.patch = p]]
  /\ UNCHANGED <<rows, rest>>

(* An agent reaches update through update_task_links, which carries links. *)
UpdateRead(c, t, p) ==
  /\ status[t] \notin TerminalStatuses
  /\ c.actor = "agent" => p.executor = Keep /\ p.specced = Keep
  /\ PatchRead(c, t, p)

SpecEditRead(c, t, p) ==
  /\ c.actor = "agent"
  /\ p.executor = Keep /\ p.linked = Keep
  /\ \/ status[t] = "draft"
     \/ status[t] = "in_progress" /\ claimedBy[t] = c.user
  /\ PatchRead(c, t, p)

Patched(old, new) == IF new = Keep THEN old ELSE new

PatchWrite(c) ==
  LET t == call[c].task
      p == IF Live(t) THEN call[c].patch ELSE NoPatch
  IN  /\ At(c, "patch")
      /\ executor' = [executor EXCEPT ![t] = Patched(@, p.executor)]
      /\ specced' = [specced EXCEPT ![t] = Patched(@, p.specced)]
      /\ linked' = [linked EXCEPT ![t] = Patched(@, p.linked)]
      /\ Reply(c)
      /\ UNCHANGED <<status, claimedBy, notes, winners, rest>>

----------------------------------------------------------------------------
(* addComment of kind note, and getNotes.                                  *)

NoteRead(c, t) ==
  /\ CanStart(c) /\ c.actor = "user"
  /\ ~archived
  /\ status[t] = "in_progress"
  /\ call' = [call EXCEPT ![c] = [Idle EXCEPT !.pc = "note", !.task = t]]
  /\ UNCHANGED <<rows, rest>>

(* The insert fails on a task that is gone (its foreign key).              *)
NoteWrite(c) ==
  /\ At(c, "note")
  /\ unread' = [unread EXCEPT ![call[c].task] = Live(call[c].task)]
  /\ Reply(c)
  /\ UNCHANGED <<status, claimedBy, cols, owed, winners, rest>>

GetNotesRead(c, t) ==
  /\ CanStart(c) /\ c.actor = "agent"
  /\ Live(t) /\ claimedBy[t] = c.user
  /\ call' = [call EXCEPT ![c] = [Idle EXCEPT !.pc = "ack", !.task = t]]
  /\ UNCHANGED <<rows, rest>>

AckNotes(c) ==
  /\ At(c, "ack")
  /\ unread' = [unread EXCEPT ![call[c].task] = FALSE]
  /\ Reply(c)
  /\ UNCHANGED <<status, claimedBy, cols, owed, winners, rest>>

----------------------------------------------------------------------------
(* delete, and markReady's bulk promotion.                                 *)

DeleteRead(c, t) ==
  /\ CanStart(c) /\ c.actor = "user"
  /\ ~archived
  /\ status[t] = "draft"
  /\ call' = [call EXCEPT ![c] = [Idle EXCEPT !.pc = "erase", !.task = t]]
  /\ UNCHANGED <<rows, rest>>

(* The DELETE carries no status: it takes the row as it is by then, and    *)
(* the columns and comments go with it.                                    *)
DeleteWrite(c) ==
  LET t == call[c].task
  IN  /\ At(c, "erase")
      /\ status' = [status EXCEPT ![t] = "deleted"]
      /\ claimedBy' = [claimedBy EXCEPT ![t] = NoOne]
      /\ executor' = [executor EXCEPT ![t] = NoOne]
      /\ specced' = [specced EXCEPT ![t] = FALSE]
      /\ linked' = [linked EXCEPT ![t] = "none"]
      /\ unread' = [unread EXCEPT ![t] = FALSE]
      /\ owed' = [owed EXCEPT ![t] = {}]
      /\ winners' = [winners EXCEPT ![t] = {}]
      /\ Reply(c)
      /\ UNCHANGED rest

(* The drafts a promotion names: any, by a scope of the request and the    *)
(* prerequisites it pulls in (TaskDependencies says which).                *)
MarkReadyRead(c, batch) ==
  /\ CanStart(c) /\ c.actor = "user"
  /\ ~archived
  /\ batch # {}
  /\ \A t \in batch : status[t] = "draft" /\ specced[t]
  /\ call' = [call EXCEPT ![c] = [Idle EXCEPT !.pc = "promote", !.batch = batch]]
  /\ UNCHANGED <<rows, rest>>

MarkReadyWrite(c) ==
  LET moved == {t \in call[c].batch : status[t] = "draft"}
  IN  /\ At(c, "promote")
      /\ status' = [t \in Tasks |-> IF t \in moved THEN "ready" ELSE status[t]]
      /\ claimedBy' = [t \in Tasks |-> IF t \in moved THEN NoOne ELSE claimedBy[t]]
      /\ winners' = [t \in Tasks |-> IF t \in moved THEN {} ELSE winners[t]]
      /\ Reply(c)
      /\ UNCHANGED <<cols, notes, rest>>

----------------------------------------------------------------------------
(* The project, and the agents' presence (heartbeats and the stamp every   *)
(* successful agent call leaves behind; time makes it stale).              *)

SetMode(m) ==
  /\ ~archived
  /\ mode' = m
  /\ UNCHANGED <<rows, presence, archived, sweep, aborts, call>>

SetArchived(b) ==
  /\ archived' = b
  /\ UNCHANGED <<rows, presence, mode, sweep, aborts, call>>

Touch(u) ==
  /\ presence' = [presence EXCEPT ![u] = "fresh"]
  /\ UNCHANGED <<rows, proj, sweep, aborts, call>>

GoSilent(u) ==
  /\ presence[u] = "fresh"
  /\ presence' = [presence EXCEPT ![u] = "stale"]
  /\ UNCHANGED <<rows, proj, sweep, aborts, call>>

----------------------------------------------------------------------------
(* The agent sweep: read a batch of claims, then for each one look at the  *)
(* claimant's presence and release the task.                               *)

ClaimRows == {[task |-> t, user |-> claimedBy[t]] : t \in {x \in Tasks : status[x] = "in_progress"}}

(* The SELECT has a LIMIT and no ORDER BY.  A row without a claimant is    *)
(* skipped as soon as it is met.                                           *)
SweepRead(batch) ==
  /\ sweepRows = {} /\ doomed = NoClaim
  /\ batch \subseteq ClaimRows
  /\ Cardinality(batch) =
       IF Cardinality(ClaimRows) < SweepBatch THEN Cardinality(ClaimRows) ELSE SweepBatch
  /\ sweepRows' = {r \in batch : r.user # NoOne}
  /\ UNCHANGED <<rows, presence, proj, doomed, aborts, call>>

(* No agent row is no evidence, and a recent one is evidence of life.      *)
DeadNever(user) == FALSE
Dead(user) == presence[user] = "stale"

SweepJudge(r) ==
  /\ doomed = NoClaim /\ r \in sweepRows
  /\ sweepRows' = sweepRows \ {r}
  /\ doomed' = IF Dead(r.user) THEN r ELSE NoClaim
  /\ UNCHANGED <<rows, presence, proj, aborts, call>>

(* The WHERE clause of the release.                                        *)
ReleasesAnyStatus(t) == Live(t)
Releases(t) == status[t] = "in_progress"

SweepRelease ==
  LET t == doomed.task
  IN  /\ doomed # NoClaim
      /\ IF Releases(t)
         THEN /\ status' = [status EXCEPT ![t] = "ready"]
              /\ claimedBy' = [claimedBy EXCEPT ![t] = NoOne]
              /\ winners' = [winners EXCEPT ![t] = {}]
              /\ owed' = [owed EXCEPT ![t] = {}]
         ELSE UNCHANGED <<status, claimedBy, winners, owed>>
      /\ doomed' = NoClaim
      /\ UNCHANGED <<cols, unread, presence, proj, sweepRows, aborts, call>>

SweepStep ==
  \/ \E batch \in SUBSET ClaimRows : SweepRead(batch)
  \/ \E r \in sweepRows : SweepJudge(r)
  \/ SweepRelease

----------------------------------------------------------------------------
(* A process of the api or of the worker dies with what it had in flight.  *)

CallDies(c) ==
  /\ aborts < MaxAborts
  /\ ~Free(c)
  /\ Reply(c)
  /\ aborts' = aborts + 1
  /\ UNCHANGED <<rows, presence, proj, sweep>>

SweepDies ==
  /\ aborts < MaxAborts
  /\ sweepRows # {} \/ doomed # NoClaim
  /\ sweepRows' = {} /\ doomed' = NoClaim
  /\ aborts' = aborts + 1
  /\ UNCHANGED <<rows, presence, proj, call>>

----------------------------------------------------------------------------
Request(c) ==
  \/ \E t \in Tasks, f \in Filings : Create(c, t, f)
  \/ \E t \in Tasks, to \in TaskStatuses : TransitionRead(c, t, to)
  \/ \E t \in Tasks, p \in Requests : UpdateRead(c, t, p) \/ SpecEditRead(c, t, p)
  \/ \E t \in Tasks : NoteRead(c, t) \/ GetNotesRead(c, t) \/ DeleteRead(c, t)
  \/ \E batch \in SUBSET Tasks : MarkReadyRead(c, batch)

Continue(c) ==
  \/ TransitionStep(c)
  \/ PatchWrite(c) \/ NoteWrite(c) \/ AckNotes(c) \/ DeleteWrite(c) \/ MarkReadyWrite(c)

Surroundings ==
  \/ \E m \in Modes : SetMode(m)
  \/ \E b \in Archivals : SetArchived(b)
  \/ \E u \in Agents : Touch(u) \/ GoSilent(u)
  \/ SweepDies
  \/ \E c \in Callers : CallDies(c)

Next ==
  \/ \E c \in Callers : Request(c) \/ Continue(c)
  \/ SweepStep
  \/ Surroundings

(* The worker's scheduler repeats the sweep every five minutes, and a      *)
(* server that has accepted a request runs it.  Nobody is obliged to send  *)
(* one, and no project or agent has to change.                             *)
Spec ==
  /\ Init /\ [][Next]_vars
  /\ WF_vars(SweepStep)
  /\ \A c \in Callers : WF_vars(Continue(c))

----------------------------------------------------------------------------
(* Properties.                                                             *)

CallStates ==
  [pc : {"idle", "mode", "notes", "cas", "comment", "patch", "note", "ack", "erase", "promote"},
   task : Tasks \union {NoTask}, from : TaskStatuses \union {"none"},
   to : TaskStatuses \union {"none"}, claims : BOOLEAN,
   patch : Patches, batch : SUBSET Tasks]

(* Every variable keeps its type.                                          *)
TypeOK ==
  /\ status \in [Tasks -> Conditions]
  /\ claimedBy \in [Tasks -> Users \union {NoOne}]
  /\ executor \in [Tasks -> Humans \union {NoOne}]
  /\ specced \in [Tasks -> BOOLEAN]
  /\ linked \in [Tasks -> LinkStates]
  /\ unread \in [Tasks -> BOOLEAN]
  /\ owed \in [Tasks -> SUBSET Callers]
  /\ winners \in [Tasks -> SUBSET Callers]
  /\ presence \in [Users -> {"none", "fresh", "stale"}]
  /\ mode \in Modes /\ archived \in BOOLEAN
  /\ call \in [Callers -> CallStates]
  /\ sweepRows \subseteq [task : Tasks, user : Users]
  /\ doomed \in [task : Tasks, user : Users] \union {NoClaim}
  /\ aborts \in 0..MaxAborts

(* A task nobody has started is nobody's: a draft or a queued task carries *)
(* no claim, whichever of a transition, a promotion or the sweep queued it *)
(* and whatever stale request writes over it afterwards.                   *)
QueuedIsUnclaimed ==
  \A t \in Tasks : status[t] \in {"draft", "ready"} => claimedBy[t] = NoOne

(* A queued task is won once: between two queueings of a task, at most one *)
(* of all the requests that read it as ready gets to claim it.             *)
ClaimedOnce ==
  \A t \in Tasks : \A c, d \in winners[t] : c = d

(* A task is blocked without its question, or sent back without its        *)
(* feedback, only while the request that moved it is about to store the    *)
(* comment: nothing but the death of that request loses it.                *)
QuestionOnFile ==
  \A t \in Tasks : \A c \in owed[t] :
    aborts > 0 \/ (At(c, "comment") /\ call[c].task = t)

(* The board the service promises: see TaskBoard.                          *)
Board == INSTANCE TaskBoard
  WITH Tasks <- Tasks, Users <- Users, NoOne <- NoOne,
       status <- status, claimedBy <- claimedBy
KeepsTheBoard == Board!BoardSpec

(* A dead agent never wedges the board: a user whose agents have gone      *)
(* silent for good does not keep a task in progress for ever.              *)
DeadClaimReleased ==
  \A t \in Tasks, u \in Agents :
    <>[](presence[u] = "stale") => []<>~(status[t] = "in_progress" /\ claimedBy[t] = u)

----------------------------------------------------------------------------
(* Why the invariants above hold: what a request in flight still knows of  *)
(* the row it has read, whatever happened to the row since.                *)

RequestKnows(c) ==
  LET k == call[c]
  IN  /\ k.pc \notin {"idle", "promote"} => k.task \in Tasks /\ status[k.task] # "unborn"
      /\ k.pc \in {"mode", "notes", "cas"} =>
           /\ <<k.from, k.to>> \in AutonomousMoves
           /\ k.claims => k.to = "in_progress"
           /\ k.from = "ready" /\ k.to = "in_progress" => k.claims

RequestsKnow == \A c \in Callers : RequestKnows(c)

Unstarted == {"unborn", "draft", "ready", "deleted"}

UnstartedIsUnclaimed ==
  \A t \in Tasks : status[t] \in Unstarted => claimedBy[t] = NoOne

QueuedIsUnwon == \A t \in Tasks : status[t] = "ready" => winners[t] = {}

(* The inductive invariant.                                                *)
Inv ==
  /\ TypeOK /\ RequestsKnow
  /\ UnstartedIsUnclaimed /\ QueuedIsUnwon
  /\ ClaimedOnce /\ QuestionOnFile
=============================================================================
