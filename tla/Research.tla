------------------------------ MODULE Research ------------------------------
(***************************************************************************)
(* One research document: a conversation between people and an agent, in   *)
(* which the agent publishes drafts and a human accepts one.               *)
(*                                                                         *)
(* A request reads the document, stores its message and then writes the    *)
(* document by its id; the write looks at nothing.                         *)
(***************************************************************************)
EXTENDS Naturals

CONSTANTS
  Calls,    \* requests under way at once
  MaxTurns, \* bound: messages in the conversation
  MaxDeaths \* bound: requests cut off by a restart of the api

VARIABLES
  doc,      \* the row: status, version, acceptedAt is set
  call,     \* the requests in progress; heard: no reply since it was read
  turns,    \* messages: of agents (each with a draft), of people
  drafts,   \* history: publications that have written the document
  unheard,  \* history: a reply came after what the last publication read
  excused,  \* history: that reply met another request, or was cut off
  deaths    \* counter, for the bound

vars == <<doc, call, turns, drafts, unheard, excused, deaths>>

Idle == [pc |-> "idle", version |-> 0, heard |-> FALSE]

(* An optional first message asks for a turn.                              *)
Init ==
  /\ doc = [status |-> "researching", version |-> 0, accepted |-> FALSE]
  /\ call = [c \in Calls |-> Idle]
  /\ turns = [agent |-> 0, people |-> 0]
  /\ drafts = 0
  /\ unheard \in BOOLEAN
  /\ excused = FALSE
  /\ deaths = 0

Exists == doc.status # "deleted"
Reaches(c, pc) == call' = [call EXCEPT ![c].pc = pc]
Ends(c) == call' = [call EXCEPT ![c] = Idle]
Says(who) ==
  /\ turns.agent + turns.people < MaxTurns
  /\ turns' = [turns EXCEPT ![who] = @ + 1]

(* update: by id, nothing if the row is gone.                              *)
Writes(new) == doc' = IF Exists THEN new ELSE doc
Others(c) == \E d \in Calls \ {c} : call[d] # Idle

----------------------------------------------------------------------------
(* The agent court: agentAppend.                                           *)

AgentReads(c) ==
  /\ call[c] = Idle /\ Exists
  /\ call' = [call EXCEPT ![c] = [pc |-> "publish", version |-> doc.version,
                                  heard |-> TRUE]]
  /\ UNCHANGED <<doc, turns, drafts, unheard, excused, deaths>>

(* The message references the row, so it fails once that is gone.          *)
AgentSays(c) ==
  /\ call[c].pc = "publish"
  /\ IF Exists THEN Says("agent") /\ Reaches(c, "draft")
               ELSE Ends(c) /\ UNCHANGED turns
  /\ UNCHANGED <<doc, drafts, unheard, excused, deaths>>

NextVersion(c) == call[c].version + 1

Publishes(c) ==
  /\ call[c].pc = "draft"
  /\ Writes([doc EXCEPT !.status = "needs_review", !.version = NextVersion(c)])
  /\ drafts' = IF Exists THEN drafts + 1 ELSE drafts
  /\ unheard' = (unheard /\ ~call[c].heard)
  /\ Ends(c)
  /\ UNCHANGED <<turns, excused, deaths>>

----------------------------------------------------------------------------
(* The human side.                                                         *)

(* appendMessage: the message, then the status.                            *)
ReplySays(c) ==
  /\ call[c] = Idle /\ Exists
  /\ Says("people")
  /\ call' = [d \in Calls |-> IF d = c THEN [Idle EXCEPT !.pc = "reply"]
                              ELSE [call[d] EXCEPT !.heard = FALSE]]
  /\ unheard' = TRUE
  /\ excused' = (Others(c) \/ (excused /\ unheard))
  /\ UNCHANGED <<doc, drafts, deaths>>

ReplyForgotten(c) ==
  /\ call[c].pc = "reply"
  /\ Writes(IF doc.status = "accepted" THEN doc ELSE [doc EXCEPT !.status = "researching"])
  /\ Ends(c)
  /\ excused' = (excused \/ Others(c))
  /\ UNCHANGED <<turns, drafts, unheard, deaths>>

ReplyAwaits(c) ==
  /\ call[c].pc = "reply"
  /\ Writes([doc EXCEPT !.status = "researching"])
  /\ Ends(c)
  /\ excused' = (excused \/ Others(c))
  /\ UNCHANGED <<turns, drafts, unheard, deaths>>

AcceptReads(c) ==
  /\ call[c] = Idle /\ doc.status = "needs_review"
  /\ Reaches(c, "accept")
  /\ UNCHANGED <<doc, turns, drafts, unheard, excused, deaths>>

AcceptWrites(c) ==
  /\ call[c].pc = "accept"
  /\ Writes([doc EXCEPT !.status = "accepted", !.accepted = TRUE])
  /\ Ends(c)
  /\ UNCHANGED <<turns, drafts, unheard, excused, deaths>>

(* With its feedback as a message.                                         *)
ReopenReads(c) ==
  /\ call[c] = Idle /\ doc.status = "accepted"
  /\ Reaches(c, "feedback")
  /\ UNCHANGED <<doc, turns, drafts, unheard, excused, deaths>>

ReopenSays(c) ==
  /\ call[c].pc = "feedback"
  /\ IF Exists THEN Says("people") /\ Reaches(c, "reopen")
               ELSE Ends(c) /\ UNCHANGED turns
  /\ UNCHANGED <<doc, drafts, unheard, excused, deaths>>

ReopenWrites(c) ==
  /\ call[c].pc = "reopen"
  /\ Writes([doc EXCEPT !.status = "needs_review", !.accepted = FALSE])
  /\ Ends(c)
  /\ UNCHANGED <<turns, drafts, unheard, excused, deaths>>

Delete ==
  /\ Exists
  /\ doc' = [doc EXCEPT !.status = "deleted"]
  /\ UNCHANGED <<call, turns, drafts, unheard, excused, deaths>>

CallDies(c) ==
  /\ call[c] # Idle /\ deaths < MaxDeaths
  /\ Ends(c)
  /\ deaths' = deaths + 1
  /\ excused' = (excused \/ call[c].pc = "reply")
  /\ UNCHANGED <<doc, turns, drafts, unheard>>

AgentAppend(c) == AgentReads(c) \/ AgentSays(c) \/ Publishes(c)
Reply(c) == ReplySays(c) \/ ReplyAwaits(c)
Accept(c) == AcceptReads(c) \/ AcceptWrites(c)
Reopen(c) == ReopenReads(c) \/ ReopenSays(c) \/ ReopenWrites(c)

Next ==
  \/ \E c \in Calls : AgentAppend(c) \/ Reply(c) \/ Accept(c) \/ Reopen(c) \/ CallDies(c)
  \/ Delete

Spec == Init /\ [][Next]_vars

----------------------------------------------------------------------------
(* Properties.                                                             *)

TypeOK ==
  /\ doc \in [status : {"researching", "needs_review", "accepted", "deleted"},
              version : 0 .. MaxTurns, accepted : BOOLEAN]
  /\ call \in [Calls -> [pc : {"idle", "publish", "draft", "reply", "accept",
                               "feedback", "reopen"},
                         version : 0 .. MaxTurns, heard : BOOLEAN]]
  /\ turns \in [agent : 0 .. MaxTurns, people : 0 .. MaxTurns]
  /\ turns.agent + turns.people <= MaxTurns
  /\ drafts \in 0 .. turns.agent
  /\ unheard \in BOOLEAN /\ excused \in BOOLEAN
  /\ deaths \in 0 .. MaxDeaths

(* A version stands for a draft that was published, never more of them;    *)
(* and nobody reviews or accepts a document without one, however old the   *)
(* readings are on which it is accepted or reopened.                       *)
VersionsAreDrafts ==
  /\ doc.version <= drafts
  /\ doc.status \in {"needs_review", "accepted"} => doc.version >= 1

(* What somebody replied is awaited, until an agent publishes that has     *)
(* read it; unless the reply met another request or was cut off.           *)
RepliesAreAwaited ==
  unheard /\ ~excused /\ Exists /\ (\A c \in Calls : call[c] = Idle)
    => doc.status = "researching"

----------------------------------------------------------------------------
(* What the code does not keep: TLC refutes it, see README, section 4.     *)

(* Each publication bumps the version.                                     *)
EveryDraftCounts == Exists => doc.version = drafts

(* What a human accepted is reopened by humans only.                       *)
AcceptedStays ==
  [][\A c \in Calls :
       doc.status = "accepted" /\ call[c].pc = "draft" /\ call'[c] # call[c]
         => doc'.status = "accepted"]_vars

=============================================================================
