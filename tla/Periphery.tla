------------------------------ MODULE Periphery ------------------------------
(***************************************************************************)
(* What surrounds the boards and the environments: browser shells, checks  *)
(* of servers, image transfers, attachments, research documents, the       *)
(* credentials of the mobile app, and the sessions of managed agents.      *)
(* They run beside each other and share nothing, so that a behaviour of    *)
(* all is one of each: at says of which this one is, and the others rest.  *)
(***************************************************************************)
EXTENDS Naturals

CONSTANTS
  Parts,                                   \* of which an instance checks some
  Sessions, MaxConcurrent, Ttl, IdleFor, RenewWithin, MaxTotal, LastIssue, \* Shells
  Hosts, Keys, None, MaxEdits, MaxChanges, \* ServerChecks
  Chunks, Window, MaxChecks,                 \* Transfer
  Calls,                                   \* Attachments, Research
  MaxTurns,                                \* Research
  Requests, Flow, MaxPairs,                \* MobileSession
  MaxClicks, MaxCrashes, MaxFails, MaxLosses, \* ManagedAgents
  MaxDeaths                                \* bound: processes killed, answers lost

ASSUME BoundsAssumption ==
  /\ {MaxConcurrent, Ttl, IdleFor, RenewWithin, MaxTotal, LastIssue, MaxEdits, MaxChanges,
      Chunks, Window, MaxChecks, MaxTurns, MaxPairs, MaxClicks, MaxCrashes, MaxFails,
      MaxLosses, MaxDeaths} \subseteq Nat
  /\ 0 < MaxPairs \* of which the app may start with one

ASSUME WindowsAssumption ==
  /\ 0 < RenewWithin /\ 0 < IdleFor /\ RenewWithin <= Ttl /\ Ttl <= MaxTotal
  /\ 0 < MaxChecks

ASSUME PartsAssumption ==
  Parts \subseteq
    {"shells", "checks", "transfer", "attachments", "research", "mobile", "agents"}

ASSUME FlowAssumption == Flow \notin Requests

VARIABLES
  at, deaths,
  now, server, shell, live,                                  \* Shells
  srv, check, asked, machine, edits, changes, overlapped,    \* ServerChecks
  pipe, source, sent, taken, dest, watch, aborted, result,   \* Transfer
  row, store, subject, upload, sweep, blipped, torn,         \* Attachments
  doc, turn, turns, drafts, unheard, excused,                \* Research
  status, jar, flow, req, flight, pair, fresh, lost, crossed, \* MobileSession
  presence, hosted, session, wish, handing, last, outcome, queue, job, touch, poll,
  crashes, fails, losses                                     \* ManagedAgents

Sh == INSTANCE Shells
Ch == INSTANCE ServerChecks WITH crossed <- overlapped
Tr == INSTANCE Transfer
At == INSTANCE Attachments WITH call <- upload
Re == INSTANCE Research WITH call <- turn
Mo == INSTANCE MobileSession WITH faults <- deaths, MaxFaults <- MaxDeaths
Ma == INSTANCE ManagedAgents
        WITH status <- presence, sweep <- poll, deaths <- crashes, MaxDeaths <- MaxCrashes

shells == <<now, server, shell, live>>
checks == <<srv, check, asked, machine, edits, changes, overlapped>>
transfer == <<pipe, source, sent, taken, dest, watch, aborted, result>>
attachments == <<row, store, subject, upload, sweep, blipped, torn>>
research == <<doc, turn, turns, drafts, unheard, excused>>
mobile == <<status, jar, flow, req, flight, pair, fresh, lost, crossed>>
agents == <<presence, hosted, session, wish, handing, last, outcome, queue, job, touch, poll,
            crashes, fails, losses>>
vars == <<at, deaths, shells, checks, transfer, attachments, research, mobile, agents>>

(* Those that rest do so in one initial state.                             *)
Init ==
  /\ at \in Parts
  /\ Sh!Init /\ Ch!Init /\ Tr!Init /\ At!Init /\ Re!Init /\ Mo!Init /\ Ma!Init
  /\ at # "research" => ~unheard
  /\ at # "mobile" => jar.refresh = 0
  /\ at # "checks" => srv.host = CHOOSE h \in Hosts : TRUE
  /\ at # "checks" => \A h \in Hosts : machine[h].key = CHOOSE k \in Keys : TRUE

Shell ==
  /\ at = "shells" /\ Sh!Next
  /\ UNCHANGED <<at, checks, transfer, attachments, research, mobile, agents>>
Checking ==
  /\ at = "checks" /\ Ch!Next
  /\ UNCHANGED <<at, deaths, shells, transfer, attachments, research, mobile, agents>>
Transferring ==
  /\ at = "transfer" /\ Tr!Next
  /\ UNCHANGED <<at, deaths, shells, checks, attachments, research, mobile, agents>>
Attaching ==
  /\ at = "attachments" /\ At!Next
  /\ UNCHANGED <<at, shells, checks, transfer, research, mobile, agents>>
Researching ==
  /\ at = "research" /\ Re!Next
  /\ UNCHANGED <<at, shells, checks, transfer, attachments, mobile, agents>>
Device ==
  /\ at = "mobile" /\ Mo!Next
  /\ UNCHANGED <<at, shells, checks, transfer, attachments, research, agents>>
Hosting ==
  /\ at = "agents" /\ Ma!Next
  /\ UNCHANGED <<at, deaths, shells, checks, transfer, attachments, research, mobile>>

Next == Shell \/ Checking \/ Transferring \/ Attaching \/ Researching \/ Device \/ Hosting

Spec == Init /\ [][Next]_vars

(* Of each what its own FairSpec asks for.                                 *)
FairSpec ==
  /\ Spec
  /\ WF_shells(at = "shells" /\ Sh!Tick)
  /\ \A s \in Sessions :
       /\ WF_shells(at = "shells" /\ Sh!Timers(s))
       /\ WF_shells(at = "shells" /\ Sh!FindServer(s))
       /\ WF_shells(at = "shells" /\ Sh!CloseRow(s))
  /\ WF_checks(at = "checks" /\ Ch!ReadRow("sweep"))
  /\ SF_checks(at = "checks" /\ Ch!TestConnection("sweep"))
  /\ SF_checks(at = "checks" /\ Ch!WriteStatus("sweep"))
  /\ WF_checks(at = "checks" /\ Ch!CheckOne("asked"))
  /\ WF_transfer(at = "transfer" /\ Tr!Listen)
  /\ WF_transfer(at = "transfer" /\ Tr!Check)
  /\ WF_transfer(at = "transfer" /\ Tr!Flows)
  /\ WF_transfer(at = "transfer" /\ Tr!Finally)
  /\ WF_attachments(at = "attachments" /\ At!SweepStep)
  /\ WF_attachments(at = "attachments" /\ At!Ages)
  /\ WF_attachments(at = "attachments" /\ At!RetentionEnds)

FairAgents ==
  /\ Spec
  /\ WF_agents(at = "agents" /\ Ma!WorkerStep)
  /\ WF_agents(at = "agents" /\ Ma!SweepStep)
  /\ \A c \in Ma!Clicks : WF_agents(at = "agents" /\ Ma!EnqueueStart(c))

----------------------------------------------------------------------------
(* Properties: each part is stated, and explained, where its name leads.   *)

(* Every variable has its type.                                            *)
TypeOK ==
  /\ Sh!TypeOK /\ Ch!TypeOK /\ Tr!TypeOK /\ At!TypeOK /\ Re!TypeOK /\ Mo!TypeOK
  /\ Ma!TypeOK

(* A forgotten terminal does not stay open, whatever it prints.            *)
ForgottenEnds == Sh!ForgottenEnds

(* A transfer is failed for silence only while the source still sends, and *)
(* what is loaded is whole.                                                *)
SilenceIsDeath == Tr!SilenceIsDeath

(* What is served is in the store, and nothing is in the store of a row    *)
(* that the sweep removed.                                                 *)
StoreMatchesRow == At!ServedIsStored /\ At!NothingLeftBehind

(* A version is a draft, and what is reviewed has one; what somebody       *)
(* replied is awaited until an agent has read it.                          *)
RepliesAreAwaited == Re!VersionsAreDrafts /\ Re!RepliesAreAwaited

(* The app presents no token it knows to be spent.                         *)
NeverSpentTwice == Mo!NeverSpentTwice

(* An agent its row calls stopped holds no session on the box, unless a    *)
(* start is under way or was given up.                                     *)
StoppedIsGone == Ma!StoppedIsGone

(* What the person who asked last wanted is what the box shows.            *)
LastWordHolds == Ma!LastWordHolds

(* What the audit trail says of a shell that is over is final; the pin of  *)
(* a server stays until an edit resets it; and a failure that may pass     *)
(* does not cost the app its credentials.                                  *)
NothingTakenBack == Sh!TrailIsFinal /\ Ch!NeverRepinned /\ Mo!KeepsCredentials

(* Every audit row is closed in the end, every transfer settles, and an    *)
(* attachment that is never confirmed, or is deleted, is collected.        *)
ComesToAnEnd == Sh!TrailCloses /\ (at = "transfer" => Tr!ComesToAnEnd) /\ At!IsCollected

(* The row of a server comes to say the truth.                             *)
SaysTheTruth == at = "checks" => Ch!SaysTheTruth

(* Nor does that of an agent stay wrong.                                   *)
Settles == at = "agents" => Ma!Settles

=============================================================================
