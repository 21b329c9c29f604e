---------------------------- MODULE AutoProgress ----------------------------
(***************************************************************************)
(* How a submitted task gets approved, merged and done without a human:    *)
(* the automation modes.                                                   *)
(*                                                                         *)
(* One task of one project, its row, the pull request of its branch on     *)
(* GitHub, and everyone who moves them:                                    *)
(*   - the api's requests (req[r]): a submission or an approval that goes  *)
(*     on to open the pull request, approve and merge; the merge and sync  *)
(*     buttons;                                                            *)
(*   - the worker (wk), taking GitHub's webhook events one at a time;      *)
(*   - the sweep (swp), opening the pull request of a parked submission;   *)
(*   - GitHub, CI and the people who use GitHub directly.                  *)
(* Each reads the row or asks GitHub and acts later on what it has seen.   *)
(*                                                                         *)
(* Each task of a project goes its own way: what they share is the mode    *)
(* and the breaker.  The branch is recorded, and the App is installed.     *)
(***************************************************************************)
EXTENDS TaskProtocol, Sequences

CONSTANTS
  Slots,       \* api requests that may be in flight
  Modes,       \* the project modes tried
  Acts,        \* which of the Choices people make
  Verdicts,    \* what CI may say of the branch
  MaxReports,  \* bound: what CI and people on GitHub do
  MaxDeaths    \* bound: how often a request or a webhook job dies half way

ASSUME ModesAssumption == Modes \subseteq ProjectModes
Choices ==
  {"decide", "assume", "clear", "merge", "sync", "resume", "mode",   \* in specbook
   "close", "land"}                                                  \* on GitHub

ASSUME ActsAssumption == Acts \subseteq Choices
ASSUME VerdictsAssumption == Verdicts \subseteq {"pending", "passing", "failing"}
ASSUME BoundsAssumption == MaxReports \in Nat /\ MaxDeaths \in Nat

VARIABLES
  status,      \* task.status, from the moment work on it has begun
  num,         \* task.prNumber is set
  prState,     \* task.prState
  ci,          \* task.ciState
  flag,        \* task.assumptionFlag is set
  isHuman,     \* task.isHumanTask
  mode,        \* project.mode
  paused,      \* project.autoPausedAt is set: the breaker
  pr,          \* the branch's pull request on GitHub
  automerged,  \* history: the automation merged it
  unattended,  \* history: something happened after which no code looks at the
               \* task by itself: GitHub refused a merge, or a line below says so
  queue,       \* the webhook jobs, in order of arrival
  req,         \* req[r]: an api request past its first step
  wk,          \* the webhook job in progress
  swp,         \* the sweep's look at a parked submission
  reports, deaths   \* what the bounds count

task == <<status, num, prState, ci, flag, isHuman>>
project == <<mode, paused>>
github == <<pr, automerged, unattended, queue>>
counts == <<reports, deaths>>
vars == <<task, project, github, req, wk, swp, counts>>

Stages == {"in_progress", "needs_review", "approved", "changes_requested", "done", "cancelled"}
PrStates == {"none", "open", "closed", "merged"}
CiStates == {"none", "pending", "passing", "failing"}

PrEvent(s) == [of |-> "pr", is |-> s]
BranchEvent(s) == [of |-> "branch", is |-> s]   \* a run on the task's branch
MainEvent(s) == [of |-> "main", is |-> s]       \* a run on the default branch

NoEvent == PrEvent("none")

Idle == [pc |-> "idle", opens |-> FALSE, ripe |-> FALSE, flag |-> FALSE, num |-> FALSE,
         by |-> "machine", is |-> "none"]
IdleJob == [pc |-> "idle", event |-> NoEvent, mode |-> "manual", paused |-> FALSE,
            flag |-> FALSE, num |-> FALSE]

(* Work on the task has begun and GitHub knows nothing of it.              *)
Init ==
  /\ status = "in_progress" /\ num = FALSE /\ prState = "none" /\ ci = "none" /\ flag = FALSE
  /\ isHuman \in BOOLEAN
  /\ mode \in Modes /\ paused = FALSE
  /\ pr = "none" /\ automerged = FALSE /\ unattended = FALSE /\ queue = <<>>
  /\ req = [r \in Slots |-> Idle] /\ wk = IdleJob /\ swp = "idle"
  /\ reports = 0 /\ deaths = 0

----------------------------------------------------------------------------
(* GitHub.                                                                 *)

(* getPullRequest by branch, and createPullRequest if none is open: what   *)
(* the caller then knows is open, or merged already.                       *)
Adopts(is) ==
  \/ pr \in {"open", "merged"} /\ is = pr /\ UNCHANGED <<pr, queue>>
  \/ pr \in {"none", "closed"} /\ is = "open"
     /\ pr' = "open" /\ queue' = Append(queue, PrEvent("open"))

(* Resolving the pull request, by number if one is recorded, and asking    *)
(* GitHub to merge it.                                                     *)
Opened == pr = "open"
Missing(n) == ~n /\ pr \in {"none", "closed"}
Announced(n) == IF Missing(n) THEN Append(queue, PrEvent("open")) ELSE queue

Lands(n, who) ==
  \/ ~n /\ pr = "merged" /\ UNCHANGED github
  \/ /\ Opened \/ Missing(n)
     /\ pr' = "merged" /\ automerged' = (who = "machine")
     /\ queue' = Append(Announced(n), PrEvent("merged"))
     /\ UNCHANGED unattended

(* GitHub refuses the merge, or one of the calls fails.                    *)
Fails(n) ==
  /\ \/ UNCHANGED <<pr, queue>>
     \/ Missing(n) /\ pr' = "open" /\ queue' = Announced(n)
  /\ unattended' = (unattended \/ Opened \/ Missing(n))
  /\ UNCHANGED automerged

----------------------------------------------------------------------------
(* The row's writes.                                                       *)

RowIsMerged ==
  status' = "done" /\ prState' = "merged" /\ num' = TRUE /\ UNCHANGED <<ci, flag, isHuman>>

(* update by id, whatever the status.                                      *)
LinksPr(s) == prState' = s /\ num' = TRUE /\ UNCHANGED <<status, ci, flag, isHuman>>

Approves == status = "needs_review"
AutoApproved(cas) ==
  /\ status' = IF cas THEN "approved" ELSE status
  /\ UNCHANGED <<num, prState, ci, flag, isHuman>>

----------------------------------------------------------------------------
(* The api: transitions that set the automation going.                     *)

Free(r) == req[r].pc = "idle"

Goes(r, pc) == req' = [req EXCEPT ![r].pc = pc]

Replies(r) == req' = [req EXCEPT ![r] = Idle]

Elsewhere == UNCHANGED <<project, wk, swp, counts>>

(* What the hooks need of the row the transition returned.                 *)
Returned(pc) ==
  [Idle EXCEPT !.pc = pc,
     !.opens = ~isHuman /\ ~num /\ prState # "merged",
     !.ripe = ~isHuman /\ ci = "passing" /\ prState # "merged",
     !.flag = flag]

(* A submission sets both hooks going; they leave a human task alone, and  *)
(* its assignee's submission has none.                                     *)
HandsIn(r) ==
  IF isHuman THEN UNCHANGED req ELSE req' = [req EXCEPT ![r] = Returned("openPr")]

Submit(r) ==
  /\ Free(r)
  /\ status = "in_progress" /\ status' = "needs_review"
  /\ HandsIn(r)
  /\ UNCHANGED <<num, prState, ci, flag, isHuman, github, project, wk, swp, counts>>

(* A human moves the task along his map; an approval sets the merge going. *)
Decide(r, to) ==
  /\ "decide" \in Acts /\ Free(r)
  /\ <<status, to>> \in HumanMoves /\ to \in Stages
  /\ status' = to
  /\ IF to = "approved" THEN req' = [req EXCEPT ![r] = Returned("merging")] ELSE UNCHANGED req
  /\ unattended' = (unattended \/ to = "needs_review")
  /\ UNCHANGED <<num, prState, ci, flag, isHuman, pr, automerged, queue, project, wk, swp, counts>>

(* On an autonomous project the agent may.  Its approval sets nothing      *)
(* going, that hook is a human's; what it takes back to review goes the    *)
(* way of a submission.                                                    *)
AgentDecides(r, to) ==
  /\ "decide" \in Acts /\ Free(r) /\ mode \in AgentDispatchModes
  /\ <<status, to>> \in HumanMoves /\ to \in Stages
  /\ status' = to
  /\ IF to = "needs_review" THEN HandsIn(r) ELSE UNCHANGED req
  /\ unattended' = (unattended \/ to = "approved")
  /\ UNCHANGED <<num, prState, ci, flag, isHuman, pr, automerged, queue, project, wk, swp, counts>>

(* An agent takes up the changes requested.                                *)
TakeUp ==
  /\ status = "changes_requested" /\ status' = "in_progress"
  /\ UNCHANGED <<num, prState, ci, flag, isHuman, github, project, req, wk, swp, counts>>

SetAssumption ==
  /\ "assume" \in Acts /\ status \notin TerminalStatuses
  /\ flag' = TRUE
  /\ UNCHANGED <<status, num, prState, ci, isHuman, github, project, req, wk, swp, counts>>

ClearAssumption ==
  /\ "clear" \in Acts
  /\ flag /\ flag' = FALSE /\ unattended' = TRUE
  /\ UNCHANGED <<status, num, prState, ci, isHuman, pr, automerged, queue>>
  /\ UNCHANGED <<project, req, wk, swp, counts>>

----------------------------------------------------------------------------
(* maybeOpenReviewPr.                                                      *)

OpenReviewPr(r) ==
  /\ req[r].pc = "openPr"
  /\ Goes(r, IF req[r].opens /\ mode \in {"auto", "auto_merge"} THEN "look" ELSE "progress")
  /\ UNCHANGED <<task, github>> /\ Elsewhere

LookForPr(r) ==
  /\ req[r].pc = "look"
  /\ \/ Adopts("open") /\ Goes(r, "link")
     \/ Adopts("merged") /\ Goes(r, "already")
     \/ UNCHANGED <<pr, queue>> /\ Goes(r, "progress")   \* GitHub fails
  /\ UNCHANGED <<task, automerged, unattended>> /\ Elsewhere

LinkPr(r) ==
  /\ req[r].pc = "link"
  /\ LinksPr("open")
  /\ Goes(r, "progress")
  /\ UNCHANGED github /\ Elsewhere

(* The branch was merged out of band.                                      *)
AlreadyMerged(r) ==
  /\ req[r].pc = "already"
  /\ RowIsMerged
  /\ Goes(r, "progress")
  /\ UNCHANGED github /\ Elsewhere

----------------------------------------------------------------------------
(* maybeAutoProgress, on the row the transition returned.                  *)

Progress(r) ==
  /\ req[r].pc \in {"progress", "merging"}
  /\ IF ~req[r].ripe \/ mode \notin AutoMergeModes \/ paused THEN Replies(r)
     ELSE IF req[r].pc = "merging" THEN IF req[r].flag THEN Replies(r) ELSE Goes(r, "merge")
     ELSE IF mode \in AutoApproveModes THEN Goes(r, "approve") ELSE Replies(r)
  /\ UNCHANGED <<task, github>> /\ Elsewhere

Approve(r) ==
  /\ req[r].pc = "approve"
  /\ AutoApproved(Approves)
  /\ IF Approves /\ ~req[r].flag THEN Goes(r, "merge") ELSE Replies(r)
  /\ UNCHANGED github /\ Elsewhere

----------------------------------------------------------------------------
(* merge, by the automation or by the owner's button, and syncPr.          *)

ClickMerge(r) ==
  /\ "merge" \in Acts /\ Free(r)
  /\ req' = [req EXCEPT ![r] = [Idle EXCEPT !.pc = "merge", !.by = "person"]]
  /\ UNCHANGED <<task, github>> /\ Elsewhere

MergeRead(r) ==
  /\ req[r].pc = "merge"
  /\ IF status # "approved" \/ ci = "failing" THEN Replies(r)
     ELSE IF prState = "merged" THEN Goes(r, "finalize")
     ELSE req' = [req EXCEPT ![r].pc = "call", ![r].num = num]
  /\ UNCHANGED <<task, github>> /\ Elsewhere

(* Variant: GitHub's answer is not looked at.                              *)
MergeCallUnchecked(r) ==
  /\ req[r].pc = "call"
  /\ Lands(req[r].num, req[r].by) \/ Fails(req[r].num)
  /\ Goes(r, "finalize")
  /\ UNCHANGED task /\ Elsewhere

MergeCall(r) ==
  /\ req[r].pc = "call"
  /\ \/ Lands(req[r].num, req[r].by) /\ (Goes(r, "finalize") \/ Replies(r))   \* the answer lost
     \/ Fails(req[r].num) /\ Replies(r)
  /\ UNCHANGED task /\ Elsewhere

FinalizeMerged(r) ==
  /\ req[r].pc = "finalize"
  /\ RowIsMerged
  /\ Replies(r)
  /\ UNCHANGED github /\ Elsewhere

ClickSync(r) ==
  /\ "sync" \in Acts /\ Free(r)
  /\ pr # "none"
  /\ req' = [req EXCEPT ![r] =
       IF pr = "merged" THEN [Idle EXCEPT !.pc = "finalize", !.by = "person"]
       ELSE [Idle EXCEPT !.pc = "sync", !.is = pr]]
  /\ UNCHANGED <<task, github>> /\ Elsewhere

SyncWrite(r) ==
  /\ req[r].pc = "sync"
  /\ LinksPr(req[r].is)
  /\ Replies(r)
  /\ UNCHANGED github /\ Elsewhere

RequestStep(r) ==
  \/ OpenReviewPr(r) \/ LookForPr(r) \/ LinkPr(r) \/ AlreadyMerged(r)
  \/ Progress(r) \/ Approve(r)
  \/ MergeRead(r) \/ MergeCall(r) \/ FinalizeMerged(r) \/ SyncWrite(r)

----------------------------------------------------------------------------
(* The worker: one webhook event at a time, on the project as it was when  *)
(* the job began.                                                          *)

Around == UNCHANGED <<req, swp, counts>>

JobAt(pc) == wk' = [wk EXCEPT !.pc = pc]
JobEnds == wk' = IdleJob

TakeEvent ==
  /\ wk.pc = "idle" /\ queue # <<>>
  /\ wk' = [IdleJob EXCEPT !.pc = "apply", !.event = Head(queue), !.mode = mode, !.paused = paused]
  /\ queue' = Tail(queue)
  /\ UNCHANGED <<task, project, pr, automerged, unattended>> /\ Around

ApplyPullRequest ==
  /\ wk.pc = "apply" /\ wk.event.of = "pr"
  /\ LinksPr(wk.event.is)
  /\ CASE wk.event.is = "merged" -> JobAt("complete")
       [] wk.event.is = "open"   -> JobAt("candidates")
       [] OTHER                  -> JobEnds
  /\ UNCHANGED <<project, github>> /\ Around

CompleteMerged ==
  /\ wk.pc = "complete"
  /\ status' = IF status = "approved" THEN "done" ELSE status
  /\ JobEnds
  /\ UNCHANGED <<num, prState, ci, flag, isHuman, project, github>> /\ Around

RescanParked == wk' = [wk EXCEPT !.pc = "candidates", !.paused = FALSE]

(* The breaker: a red default branch trips it, a green one resets it and   *)
(* has the parked tasks looked at again.                                   *)
ApplyMainRun ==
  /\ wk.pc = "apply" /\ wk.event.of = "main"
  /\ IF wk.mode \in AutoMergeModes /\ wk.event.is = "failing" /\ ~wk.paused
     THEN paused' = TRUE /\ JobEnds
     ELSE IF wk.mode \in AutoMergeModes /\ wk.event.is = "passing" /\ wk.paused
     THEN paused' = FALSE /\ RescanParked
     ELSE UNCHANGED paused /\ JobEnds
  /\ UNCHANGED <<task, mode, github>> /\ Around

ApplyBranchRun ==
  /\ wk.pc = "apply" /\ wk.event.of = "branch"
  /\ ci' = wk.event.is
  /\ IF wk.event.is = "passing" THEN JobAt("candidates") ELSE JobEnds
  /\ UNCHANGED <<status, num, prState, flag, isHuman, project, github>> /\ Around

(* autoProgress: the candidate, as the engine reads it.  (AnyLane: the     *)
(* variant without the human lane.)                                        *)
AnyLane == TRUE
AgentLane == ~isHuman

Candidate ==
  /\ wk.mode \in AutoMergeModes
  /\ status \in {"needs_review", "approved"} /\ ci = "passing" /\ AgentLane
  /\ ~wk.paused
  /\ status = "needs_review" => wk.mode = "auto"
  /\ prState # "merged"

(* An approved candidate with an assumption flag is not merged; one under   *)
(* review is approved first.                                               *)
HeldByFlag == status = "approved" /\ flag

SelectCandidates ==
  /\ wk.pc = "candidates"
  /\ IF Candidate /\ ~HeldByFlag
     THEN wk' = [wk EXCEPT !.flag = flag, !.num = num,
                   !.pc = IF status = "needs_review" THEN "approve" ELSE "call"]
     ELSE JobEnds
  /\ UNCHANGED <<task, project, github>> /\ Around

JobApproves ==
  /\ wk.pc = "approve"
  /\ AutoApproved(Approves)
  /\ IF Approves /\ ~wk.flag THEN JobAt("call") ELSE JobEnds
  /\ UNCHANGED <<project, github>> /\ Around

JobMerges ==
  /\ wk.pc = "call"
  /\ \/ Lands(wk.num, "machine") /\ (JobAt("finalize") \/ JobEnds)
     \/ Fails(wk.num) /\ JobEnds
  /\ UNCHANGED <<task, project>> /\ Around

(* (CompletesAny: the variant by id alone, as the api's finalizeMerged.)    *)
CompletesAny == TRUE
Completes == status \in {"needs_review", "approved"}
JobFinalizes ==
  /\ wk.pc = "finalize"
  /\ IF Completes THEN RowIsMerged ELSE UNCHANGED task
  /\ JobEnds
  /\ UNCHANGED <<project, github>> /\ Around

WorkerStep ==
  \/ TakeEvent \/ ApplyPullRequest \/ CompleteMerged \/ ApplyMainRun \/ ApplyBranchRun
  \/ SelectCandidates \/ JobApproves \/ JobMerges \/ JobFinalizes

----------------------------------------------------------------------------
(* The sweep: recoverParkedReviewPrs.                                      *)

Beside == UNCHANGED <<project, req, wk, counts>>

SweepRead ==
  /\ swp = "idle"
  /\ status = "needs_review" /\ ~num /\ ~isHuman /\ mode \in AutoMergeModes
  /\ swp' = "look"
  /\ UNCHANGED <<task, github>> /\ Beside

SweepLooks ==
  /\ swp = "look"
  /\ \/ Adopts("open") /\ swp' = "link"
     \/ Adopts("merged") /\ swp' = "already"
     \/ UNCHANGED <<pr, queue>> /\ swp' = "idle"   \* GitHub fails
  /\ UNCHANGED <<task, automerged, unattended>> /\ Beside

SweepLinks ==
  /\ swp = "link"
  /\ IF status = "needs_review" /\ ~num THEN LinksPr("open") ELSE UNCHANGED task
  /\ swp' = "idle"
  /\ UNCHANGED github /\ Beside

SweepFinalizes ==
  /\ swp = "already"
  /\ IF status = "needs_review" THEN RowIsMerged ELSE UNCHANGED task
  /\ swp' = "idle"
  /\ UNCHANGED github /\ Beside

SweepStep == SweepRead \/ SweepLooks \/ SweepLinks \/ SweepFinalizes

----------------------------------------------------------------------------
(* The owner's project controls.                                           *)

Resume ==
  /\ "resume" \in Acts
  /\ paused /\ paused' = FALSE /\ unattended' = TRUE
  /\ UNCHANGED <<task, mode, pr, automerged, queue, req, wk, swp, counts>>

SetMode(m) ==
  /\ "mode" \in Acts
  /\ mode' = m /\ unattended' = TRUE
  /\ UNCHANGED <<task, paused, pr, automerged, queue, req, wk, swp, counts>>

----------------------------------------------------------------------------
(* What happens on GitHub by itself.                                       *)

Happens(e) ==
  /\ reports < MaxReports /\ reports' = reports + 1
  /\ queue' = Append(queue, e)
  /\ UNCHANGED <<task, project, automerged, unattended, req, wk, swp, deaths>>

AgentOpensPr == pr = "none" /\ Happens(PrEvent("open")) /\ pr' = "open"

CiReports(s) == pr # "merged" /\ Happens(BranchEvent(s)) /\ UNCHANGED pr

MainReports(s) == Happens(MainEvent(s)) /\ UNCHANGED pr

PersonCloses == "close" \in Acts /\ pr = "open" /\ Happens(PrEvent("closed")) /\ pr' = "closed"

PersonMerges == "land" \in Acts /\ pr = "open" /\ Happens(PrEvent("merged")) /\ pr' = "merged"

(* An api process dies, and nobody takes the request up.                   *)
RequestDies(r) ==
  /\ ~Free(r) /\ deaths < MaxDeaths
  /\ deaths' = deaths + 1 /\ unattended' = TRUE
  /\ Replies(r)
  /\ UNCHANGED <<task, project, pr, automerged, queue, wk, swp, reports>>

(* The worker dies, and its job is run again: at once as a stalled one, or *)
(* after the others as a failed one.                                       *)
JobDies ==
  /\ wk.pc # "idle" /\ deaths < MaxDeaths
  /\ deaths' = deaths + 1
  /\ queue' \in {<<wk.event>> \o queue, Append(queue, wk.event)}
  /\ JobEnds
  /\ UNCHANGED <<task, project, pr, automerged, unattended, req, swp, reports>>

World ==
  \/ AgentOpensPr \/ PersonCloses \/ PersonMerges
  \/ \E s \in Verdicts : CiReports(s)
  \/ \E s \in {"passing", "failing"} : MainReports(s)
  \/ JobDies \/ \E r \in Slots : RequestDies(r)

People ==
  \/ \E r \in Slots : Submit(r) \/ ClickMerge(r) \/ ClickSync(r)
  \/ \E r \in Slots, to \in Stages : Decide(r, to) \/ AgentDecides(r, to)
  \/ TakeUp \/ SetAssumption \/ ClearAssumption
  \/ Resume \/ \E m \in Modes : SetMode(m)

Next == People \/ (\E r \in Slots : RequestStep(r)) \/ WorkerStep \/ SweepStep \/ World

(* Requests are served, webhook jobs are run, the sweep comes round.       *)
Spec ==
  /\ Init /\ [][Next]_vars
  /\ \A r \in Slots : WF_vars(RequestStep(r))
  /\ WF_vars(WorkerStep) /\ WF_vars(SweepStep)

----------------------------------------------------------------------------
(* Properties.                                                             *)

Events ==
  {PrEvent(s) : s \in PrStates}
    \union {BranchEvent(s) : s \in CiStates} \union {MainEvent(s) : s \in CiStates}

RequestStates ==
  [pc : {"idle", "openPr", "look", "link", "already", "progress", "merging", "approve",
         "merge", "call", "finalize", "sync"},
   opens : BOOLEAN, ripe : BOOLEAN, flag : BOOLEAN, num : BOOLEAN,
   by : {"machine", "person"}, is : PrStates]

JobStates ==
  [pc : {"idle", "apply", "complete", "candidates", "approve", "call", "finalize"},
   event : Events, mode : ProjectModes, paused : BOOLEAN, flag : BOOLEAN, num : BOOLEAN]

(* Every variable keeps its type.                                          *)
TypeOK ==
  /\ status \in Stages /\ prState \in PrStates /\ ci \in CiStates
  /\ {num, flag, isHuman, paused, automerged, unattended} \subseteq BOOLEAN
  /\ mode \in Modes
  /\ pr \in PrStates
  /\ queue \in Seq(Events)
  /\ req \in [Slots -> RequestStates] /\ wk \in JobStates
  /\ swp \in {"idle", "look", "link", "already"}
  /\ reports \in 0..MaxReports /\ deaths \in 0..MaxDeaths

(* The human lane stays human: whatever the mode, and whoever the engine   *)
(* is (a hook of the api, a webhook, the sweep), no machine merges the     *)
(* pull request of a human task.                                           *)
HumanLane == isHuman => ~automerged

(* Done means merged: no code writes done unless the pull request has been *)
(* merged by then, however stale what it acts on is; only a person may say *)
(* so of a task.                                                           *)
PersonSays == \E r \in Slots : Decide(r, "done") \/ AgentDecides(r, "done")

DoneMeansMerged ==
  [][status # "done" /\ status' = "done" /\ ~PersonSays => pr = "merged"]_vars

(* "Review states are the human's alone": the worker's jobs and the sweep  *)
(* only ever carry a task under review forward, even when a human has      *)
(* decided otherwise since they read it.                                   *)
MachineMovesForward ==
  [][WorkerStep \/ SweepStep =>
       \/ status' = status
       \/ <<status, status'>> \in {<<"needs_review", "approved">>, <<"needs_review", "done">>,
                                   <<"approved", "done">>}]_vars

(* A submission the mode lets pass does not stay parked: once its checks   *)
(* are green, its pull request open and the breaker clear, it is approved  *)
(* and merged, whichever of green, pull request, submission and the end of *)
(* a pause came last.  It takes that no webhook job is killed half way     *)
(* (MaxDeaths = 0), and a mode the worker knows to approve for.            *)
Ripe ==
  /\ \/ status = "needs_review" /\ mode \in AutoApproveModes
     \/ status = "approved" /\ mode \in AutoMergeModes
  /\ ~isHuman /\ ~flag /\ ~paused /\ ci = "passing"
  /\ pr = "open" /\ prState # "merged"
  /\ ~unattended

NeverParked == []<>~Ripe
=============================================================================
