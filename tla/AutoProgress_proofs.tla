------------------------ MODULE AutoProgress_proofs ------------------------
(***************************************************************************)
(* For any number of requests, any modes, any choices of people and any    *)
(* bounds: the automation keeps out of the human lane, and what it calls   *)
(* done has been merged.                                                   *)
(***************************************************************************)
EXTENDS AutoProgress, SequenceTheorems, TLAPS

----------------------------------------------------------------------------
(* Types.                                                                  *)

Bools == num \in BOOLEAN /\ flag \in BOOLEAN /\ isHuman \in BOOLEAN /\ paused \in BOOLEAN
         /\ automerged \in BOOLEAN /\ unattended \in BOOLEAN

LEMMA BoolsTyped == TypeOK => Bools
BY DEF TypeOK, Bools

(* What a step of a request makes of its record.                           *)
LEMMA IdleTyped == Idle \in RequestStates /\ IdleJob \in JobStates
BY DEF Idle, IdleJob, RequestStates, JobStates, NoEvent, Events, PrEvent, PrStates, ProjectModes

LEMMA GoesTyped ==
  ASSUME TypeOK, NEW r \in Slots,
         NEW pc \in {"idle", "openPr", "look", "link", "already", "progress", "merging",
                     "approve", "merge", "call", "finalize", "sync"},
         Goes(r, pc) \/ Replies(r)
  PROVE  req' \in [Slots -> RequestStates]
<1>1. req \in [Slots -> RequestStates]
  BY DEF TypeOK
<1>2. [req[r] EXCEPT !.pc = pc] \in RequestStates
  BY <1>1 DEF RequestStates
<1> QED
  BY <1>1, <1>2, IdleTyped DEF Goes, Replies

LEMMA JobTyped ==
  ASSUME TypeOK,
         NEW pc \in {"idle", "apply", "complete", "candidates", "approve", "call", "finalize"},
         JobAt(pc) \/ JobEnds
  PROVE  wk' \in JobStates
BY IdleTyped DEF JobAt, JobEnds, JobStates, TypeOK

LEMMA EventsTyped ==
  /\ \A s \in PrStates : PrEvent(s) \in Events
  /\ \A s \in CiStates : BranchEvent(s) \in Events /\ MainEvent(s) \in Events
BY DEF Events

(* GitHub's side of the calls.                                             *)
LEMMA GithubTyped ==
  ASSUME TypeOK, NEW is \in PrStates, NEW n \in BOOLEAN, NEW who,
         Adopts(is) \/ Lands(n, who) \/ Fails(n)
  PROVE  pr' \in PrStates /\ queue' \in Seq(Events)
<1>1. queue \in Seq(Events) /\ pr \in PrStates
  BY DEF TypeOK
<1>2. PrEvent("open") \in Events /\ PrEvent("merged") \in Events
  BY EventsTyped DEF PrStates
<1>3. Append(queue, PrEvent("open")) \in Seq(Events)
  BY <1>1, <1>2
<1>4. Announced(n) \in Seq(Events)
  BY <1>1, <1>3 DEF Announced
<1>5. Append(Announced(n), PrEvent("merged")) \in Seq(Events)
  BY <1>2, <1>4
<1>6. CASE Adopts(is)
  BY <1>1, <1>3, <1>6 DEF Adopts, PrStates
<1>7. CASE Lands(n, who)
  BY <1>1, <1>5, <1>7 DEF Lands, PrStates, github
<1>8. CASE Fails(n)
  BY <1>1, <1>4, <1>8 DEF Fails, PrStates
<1> QED
  BY <1>6, <1>7, <1>8

LEMMA RequestTyped ==
  ASSUME TypeOK, NEW r \in Slots, RequestStep(r)
  PROVE  TypeOK'
<1> USE DEF task, github, Elsewhere, project, counts
<1>0. req[r] \in RequestStates
  BY DEF TypeOK
<1>1. CASE OpenReviewPr(r)
  BY <1>1, GoesTyped DEF OpenReviewPr, TypeOK
<1>2. CASE LookForPr(r)
  <2>1. req' \in [Slots -> RequestStates]
    BY <1>2, GoesTyped DEF LookForPr
  <2>2. pr' \in PrStates /\ queue' \in Seq(Events)
    BY <1>2, GithubTyped DEF LookForPr, TypeOK, PrStates
  <2> QED
    BY <1>2, <2>1, <2>2 DEF LookForPr, TypeOK
<1>3. CASE LinkPr(r)
  BY <1>3, GoesTyped DEF LinkPr, LinksPr, TypeOK, PrStates
<1>4. CASE AlreadyMerged(r)
  BY <1>4, GoesTyped DEF AlreadyMerged, RowIsMerged, TypeOK, PrStates, Stages
<1>5. CASE Progress(r)
  <2>1. req' \in [Slots -> RequestStates]
    BY <1>5, GoesTyped DEF Progress
  <2> QED
    BY <1>5, <2>1 DEF Progress, TypeOK
<1>6. CASE Approve(r)
  <2>1. req' \in [Slots -> RequestStates]
    BY <1>6, GoesTyped DEF Approve
  <2> QED
    BY <1>6, <2>1 DEF Approve, AutoApproved, TypeOK, Stages
<1>7. CASE MergeRead(r)
  <2>1. [req[r] EXCEPT !.pc = "call", !.num = num] \in RequestStates
    BY <1>0, BoolsTyped DEF RequestStates, Bools
  <2>2. [req EXCEPT ![r].pc = "call", ![r].num = num]
          = [req EXCEPT ![r] = [req[r] EXCEPT !.pc = "call", !.num = num]]
    BY DEF TypeOK
  <2>3. req' \in [Slots -> RequestStates]
    BY <1>7, <2>1, <2>2, GoesTyped DEF MergeRead, TypeOK
  <2> QED
    BY <1>7, <2>3 DEF MergeRead, TypeOK
<1>8. CASE MergeCall(r)
  <2>1. req' \in [Slots -> RequestStates]
    BY <1>8, GoesTyped DEF MergeCall
  <2>2. pr' \in PrStates /\ queue' \in Seq(Events)
    BY <1>0, <1>8, GithubTyped DEF MergeCall, RequestStates, PrStates
  <2>3. automerged' \in BOOLEAN /\ unattended' \in BOOLEAN
    BY <1>8, BoolsTyped, Zenon DEF MergeCall, Lands, Fails, Bools
  <2> QED
    BY <1>8, <2>1, <2>2, <2>3 DEF MergeCall, TypeOK
<1>9. CASE FinalizeMerged(r)
  BY <1>9, GoesTyped DEF FinalizeMerged, RowIsMerged, TypeOK, PrStates, Stages
<1>10. CASE SyncWrite(r)
  <2>1. req' \in [Slots -> RequestStates]
    BY <1>10, GoesTyped DEF SyncWrite
  <2> QED
    BY <1>0, <1>10, <2>1 DEF SyncWrite, LinksPr, TypeOK, RequestStates
<1> QED
  BY <1>1, <1>2, <1>3, <1>4, <1>5, <1>6, <1>7, <1>8, <1>9, <1>10 DEF RequestStep

LEMMA WorkerTyped ==
  ASSUME TypeOK, WorkerStep
  PROVE  TypeOK'
<1> USE DEF task, github, Around, project, counts
<1>0. wk \in JobStates
  BY DEF TypeOK
<1>1. CASE TakeEvent
  <2>1. Head(queue) \in Events /\ Tail(queue) \in Seq(Events)
    BY <1>1 DEF TakeEvent, TypeOK
  <2>2. mode \in ProjectModes /\ paused \in BOOLEAN
    BY ModesAssumption, BoolsTyped DEF TypeOK, Bools
  <2>3. wk' \in JobStates
    BY <1>1, <2>1, <2>2, IdleTyped DEF TakeEvent, IdleJob, JobStates
  <2> QED
    BY <1>1, <2>1, <2>3 DEF TakeEvent, TypeOK
<1>2. CASE ApplyPullRequest
  <2>1. wk.event.is \in PrStates
    BY <1>0, <1>2 DEF ApplyPullRequest, JobStates, Events, PrEvent, BranchEvent, MainEvent
  <2>2. wk' \in JobStates
    BY <1>2, JobTyped DEF ApplyPullRequest
  <2> QED
    BY <1>2, <2>1, <2>2 DEF ApplyPullRequest, LinksPr, TypeOK
<1>3. CASE CompleteMerged
  BY <1>3, JobTyped DEF CompleteMerged, TypeOK, Stages
<1>4. CASE ApplyMainRun
  <2>1. RescanParked => wk' \in JobStates
    BY <1>0 DEF RescanParked, JobStates
  <2>2. wk' \in JobStates
    BY <1>4, <2>1, JobTyped DEF ApplyMainRun
  <2>3. paused' \in BOOLEAN
    BY <1>4, BoolsTyped DEF ApplyMainRun, Bools
  <2> QED
    BY <1>4, <2>2, <2>3 DEF ApplyMainRun, TypeOK
<1>5. CASE ApplyBranchRun
  <2>1. wk.event.is \in CiStates
    BY <1>0, <1>5 DEF ApplyBranchRun, JobStates, Events, PrEvent, BranchEvent, MainEvent
  <2>2. wk' \in JobStates
    BY <1>5, JobTyped DEF ApplyBranchRun
  <2> QED
    BY <1>5, <2>1, <2>2 DEF ApplyBranchRun, TypeOK
<1>6. CASE SelectCandidates
  <2>1. wk' \in JobStates
    <3>1. \A pc \in {"approve", "call"} :
            [wk EXCEPT !.flag = flag, !.num = num, !.pc = pc] \in JobStates
      BY <1>0, BoolsTyped DEF JobStates, Bools
    <3> QED
      BY <1>6, <3>1, JobTyped DEF SelectCandidates
  <2> QED
    BY <1>6, <2>1 DEF SelectCandidates, TypeOK
<1>7. CASE JobApproves
  <2>1. wk' \in JobStates
    BY <1>7, JobTyped DEF JobApproves
  <2> QED
    BY <1>7, <2>1 DEF JobApproves, AutoApproved, TypeOK, Stages
<1>8. CASE JobMerges
  <2>1. wk' \in JobStates
    BY <1>8, JobTyped DEF JobMerges
  <2>2. pr' \in PrStates /\ queue' \in Seq(Events)
    BY <1>0, <1>8, GithubTyped DEF JobMerges, JobStates, PrStates
  <2>3. automerged' \in BOOLEAN /\ unattended' \in BOOLEAN
    BY <1>8, BoolsTyped, Zenon DEF JobMerges, Lands, Fails, Bools
  <2> QED
    BY <1>8, <2>1, <2>2, <2>3 DEF JobMerges, TypeOK
<1>9. CASE JobFinalizes
  BY <1>9, JobTyped DEF JobFinalizes, RowIsMerged, TypeOK, PrStates, Stages
<1> QED
  BY <1>1, <1>2, <1>3, <1>4, <1>5, <1>6, <1>7, <1>8, <1>9 DEF WorkerStep

LEMMA SweepTyped ==
  ASSUME TypeOK, SweepStep
  PROVE  TypeOK'
<1> USE DEF task, github, Beside, project, counts
<1>1. CASE SweepRead
  BY <1>1 DEF SweepRead, TypeOK
<1>2. CASE SweepLooks
  <2>1. pr' \in PrStates /\ queue' \in Seq(Events)
    BY <1>2, GithubTyped DEF SweepLooks, TypeOK, PrStates
  <2> QED
    BY <1>2, <2>1 DEF SweepLooks, TypeOK
<1>3. CASE SweepLinks
  BY <1>3 DEF SweepLinks, LinksPr, TypeOK, PrStates
<1>4. CASE SweepFinalizes
  BY <1>4 DEF SweepFinalizes, RowIsMerged, TypeOK, PrStates, Stages
<1> QED
  BY <1>1, <1>2, <1>3, <1>4 DEF SweepStep

LEMMA PeopleTyped ==
  ASSUME TypeOK, People
  PROVE  TypeOK'
<1> USE DEF task, github, project, counts, Elsewhere
<1>0. \A pc \in {"openPr", "merging"} : Returned(pc) \in RequestStates
  <2>1. (~isHuman /\ ~num /\ prState # "merged") \in BOOLEAN
        /\ (~isHuman /\ ci = "passing" /\ prState # "merged") \in BOOLEAN
    OBVIOUS
  <2> QED
    BY <2>1, IdleTyped, BoolsTyped DEF Returned, Idle, RequestStates, Bools
<1>1. ASSUME NEW r \in Slots, Submit(r)
      PROVE  TypeOK'
  BY <1>0, <1>1 DEF Submit, HandsIn, TypeOK, Stages
<1>2. ASSUME NEW r \in Slots, ClickMerge(r) \/ ClickSync(r)
      PROVE  TypeOK'
  <2>1. /\ [Idle EXCEPT !.pc = "merge", !.by = "person"] \in RequestStates
        /\ [Idle EXCEPT !.pc = "finalize", !.by = "person"] \in RequestStates
        /\ [Idle EXCEPT !.pc = "sync", !.is = pr] \in RequestStates
    BY IdleTyped DEF Idle, RequestStates, TypeOK
  <2> QED
    BY <1>2, <2>1 DEF ClickMerge, ClickSync, TypeOK
<1>3. ASSUME NEW r \in Slots, NEW to \in Stages, Decide(r, to)
      PROVE  TypeOK'
  <2>1. req' \in [Slots -> RequestStates]
    BY <1>0, <1>3 DEF Decide, TypeOK
  <2>2. unattended' \in BOOLEAN
    BY <1>3, BoolsTyped, Zenon DEF Decide, Bools
  <2> QED
    BY <1>3, <2>1, <2>2 DEF Decide, TypeOK
<1>4. ASSUME NEW r \in Slots, NEW to \in Stages, AgentDecides(r, to)
      PROVE  TypeOK'
  <2>1. req' \in [Slots -> RequestStates]
    BY <1>0, <1>4 DEF AgentDecides, HandsIn, TypeOK
  <2>2. unattended' \in BOOLEAN
    BY <1>4, BoolsTyped, Zenon DEF AgentDecides, Bools
  <2> QED
    BY <1>4, <2>1, <2>2 DEF AgentDecides, TypeOK
<1>5. CASE TakeUp \/ SetAssumption \/ ClearAssumption \/ Resume
  BY <1>5 DEF TakeUp, SetAssumption, ClearAssumption, Resume, TypeOK, Stages
<1>6. ASSUME NEW m \in Modes, SetMode(m)
      PROVE  TypeOK'
  BY <1>6 DEF SetMode, TypeOK
<1> QED
  BY <1>1, <1>2, <1>3, <1>4, <1>5, <1>6 DEF People

LEMMA WorldTyped ==
  ASSUME TypeOK, World
  PROVE  TypeOK'
<1> USE DEF task, github, project, counts
<1>1. ASSUME NEW e \in Events, Happens(e), pr' \in PrStates
      PROVE  TypeOK'
  BY <1>1, BoundsAssumption DEF Happens, TypeOK
<1>2. CASE AgentOpensPr \/ PersonCloses \/ PersonMerges
  BY <1>1, <1>2, EventsTyped DEF AgentOpensPr, PersonCloses, PersonMerges, PrStates
<1>3. CASE \/ \E s \in Verdicts : CiReports(s)
           \/ \E s \in {"passing", "failing"} : MainReports(s)
  <2>1. PICK s \in CiStates : CiReports(s) \/ MainReports(s)
    BY <1>3, VerdictsAssumption DEF CiStates
  <2> QED
    BY <1>1, <2>1, EventsTyped DEF CiReports, MainReports, TypeOK
<1>4. CASE JobDies
  <2>1. wk.event \in Events
    BY DEF TypeOK, JobStates
  <2>2. queue' \in Seq(Events)
    <3>1. queue \in Seq(Events) /\ <<wk.event>> \in Seq(Events)
      BY <2>1 DEF TypeOK
    <3>2. <<wk.event>> \o queue \in Seq(Events) /\ Append(queue, wk.event) \in Seq(Events)
      BY <2>1, <3>1, ConcatProperties
    <3> QED
      BY <1>4, <3>2 DEF JobDies
  <2>3. deaths' \in 0..MaxDeaths
    BY <1>4, BoundsAssumption DEF JobDies, TypeOK
  <2> QED
    BY <1>4, <2>2, <2>3, JobTyped DEF JobDies, TypeOK
<1>5. ASSUME NEW r \in Slots, RequestDies(r)
      PROVE  TypeOK'
  <2>1. deaths' \in 0..MaxDeaths
    BY <1>5, BoundsAssumption DEF RequestDies, TypeOK
  <2>2. req' \in [Slots -> RequestStates]
    BY <1>5, GoesTyped DEF RequestDies
  <2> QED
    BY <1>5, <2>1, <2>2 DEF RequestDies, TypeOK
<1> QED
  BY <1>2, <1>3, <1>4, <1>5 DEF World

(* Every variable keeps its type.                                          *)
THEOREM TypeCorrect == Spec => []TypeOK
<1>1. Init => TypeOK
  <2> SUFFICES ASSUME Init PROVE TypeOK
    OBVIOUS
  <2>1. queue \in Seq(Events) /\ req \in [Slots -> RequestStates] /\ wk \in JobStates
    BY IdleTyped DEF Init
  <2>2. {num, flag, isHuman, paused, automerged, unattended} \subseteq BOOLEAN
    BY Zenon DEF Init
  <2>3. 0 \in 0..MaxReports /\ 0 \in 0..MaxDeaths
    BY BoundsAssumption
  <2> QED
    BY <2>1, <2>2, <2>3 DEF Init, TypeOK, Stages, PrStates, CiStates
<1>2. TypeOK /\ [Next]_vars => TypeOK'
  <2> SUFFICES ASSUME TypeOK, [Next]_vars PROVE TypeOK'
    OBVIOUS
  <2>1. CASE Next
    BY <2>1, RequestTyped, WorkerTyped, SweepTyped, PeopleTyped, WorldTyped DEF Next
  <2>2. CASE UNCHANGED vars
    BY <2>2 DEF vars, task, project, github, counts, TypeOK
  <2> QED
    BY <2>1, <2>2
<1> QED
  BY <1>1, <1>2, PTL DEF Spec

----------------------------------------------------------------------------
(* The human lane.                                                         *)

(* Nothing that merges by itself ever starts on a human task: no request   *)
(* of its own comes past the mode's gate, and neither the worker nor the   *)
(* sweep takes it.                                                         *)
LaneIdle ==
  /\ ~automerged
  /\ wk.pc \notin {"approve", "call", "finalize"}
  /\ swp = "idle"

LaneRequest(k) ==
  /\ k.pc \in {"idle", "merging", "merge", "call", "finalize", "sync"}
  /\ k.pc = "merging" => ~k.ripe
  /\ k.pc \in {"merge", "call"} => k.by = "person"

LaneKept == isHuman => LaneIdle /\ \A r \in Slots : LaneRequest(req[r])

LEMMA LaneIdleRequest == LaneRequest(Idle)
BY DEF LaneRequest, Idle

LEMMA LaneIdleKept ==
  ASSUME LaneIdle, automerged' = automerged, wk' = wk, swp' = swp
  PROVE  LaneIdle'
BY Zenon DEF LaneIdle

(* Who writes a request's record, and what becomes of the others'.         *)
LEMMA LaneOneRequest ==
  ASSUME TypeOK, \A r \in Slots : LaneRequest(req[r]), NEW r \in Slots, NEW k, LaneRequest(k),
         req' = [req EXCEPT ![r] = k]
  PROVE  \A s \in Slots : LaneRequest(req'[s])
BY DEF TypeOK

LEMMA LaneByRequest ==
  ASSUME TypeOK, LaneKept, NEW r \in Slots, RequestStep(r)
  PROVE  LaneKept'
<1> USE DEF task, github, Elsewhere, project, counts
<1>0. isHuman' = isHuman
  BY DEF RequestStep, OpenReviewPr, LookForPr, LinkPr, AlreadyMerged, Progress, Approve,
         MergeRead, MergeCall, FinalizeMerged, SyncWrite, LinksPr, RowIsMerged, AutoApproved
<1> SUFFICES ASSUME isHuman PROVE LaneIdle' /\ \A s \in Slots : LaneRequest(req'[s])
  BY <1>0 DEF LaneKept, LaneRequest
<1>1. LaneIdle /\ \A s \in Slots : LaneRequest(req[s])
  BY DEF LaneKept
<1>2. LaneRequest(req[r]) /\ req[r] \in RequestStates
  BY <1>1 DEF TypeOK
<1>3. Replies(r) => \A s \in Slots : LaneRequest(req'[s])
  BY <1>1, LaneIdleRequest, LaneOneRequest DEF Replies
<1>4. Progress(r) => Replies(r)
  BY <1>2 DEF Progress, LaneRequest
<1>5. CASE Progress(r) \/ FinalizeMerged(r) \/ SyncWrite(r)
  <2>1. automerged' = automerged /\ wk' = wk /\ swp' = swp
    BY <1>5 DEF Progress, FinalizeMerged, SyncWrite
  <2> QED
    BY <1>1, <1>3, <1>4, <1>5, <2>1, LaneIdleKept DEF FinalizeMerged, SyncWrite
<1>6. CASE MergeRead(r)
  <2>1. /\ LaneRequest([req[r] EXCEPT !.pc = "finalize"])
        /\ LaneRequest([req[r] EXCEPT !.pc = "call", !.num = num])
    BY <1>2, <1>6 DEF MergeRead, LaneRequest, RequestStates
  <2>2. [req EXCEPT ![r].pc = "call", ![r].num = num]
          = [req EXCEPT ![r] = [req[r] EXCEPT !.pc = "call", !.num = num]]
    BY DEF TypeOK
  <2>3. \A s \in Slots : LaneRequest(req'[s])
    BY <1>1, <1>3, <1>6, <2>1, <2>2, LaneOneRequest DEF MergeRead, Goes
  <2> QED
    BY <1>1, <1>6, <2>3 DEF MergeRead, LaneIdle
<1>7. CASE MergeCall(r)
  <2>1. LaneRequest([req[r] EXCEPT !.pc = "finalize"]) /\ req[r].by = "person"
    BY <1>2, <1>7 DEF MergeCall, LaneRequest, RequestStates
  <2>2. \A s \in Slots : LaneRequest(req'[s])
    BY <1>1, <1>3, <1>7, <2>1, LaneOneRequest DEF MergeCall, Goes
  <2>3. ~automerged'
    BY <1>1, <1>7, <2>1 DEF MergeCall, Lands, Fails, LaneIdle
  <2> QED
    BY <1>1, <1>7, <2>2, <2>3 DEF MergeCall, LaneIdle
<1> QED
  BY <1>2, <1>5, <1>6, <1>7
  DEF RequestStep, OpenReviewPr, LookForPr, LinkPr, AlreadyMerged, Approve, LaneRequest

LEMMA LaneByWorker ==
  ASSUME TypeOK, LaneKept, WorkerStep
  PROVE  LaneKept'
<1> USE DEF task, github, Around, project, counts
<1>1. isHuman' = isHuman /\ req' = req /\ swp' = swp
  BY DEF WorkerStep, TakeEvent, ApplyPullRequest, CompleteMerged, ApplyMainRun, ApplyBranchRun,
         SelectCandidates, JobApproves, JobMerges, JobFinalizes, LinksPr, AutoApproved, RowIsMerged
<1> SUFFICES ASSUME isHuman PROVE LaneIdle'
  BY <1>1 DEF LaneKept
<1>2. LaneIdle /\ wk \in JobStates
  BY DEF LaneKept, TypeOK
<1>3. ~SelectCandidates \/ JobEnds
  BY DEF SelectCandidates, Candidate, AgentLane
<1>4. wk'.pc \notin {"approve", "call", "finalize"}
  <2>1. JobEnds \/ JobAt("complete") \/ JobAt("candidates") \/ RescanParked
          => wk'.pc \in {"idle", "complete", "candidates"}
    <3>1. \A pc : wk' = [wk EXCEPT !.pc = pc] => wk'.pc = pc
      BY <1>2 DEF JobStates
    <3>2. RescanParked => wk'.pc = "candidates"
      BY <1>2 DEF JobStates, RescanParked
    <3> QED
      BY <3>1, <3>2 DEF JobEnds, JobAt, IdleJob
  <2>3. TakeEvent => wk'.pc = "apply"
    BY DEF TakeEvent, IdleJob
  <2>2. ~JobApproves /\ ~JobMerges /\ ~JobFinalizes
    BY <1>2 DEF LaneIdle, JobApproves, JobMerges, JobFinalizes
  <2> QED
    BY <1>3, <2>1, <2>2, <2>3 DEF WorkerStep, ApplyPullRequest, CompleteMerged, ApplyMainRun,
       ApplyBranchRun
<1>5. ~JobMerges
  BY <1>2 DEF JobMerges, LaneIdle
<1>6. automerged' = automerged
  BY <1>5 DEF WorkerStep, TakeEvent, ApplyPullRequest, CompleteMerged, ApplyMainRun,
     ApplyBranchRun, SelectCandidates, JobApproves, JobFinalizes
<1> QED
  BY <1>1, <1>2, <1>4, <1>6 DEF LaneIdle

LEMMA LaneByOthers ==
  ASSUME TypeOK, LaneKept, SweepStep \/ People \/ World
  PROVE  LaneKept'
<1> USE DEF task, github, Beside, Elsewhere, project, counts
<1>1. isHuman' = isHuman
  BY DEF SweepStep, SweepRead, SweepLooks, SweepLinks, SweepFinalizes, LinksPr, RowIsMerged,
     People, Submit, ClickMerge, ClickSync, Decide, AgentDecides, TakeUp, SetAssumption,
     ClearAssumption, Resume, SetMode, World, AgentOpensPr, PersonCloses, PersonMerges,
     CiReports, MainReports, Happens, JobDies, RequestDies
<1> SUFFICES ASSUME isHuman PROVE LaneIdle' /\ \A s \in Slots : LaneRequest(req'[s])
  BY <1>1 DEF LaneKept, LaneRequest
<1>2. LaneIdle /\ \A s \in Slots : LaneRequest(req[s])
  BY DEF LaneKept
<1>3. CASE SweepStep
  BY <1>2, <1>3 DEF SweepStep, SweepRead, SweepLooks, SweepLinks, SweepFinalizes, LaneIdle
<1>4. CASE People
  <2>1. /\ LaneRequest([Idle EXCEPT !.pc = "merge", !.by = "person"])
        /\ LaneRequest([Idle EXCEPT !.pc = "finalize", !.by = "person"])
        /\ LaneRequest([Idle EXCEPT !.pc = "sync", !.is = pr])
        /\ LaneRequest(Returned("merging"))
    BY DEF LaneRequest, Idle, Returned
  <2>2. ASSUME NEW r \in Slots, NEW to \in Stages,
               Submit(r) \/ ClickMerge(r) \/ ClickSync(r) \/ Decide(r, to) \/ AgentDecides(r, to)
        PROVE  \A s \in Slots : LaneRequest(req'[s])
    BY <1>2, <2>1, <2>2, LaneOneRequest
    DEF Submit, HandsIn, ClickMerge, ClickSync, Decide, AgentDecides
  <2>3. ASSUME NEW r \in Slots, NEW to \in Stages,
               Submit(r) \/ ClickMerge(r) \/ ClickSync(r) \/ Decide(r, to) \/ AgentDecides(r, to)
        PROVE  LaneIdle'
    <3>1. automerged' = automerged /\ wk' = wk /\ swp' = swp
      BY <2>3 DEF Submit, ClickMerge, ClickSync, Decide, AgentDecides
    <3> QED
      BY <1>2, <3>1, LaneIdleKept
  <2>4. ASSUME NEW m \in Modes,
               \/ TakeUp \/ SetAssumption \/ ClearAssumption
               \/ Resume \/ SetMode(m)
        PROVE  LaneIdle' /\ req' = req
    <3>1. automerged' = automerged /\ wk' = wk /\ swp' = swp /\ req' = req
      BY <2>4 DEF TakeUp, SetAssumption, ClearAssumption, Resume, SetMode
    <3> QED
      BY <1>2, <3>1, LaneIdleKept
  <2>5. Stages # {} /\ Modes # {}
    BY DEF Stages, TypeOK
  <2> QED
    BY <1>2, <1>4, <2>2, <2>3, <2>4, <2>5 DEF People
<1>5. CASE World
  <2>1. ASSUME NEW r \in Slots, RequestDies(r)
        PROVE  LaneIdle' /\ \A s \in Slots : LaneRequest(req'[s])
    BY <1>2, <2>1, LaneIdleRequest, LaneOneRequest DEF RequestDies, Replies, LaneIdle
  <2>2. CASE JobDies
    BY <1>2, <2>2 DEF JobDies, JobEnds, IdleJob, LaneIdle
  <2>3. ASSUME NEW e, Happens(e)
        PROVE  LaneIdle' /\ req' = req
    BY <1>2, <2>3 DEF Happens, LaneIdle
  <2> QED
    BY <1>2, <1>5, <2>1, <2>2, <2>3
    DEF World, AgentOpensPr, PersonCloses, PersonMerges, CiReports, MainReports
<1> QED
  BY <1>3, <1>4, <1>5

(* The human lane stays human: no machine merges the pull request of a     *)
(* human task, for any number of requests and whatever people do.          *)
THEOREM HumanTasksStayHuman == Spec => []HumanLane
<1>1. Init => LaneKept
  BY LaneIdleRequest DEF Init, LaneKept, LaneIdle, IdleJob
<1>2. TypeOK /\ LaneKept /\ [Next]_vars => LaneKept'
  <2> SUFFICES ASSUME TypeOK, LaneKept, [Next]_vars PROVE LaneKept'
    OBVIOUS
  <2>1. CASE Next
    BY <2>1, LaneByRequest, LaneByWorker, LaneByOthers DEF Next
  <2>2. CASE UNCHANGED vars
    BY <2>2 DEF vars, task, project, github, counts, LaneKept, LaneIdle, LaneRequest
  <2> QED
    BY <2>1, <2>2
<1>3. LaneKept => HumanLane
  BY DEF LaneKept, LaneIdle, HumanLane
<1> QED
  BY <1>1, <1>2, <1>3, TypeCorrect, PTL DEF Spec

----------------------------------------------------------------------------
(* Done means merged.                                                      *)

(* While the pull request is not merged, nothing on the way to done says   *)
(* it is: neither the row, nor an event under way or in hand, nor what a   *)
(* request, the worker or the sweep remembers of GitHub's answer.          *)
NoMergeIn(q) == \A i \in 1..Len(q) : q[i] # PrEvent("merged")

KnowsNoMerge(k) == k.pc \notin {"already", "finalize"} /\ (k.pc = "sync" => k.is # "merged")

WorkerKnowsNoMerge == wk.event # PrEvent("merged") /\ wk.pc \notin {"complete", "finalize"}

NoMergeKnown ==
  /\ prState # "merged"
  /\ NoMergeIn(queue)
  /\ WorkerKnowsNoMerge
  /\ \A r \in Slots : KnowsNoMerge(req[r])
  /\ swp # "already"

MergesAreReal == pr # "merged" => NoMergeKnown

LEMMA MergedIsForeign ==
  /\ PrEvent("open") # PrEvent("merged") /\ PrEvent("closed") # PrEvent("merged")
  /\ \A s : BranchEvent(s) # PrEvent("merged") /\ MainEvent(s) # PrEvent("merged")
  /\ NoEvent # PrEvent("merged")
  /\ KnowsNoMerge(Idle)
BY DEF PrEvent, BranchEvent, MainEvent, NoEvent, KnowsNoMerge, Idle

LEMMA NoMergeAppended ==
  ASSUME NEW q \in Seq(Events), NoMergeIn(q), NEW e \in Events, e # PrEvent("merged")
  PROVE  NoMergeIn(Append(q, e))
BY DEF NoMergeIn

LEMMA NoMergePrepended ==
  ASSUME NEW q \in Seq(Events), NoMergeIn(q), NEW e \in Events, e # PrEvent("merged")
  PROVE  NoMergeIn(<<e>> \o q)
<1>1. <<e>> \in Seq(Events) /\ Len(<<e>>) = 1 /\ <<e>>[1] = e
  OBVIOUS
<1>2. /\ Len(<<e>> \o q) = 1 + Len(q)
      /\ \A i \in 1 .. 1 + Len(q) : (<<e>> \o q)[i] = IF i <= 1 THEN <<e>>[i] ELSE q[i - 1]
  BY <1>1, ConcatProperties
<1>3. \A i \in 1 .. 1 + Len(q) : i = 1 \/ i - 1 \in 1 .. Len(q)
  OBVIOUS
<1> QED
  BY <1>1, <1>2, <1>3 DEF NoMergeIn

LEMMA NoMergeTaken ==
  ASSUME NEW q \in Seq(Events), NoMergeIn(q), q # <<>>
  PROVE  Head(q) # PrEvent("merged") /\ NoMergeIn(Tail(q))
BY DEF NoMergeIn

(* A merge is for good; until it comes, GitHub's answers announce none.    *)
LEMMA CallsAreHonest ==
  ASSUME TypeOK, MergesAreReal, NEW is \in PrStates, NEW n \in BOOLEAN, NEW who,
         Adopts(is) \/ Lands(n, who) \/ Fails(n), pr' # "merged"
  PROVE  /\ NoMergeKnown /\ NoMergeIn(queue')
         /\ ~Lands(n, who)
         /\ Adopts(is) => is # "merged"
<1>1. queue \in Seq(Events) /\ PrEvent("open") \in Events
  BY EventsTyped DEF TypeOK, PrStates
<1>2. ~Lands(n, who)
  BY DEF Lands, github
<1>3. pr # "merged"
  BY <1>2 DEF Adopts, Fails, Missing, Opened, github
<1>4. NoMergeKnown
  BY <1>3 DEF MergesAreReal
<1>5. NoMergeIn(Append(queue, PrEvent("open")))
  BY <1>1, <1>4, MergedIsForeign, NoMergeAppended DEF NoMergeKnown
<1>6. NoMergeIn(queue')
  BY <1>2, <1>4, <1>5 DEF Adopts, Fails, Announced, NoMergeKnown, github
<1>7. Adopts(is) => is # "merged"
  BY <1>3 DEF Adopts
<1> QED
  BY <1>2, <1>4, <1>6, <1>7

LEMMA KnowsOneRequest ==
  ASSUME TypeOK, \A r \in Slots : KnowsNoMerge(req[r]), NEW r \in Slots, NEW k, KnowsNoMerge(k),
         req' = [req EXCEPT ![r] = k]
  PROVE  \A s \in Slots : KnowsNoMerge(req'[s])
BY DEF TypeOK

LEMMA MergesByRequest ==
  ASSUME TypeOK, MergesAreReal, NEW r \in Slots, RequestStep(r)
  PROVE  /\ MergesAreReal'
         /\ status # "done" /\ status' = "done" => pr = "merged"
<1> USE DEF task, github, Elsewhere, project, counts
<1>0. req[r] \in RequestStates
  BY DEF TypeOK
<1>1. status # "done" /\ status' = "done" => pr = "merged"
  <2> SUFFICES ASSUME status # "done", status' = "done", pr # "merged" PROVE FALSE
    OBVIOUS
  <2>1. ~AlreadyMerged(r) /\ ~FinalizeMerged(r)
    BY DEF MergesAreReal, NoMergeKnown, KnowsNoMerge, AlreadyMerged, FinalizeMerged
  <2> QED
    BY <2>1 DEF RequestStep, OpenReviewPr, LookForPr, LinkPr, Progress, Approve, MergeRead,
       MergeCall, SyncWrite, LinksPr, AutoApproved
<1>2. ASSUME pr' # "merged" PROVE NoMergeKnown'
  <2>1. NoMergeKnown /\ NoMergeIn(queue')
    <3>1. CASE LookForPr(r) \/ MergeCall(r)
      <4>1. PICK is \in PrStates, n \in BOOLEAN, who \in {"machine", "person"} :
              Adopts(is) \/ Lands(n, who) \/ Fails(n) \/ UNCHANGED <<pr, queue>>
        BY <1>0, <3>1 DEF LookForPr, MergeCall, RequestStates, PrStates
      <4> QED
        BY <1>2, <4>1, CallsAreHonest DEF MergesAreReal, NoMergeKnown
    <3>2. CASE ~LookForPr(r) /\ ~MergeCall(r)
      <4>1. UNCHANGED github
        BY <3>2 DEF RequestStep, OpenReviewPr, LinkPr, AlreadyMerged, Progress, Approve,
           MergeRead, FinalizeMerged, SyncWrite
      <4> QED
        BY <1>2, <4>1 DEF MergesAreReal, NoMergeKnown
    <3> QED
      BY <3>1, <3>2
  <2>2. WorkerKnowsNoMerge' /\ swp' # "already"
    BY <2>1 DEF RequestStep, OpenReviewPr, LookForPr, LinkPr, AlreadyMerged, Progress, Approve,
       MergeRead, MergeCall, FinalizeMerged, SyncWrite, NoMergeKnown, WorkerKnowsNoMerge
  <2>3. prState' # "merged"
    BY <2>1 DEF RequestStep, OpenReviewPr, LookForPr, LinkPr, AlreadyMerged, Progress, Approve,
       MergeRead, MergeCall, FinalizeMerged, SyncWrite, LinksPr, AutoApproved, NoMergeKnown,
       KnowsNoMerge
  <2>4. \A s \in Slots : KnowsNoMerge(req'[s])
    <3>1. KnowsNoMerge(req[r]) /\ \A s \in Slots : KnowsNoMerge(req[s])
      BY <2>1 DEF NoMergeKnown
    <3>2. ASSUME NEW pc \in {"link", "look", "progress", "approve", "merge", "call"}, Goes(r, pc)
          PROVE  \A s \in Slots : KnowsNoMerge(req'[s])
      <4>1. KnowsNoMerge([req[r] EXCEPT !.pc = pc])
        BY <1>0 DEF KnowsNoMerge, RequestStates
      <4> QED
        BY <3>1, <3>2, <4>1, KnowsOneRequest DEF Goes
    <3>3. Replies(r) => \A s \in Slots : KnowsNoMerge(req'[s])
      BY <3>1, MergedIsForeign, KnowsOneRequest DEF Replies
    <3>4. CASE LookForPr(r)
      <4>1. ~Adopts("merged")
        BY <1>2, CallsAreHonest DEF PrStates
      <4> QED
        BY <3>2, <3>4, <4>1 DEF LookForPr
    <3>5. CASE MergeCall(r)
      <4>1. ~Lands(req[r].num, req[r].by)
        BY <1>2 DEF Lands, github, MergesAreReal
      <4> QED
        BY <3>3, <3>5, <4>1 DEF MergeCall
    <3>6. CASE MergeRead(r)
      <4>1. KnowsNoMerge([req[r] EXCEPT !.pc = "call", !.num = num])
        BY <1>0 DEF KnowsNoMerge, RequestStates
      <4>2. [req EXCEPT ![r].pc = "call", ![r].num = num]
              = [req EXCEPT ![r] = [req[r] EXCEPT !.pc = "call", !.num = num]]
        BY DEF TypeOK
      <4>3. prState # "merged"
        BY <2>1 DEF NoMergeKnown
      <4> QED
        BY <3>1, <3>3, <3>6, <4>1, <4>2, <4>3, KnowsOneRequest DEF MergeRead
    <3>7. CASE OpenReviewPr(r) \/ LinkPr(r) \/ AlreadyMerged(r)
      BY <3>2, <3>7 DEF OpenReviewPr, LinkPr, AlreadyMerged
    <3>8. CASE Progress(r) \/ Approve(r) \/ FinalizeMerged(r) \/ SyncWrite(r)
      BY <3>2, <3>3, <3>8 DEF Progress, Approve, FinalizeMerged, SyncWrite
    <3> QED
      BY <3>4, <3>5, <3>6, <3>7, <3>8 DEF RequestStep
  <2> QED
    BY <2>1, <2>2, <2>3, <2>4 DEF NoMergeKnown
<1> QED
  BY <1>1, <1>2 DEF MergesAreReal

LEMMA MergesByWorker ==
  ASSUME TypeOK, MergesAreReal, WorkerStep
  PROVE  /\ MergesAreReal'
         /\ status # "done" /\ status' = "done" => pr = "merged"
<1> USE DEF task, github, Around, project, counts
<1>0. wk \in JobStates /\ queue \in Seq(Events)
  BY DEF TypeOK
<1>1. status # "done" /\ status' = "done" => pr = "merged"
  <2> SUFFICES ASSUME status # "done", status' = "done", pr # "merged" PROVE FALSE
    OBVIOUS
  <2>1. ~CompleteMerged /\ ~JobFinalizes
    BY DEF MergesAreReal, NoMergeKnown, WorkerKnowsNoMerge, CompleteMerged, JobFinalizes
  <2> QED
    BY <2>1 DEF WorkerStep, TakeEvent, ApplyPullRequest, ApplyMainRun, ApplyBranchRun,
       SelectCandidates, JobApproves, JobMerges, LinksPr, AutoApproved
<1>2. ASSUME pr' # "merged" PROVE NoMergeKnown'
  <2>1. NoMergeKnown
    <3>1. CASE JobMerges
      <4>1. wk.num \in BOOLEAN
        BY <1>0 DEF JobStates
      <4> QED
        BY <1>2, <3>1, <4>1, CallsAreHonest DEF JobMerges, PrStates
    <3>2. CASE ~JobMerges
      BY <1>2, <3>2 DEF WorkerStep, TakeEvent, ApplyPullRequest, CompleteMerged, ApplyMainRun,
         ApplyBranchRun, SelectCandidates, JobApproves, JobFinalizes, MergesAreReal
    <3> QED
      BY <3>1, <3>2
  <2>2. req' = req /\ swp' = swp
    BY DEF WorkerStep, TakeEvent, ApplyPullRequest, CompleteMerged, ApplyMainRun, ApplyBranchRun,
       SelectCandidates, JobApproves, JobMerges, JobFinalizes
  <2>3. ~CompleteMerged /\ ~JobFinalizes
    BY <2>1 DEF NoMergeKnown, WorkerKnowsNoMerge, CompleteMerged, JobFinalizes
  <2>4. \A pc : wk' = [wk EXCEPT !.pc = pc] => wk'.pc = pc /\ wk'.event = wk.event
    BY <1>0 DEF JobStates
  <2>5. ASSUME NEW pc \in {"candidates", "approve", "call"}, JobAt(pc)
        PROVE  WorkerKnowsNoMerge'
    BY <2>1, <2>4, <2>5 DEF JobAt, NoMergeKnown, WorkerKnowsNoMerge
  <2>6. JobEnds => WorkerKnowsNoMerge'
    BY MergedIsForeign DEF JobEnds, IdleJob, WorkerKnowsNoMerge
  <2>7. CASE TakeEvent
    <3>1. Head(queue) # PrEvent("merged") /\ NoMergeIn(Tail(queue))
      BY <1>0, <2>1, <2>7, NoMergeTaken DEF TakeEvent, NoMergeKnown
    <3>2. wk'.event = Head(queue) /\ wk'.pc = "apply"
      BY <2>7 DEF TakeEvent, IdleJob
    <3> QED
      BY <2>1, <2>2, <2>7, <3>1, <3>2 DEF TakeEvent, NoMergeKnown, WorkerKnowsNoMerge
  <2>8. CASE ApplyPullRequest
    <3>1. wk.event.is # "merged"
      BY <1>0, <2>1, <2>8
      DEF ApplyPullRequest, NoMergeKnown, WorkerKnowsNoMerge, JobStates, Events, PrEvent,
          BranchEvent, MainEvent
    <3>2. WorkerKnowsNoMerge'
      BY <2>5, <2>6, <2>8, <3>1 DEF ApplyPullRequest
    <3> QED
      BY <2>1, <2>2, <2>8, <3>1, <3>2 DEF ApplyPullRequest, LinksPr, NoMergeKnown
  <2>9. CASE ApplyMainRun \/ ApplyBranchRun \/ SelectCandidates \/ JobApproves
    <3>1. RescanParked => WorkerKnowsNoMerge'
      <4>1. RescanParked => wk'.pc = "candidates" /\ wk'.event = wk.event
        BY <1>0 DEF JobStates, RescanParked
      <4> QED
        BY <2>1, <4>1 DEF NoMergeKnown, WorkerKnowsNoMerge
    <3>2. SelectCandidates => WorkerKnowsNoMerge'
      <4>1. \A pc : wk' = [wk EXCEPT !.flag = flag, !.num = num, !.pc = pc]
                => wk'.pc = pc /\ wk'.event = wk.event
        BY <1>0 DEF JobStates
      <4> QED
        BY <2>1, <2>6, <4>1 DEF SelectCandidates, NoMergeKnown, WorkerKnowsNoMerge
    <3>3. WorkerKnowsNoMerge'
      BY <2>5, <2>6, <2>9, <3>1, <3>2 DEF ApplyMainRun, ApplyBranchRun, JobApproves
    <3>4. prState' = prState /\ queue' = queue
      BY <2>9 DEF ApplyMainRun, ApplyBranchRun, SelectCandidates, JobApproves, AutoApproved
    <3> QED
      BY <2>1, <2>2, <3>3, <3>4 DEF NoMergeKnown
  <2>10. CASE JobMerges
    <3>1. wk.num \in BOOLEAN
      BY <1>0 DEF JobStates
    <3>2. ~Lands(wk.num, "machine") /\ NoMergeIn(queue')
      BY <1>2, <2>10, <3>1, CallsAreHonest DEF JobMerges, PrStates, Lands
    <3>3. WorkerKnowsNoMerge'
      BY <2>6, <2>10, <3>2 DEF JobMerges
    <3> QED
      BY <2>1, <2>2, <2>10, <3>2, <3>3 DEF JobMerges, NoMergeKnown
  <2> QED
    BY <2>3, <2>7, <2>8, <2>9, <2>10 DEF WorkerStep
<1> QED
  BY <1>1, <1>2 DEF MergesAreReal

LEMMA MergesBySweep ==
  ASSUME TypeOK, MergesAreReal, SweepStep
  PROVE  /\ MergesAreReal'
         /\ status # "done" /\ status' = "done" => pr = "merged"
<1> USE DEF task, github, Beside, project, counts
<1>1. status # "done" /\ status' = "done" => pr = "merged"
  <2> SUFFICES ASSUME status # "done", status' = "done", pr # "merged" PROVE FALSE
    OBVIOUS
  <2>1. ~SweepFinalizes
    BY DEF MergesAreReal, NoMergeKnown, SweepFinalizes
  <2> QED
    BY <2>1 DEF SweepStep, SweepRead, SweepLooks, SweepLinks, LinksPr
<1>2. ASSUME pr' # "merged" PROVE NoMergeKnown'
  <2>1. req' = req /\ wk' = wk
    BY DEF SweepStep, SweepRead, SweepLooks, SweepLinks, SweepFinalizes
  <2>2. CASE SweepLooks
    <3>1. PICK is \in {"open", "merged"} : Adopts(is) \/ UNCHANGED <<pr, queue>>
      BY <2>2 DEF SweepLooks
    <3>2. NoMergeKnown /\ NoMergeIn(queue')
      BY <1>2, <3>1, CallsAreHonest DEF PrStates, MergesAreReal, NoMergeKnown
    <3>3. swp' # "already"
      BY <1>2, <2>2, CallsAreHonest DEF SweepLooks, PrStates
    <3> QED
      BY <2>1, <2>2, <3>2, <3>3 DEF SweepLooks, NoMergeKnown, WorkerKnowsNoMerge
  <2>3. CASE SweepRead \/ SweepLinks \/ SweepFinalizes
    <3>1. pr # "merged" /\ queue' = queue
      BY <1>2, <2>3 DEF SweepRead, SweepLinks, SweepFinalizes
    <3>2. NoMergeKnown
      BY <3>1 DEF MergesAreReal
    <3>3. ~SweepFinalizes
      BY <3>2 DEF SweepFinalizes, NoMergeKnown
    <3>4. prState' # "merged" /\ swp' # "already"
      BY <2>3, <3>2, <3>3 DEF SweepRead, SweepLinks, LinksPr, NoMergeKnown
    <3> QED
      BY <2>1, <3>1, <3>2, <3>4 DEF NoMergeKnown, WorkerKnowsNoMerge
  <2> QED
    BY <2>2, <2>3 DEF SweepStep
<1> QED
  BY <1>1, <1>2 DEF MergesAreReal

LEMMA MergesByPeople ==
  ASSUME TypeOK, MergesAreReal, People
  PROVE  /\ MergesAreReal'
         /\ status # "done" /\ status' = "done" => PersonSays
<1> USE DEF task, github, project, counts, Elsewhere
<1>1. status # "done" /\ status' = "done" => PersonSays
  BY DEF People, PersonSays, Submit, ClickMerge, ClickSync, Decide, AgentDecides, TakeUp,
     SetAssumption, ClearAssumption, Resume, SetMode
<1>2. ASSUME pr' # "merged" PROVE NoMergeKnown'
  <2>1. UNCHANGED <<prState, pr, queue, wk, swp>>
    BY DEF People, Submit, ClickMerge, ClickSync, Decide, AgentDecides, TakeUp, SetAssumption,
       ClearAssumption, Resume, SetMode
  <2>2. NoMergeKnown
    BY <1>2, <2>1 DEF MergesAreReal
  <2>3. ASSUME NEW r \in Slots, NEW to \in Stages,
               Submit(r) \/ ClickMerge(r) \/ ClickSync(r) \/ Decide(r, to) \/ AgentDecides(r, to)
        PROVE  \A s \in Slots : KnowsNoMerge(req'[s])
    <3>1. /\ KnowsNoMerge([Idle EXCEPT !.pc = "merge", !.by = "person"])
          /\ pr # "merged" => KnowsNoMerge([Idle EXCEPT !.pc = "sync", !.is = pr])
          /\ \A pc \in {"openPr", "merging"} : KnowsNoMerge(Returned(pc))
      BY DEF KnowsNoMerge, Idle, Returned
    <3> QED
      BY <1>2, <2>1, <2>2, <2>3, <3>1, KnowsOneRequest
      DEF Submit, HandsIn, ClickMerge, ClickSync, Decide, AgentDecides, NoMergeKnown
  <2>4. ASSUME \/ TakeUp \/ SetAssumption \/ ClearAssumption
               \/ Resume \/ \E m \in Modes : SetMode(m)
        PROVE  \A s \in Slots : KnowsNoMerge(req'[s])
    <3>1. req' = req
      BY <2>4 DEF TakeUp, SetAssumption, ClearAssumption, Resume, SetMode
    <3> QED
      BY <2>2, <3>1 DEF NoMergeKnown
  <2>5. \A s \in Slots : KnowsNoMerge(req'[s])
    <3>1. "approved" \in Stages
      BY DEF Stages
    <3>2. CASE \E r \in Slots : Submit(r) \/ ClickMerge(r) \/ ClickSync(r)
      BY <2>3, <3>1, <3>2
    <3>3. CASE \E r \in Slots, to \in Stages : Decide(r, to) \/ AgentDecides(r, to)
      BY <2>3, <3>3
    <3> QED
      BY <2>4, <3>2, <3>3 DEF People
  <2> QED
    BY <2>1, <2>2, <2>5 DEF NoMergeKnown, WorkerKnowsNoMerge
<1> QED
  BY <1>1, <1>2 DEF MergesAreReal

LEMMA MergesByWorld ==
  ASSUME TypeOK, MergesAreReal, World
  PROVE  MergesAreReal' /\ status' = status
<1> USE DEF task, github, project, counts
<1>1. status' = status
  BY DEF World, AgentOpensPr, PersonCloses, PersonMerges, CiReports, MainReports, Happens,
     JobDies, RequestDies
<1>2. ASSUME pr' # "merged" PROVE NoMergeKnown'
  <2>1. pr # "merged" /\ prState' = prState /\ swp' = swp
    BY <1>2 DEF World, AgentOpensPr, PersonCloses, PersonMerges, CiReports, MainReports, Happens,
       JobDies, RequestDies
  <2>2. NoMergeKnown /\ queue \in Seq(Events)
    BY <2>1 DEF MergesAreReal, TypeOK
  <2>3. ASSUME NEW e \in Events, e # PrEvent("merged"), Happens(e)
        PROVE  NoMergeKnown'
    BY <2>1, <2>2, <2>3, NoMergeAppended DEF Happens, NoMergeKnown, WorkerKnowsNoMerge
  <2>4. CASE AgentOpensPr \/ PersonCloses \/ PersonMerges
    BY <1>2, <2>3, <2>4, EventsTyped, MergedIsForeign
    DEF AgentOpensPr, PersonCloses, PersonMerges, PrStates
  <2>5. CASE \/ \E s \in Verdicts : CiReports(s)
             \/ \E s \in {"passing", "failing"} : MainReports(s)
    BY <2>3, <2>5, EventsTyped, MergedIsForeign, VerdictsAssumption
    DEF CiReports, MainReports, CiStates
  <2>6. CASE JobDies
    <3>1. wk.event \in Events /\ wk.event # PrEvent("merged")
      BY <2>2 DEF TypeOK, JobStates, NoMergeKnown, WorkerKnowsNoMerge
    <3>2. NoMergeIn(queue')
      BY <2>2, <2>6, <3>1, NoMergeAppended, NoMergePrepended DEF JobDies, NoMergeKnown
    <3>3. WorkerKnowsNoMerge'
      BY <2>6, MergedIsForeign DEF JobDies, JobEnds, IdleJob, WorkerKnowsNoMerge
    <3> QED
      BY <2>1, <2>2, <2>6, <3>2, <3>3 DEF JobDies, NoMergeKnown
  <2>7. ASSUME NEW r \in Slots, RequestDies(r)
        PROVE  NoMergeKnown'
    <3>1. \A s \in Slots : KnowsNoMerge(req'[s])
      BY <2>2, <2>7, MergedIsForeign, KnowsOneRequest DEF RequestDies, Replies, NoMergeKnown
    <3> QED
      BY <2>1, <2>2, <2>7, <3>1 DEF RequestDies, NoMergeKnown, WorkerKnowsNoMerge
  <2> QED
    BY <2>4, <2>5, <2>6, <2>7 DEF World
<1> QED
  BY <1>1, <1>2 DEF MergesAreReal

(* Done means merged: unless a person says so of the task, it becomes done *)
(* only once its pull request has been merged.                             *)
THEOREM DoneIsMerged == Spec => DoneMeansMerged
<1>1. Init => MergesAreReal
  BY MergedIsForeign DEF Init, MergesAreReal, NoMergeKnown, NoMergeIn, WorkerKnowsNoMerge, IdleJob
<1>2. TypeOK /\ MergesAreReal /\ [Next]_vars => MergesAreReal'
  <2> SUFFICES ASSUME TypeOK, MergesAreReal, [Next]_vars PROVE MergesAreReal'
    OBVIOUS
  <2>1. CASE Next
    BY <2>1, MergesByRequest, MergesByWorker, MergesBySweep, MergesByPeople, MergesByWorld DEF Next
  <2>2. CASE UNCHANGED vars
    BY <2>2 DEF vars, task, project, github, counts, MergesAreReal, NoMergeKnown, NoMergeIn,
       WorkerKnowsNoMerge, KnowsNoMerge
  <2> QED
    BY <2>1, <2>2
<1>3. TypeOK /\ MergesAreReal /\ [Next]_vars
        => [status # "done" /\ status' = "done" /\ ~PersonSays => pr = "merged"]_vars
  BY MergesByRequest, MergesByWorker, MergesBySweep, MergesByPeople, MergesByWorld DEF Next
<1> QED
  BY <1>1, <1>2, <1>3, TypeCorrect, PTL DEF Spec, DoneMeansMerged

(* The worker and the sweep only carry a task forward, whatever has been   *)
(* decided since they read it: each of their writes looks at the status    *)
(* again.                                                                  *)
THEOREM WorkerMovesForward == Spec => MachineMovesForward
<1> USE DEF task, github, project, counts
<1>1. WorkerStep => \/ status' = status
                    \/ <<status, status'>> \in {<<"needs_review", "approved">>,
                                                <<"needs_review", "done">>, <<"approved", "done">>}
  BY DEF WorkerStep, TakeEvent, ApplyPullRequest, CompleteMerged, ApplyMainRun, ApplyBranchRun,
     SelectCandidates, JobApproves, JobMerges, JobFinalizes, LinksPr, AutoApproved, Approves,
     RowIsMerged, Completes
<1>2. SweepStep => status' = status \/ (status = "needs_review" /\ status' = "done")
  BY DEF SweepStep, SweepRead, SweepLooks, SweepLinks, SweepFinalizes, LinksPr, RowIsMerged
<1>3. [Next]_vars =>
        [WorkerStep \/ SweepStep =>
           \/ status' = status
           \/ <<status, status'>> \in {<<"needs_review", "approved">>, <<"needs_review", "done">>,
                                       <<"approved", "done">>}]_vars
  BY <1>1, <1>2
<1> QED
  BY <1>3, PTL DEF Spec, MachineMovesForward
=============================================================================
