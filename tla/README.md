# specbook in TLA+

specbook is a task board shared by people and coding agents. A human files tasks
as specifications, agents take them from a queue over MCP, work on a branch, hand
in a pull request, and a human, or a project's automation mode, reviews, merges
and deploys. The server is a NestJS api, a BullMQ worker, Postgres and Redis.

The service layer takes no row locks and, with few exceptions, opens no
transactions. A handler reads a row, checks it, awaits, and writes later; two
processes (api and worker) do this to the same rows, and GitHub and CI change the
world meanwhile. Whether the board stays consistent rests on a few conditions in
WHERE clauses. That is what this project is about.

Line numbers below and in `PROJECT.json` are of the sources this was written from.

## 1. Inventory

| Component | State | Operations | Where |
|---|---|---|---|
| Task protocol | none | status sets, one transition map per actor, the modes and what each grants | `packages/contracts/src/constants/task.ts` |
| Task service | `task`, `task_comment`, `task_dependency` rows | create, transition, update, agentUpdateSpec, addComment, getNotes, add/removeDependency, markReady, delete, merge, syncPr, assumptions, criteria, cost | `apps/api/src/tasks/task.service.ts`, `task.repository.ts` |
| Projects | mode, archivedAt, autoPausedAt, limits | create, update, archive, resume, delete | `apps/api/src/tasks/project.service.ts` |
| Agent sweep | none of its own | every 5 minutes: release claims of dead agents, open pull requests of parked submissions, poll managed agents | `apps/worker/src/queues/agent-sweep` |
| GitHub webhook worker | none of its own | pull request and workflow events, breaker, auto engine, retries of red runs, auto-deploy | `apps/worker/src/queues/github-webhook` |
| GitHub App client | GitHub itself | find, open, merge pull requests; repositories; webhook entry | `packages/server/src/modules/github`, `apps/api/src/github` |
| Agents and presence | `agent` rows | touch on every MCP call; start and stop managed agents | `apps/api/src/agents`, `apps/worker/src/queues/agent-lifecycle` |
| MCP server | none | the agents' door to the task service | `apps/api/src/mcp` |
| Environments | `environment`, `deployment` rows | create, provision, move, delete, deploy, cancel; variables, host names | `apps/api/src/environments` |
| Deployment worker | the row's phase, the box (an app server with the stack) | one run at a time: resolve, build, render, bring up; auto-deploy of merges | `apps/worker/src/queues/deployment`, `packages/server/src/modules/deploy` |
| Environment provisioning worker | databases and caches on servers, `platformEnv` | provision, deprovision | `apps/worker/src/queues/environment-provision` |
| Queues | Redis jobs | one job at a time or several, attempts, stalled jobs, fixed job ids | `packages/server/src/modules/queues` |
| Sessions | refresh tokens, blacklist and logout stamps in Redis | login, the guard, rotation with a grace marker, logout, logout of all devices | `packages/server/src/modules/iam`, `apps/api/src/auth` |
| Invitations, users, organizations | rows | invite, revoke, accept, create, change role, remove, found, delete | `apps/api/src/{invitations,user,org,auth}` |
| Research | documents with status and version, messages | publish, reply, accept, reopen, delete; cut tickets | `apps/api/src/research` |
| Attachments | rows, objects in a store | upload, confirm, delete, sweep | `apps/api/src/attachments`, `apps/worker/src/queues/attachments-sweep` |
| Servers | rows with status and pinned host key | edit, delete, check (by hand, every ten minutes), provision | `apps/api/src/servers`, `apps/worker/src/queues/server-check` |
| Shells | tickets, sockets, ssh channels, timers; audit rows | issue, redeem, type, renew, end | `apps/api/src/servers/server-shell.*` |
| ssh client | connections | run a command, pipe an image, test a connection | `packages/server/src/modules/ssh` |
| Data plane browser | none | queries over ssh | `apps/api/src/data-plane` |
| Mobile app | two tokens in the keychain, the state of its auth store | launch, sign in and out, refresh | `apps/mobile/src/shared` |
| Notifications, API keys, example jobs | rows | single statements | `apps/api/src/{notifications,api-key,jobs}` |
| Web, end-to-end tests | none the server relies on | clients | `apps/web`, `apps/e2e` |

How they interact. Api and worker never call each other: they share rows and
BullMQ queues. The api calls GitHub from requests (after the response row is
written); GitHub answers through the webhook queue, which the worker runs one job
at a time. The worker's repeatable sweep repairs what requests left behind. An
api process that dies takes its requests with it for good; a worker's job is run
again.

What is hard, and what makes each part correct:

- **Claims.** Requests racing for one task, a sweep working from an old read, a
  status that leaves and comes back (ABA). Correct if a queued task is nobody's,
  is won once, and a dead agent's task comes back.
- **Gates and side writes.** A submission is checked against notes and specs that
  others write; the comment that explains a move is stored after the move.
- **The dependency graph.** Cycles, cancellation and bulk promotion all walk a
  copy of the graph. Correct if no set of tasks waits for itself and nobody waits
  on work that will not come.
- **Automation.** Four modes, three engines (api hooks, worker, sweep), a breaker,
  and events in any order, some again. Correct if it keeps out of the human lane,
  says done only of what is merged, never overrules a human backwards, and forgets
  no submission.
- **Deployments.** The row, the queue and the box are three stores; a run may be
  cancelled, redelivered, overtaken or deleted. Correct if the history moves forward,
  healthy means a seeded box that serves what was asked, every run comes to an end,
  and the machine does not loop on a red environment.
- **Provisioning.** Databases are named by project and environment name, so they
  outlive rows; two workers write one sealed map, each from its own reading; job ids
  stay taken. Correct if the wired database answers to the wired password.
- **Sessions.** Many requests of a device rotate one token at once and answers get
  lost. Correct if no device is stranded, and no session outlives its time.
- **Managed agents.** People, the worker, the agent and the sweep write one row by its
  id, each after looking at something else. Correct if the last request decides, stopped
  means gone, and what the row says wrongly it does not go on saying.
- **Accounts.** Invitations and removals are two or more statements each. Correct if a
  link is spent once, as it was offered, and nobody is left an account they cannot use.
- **Shells.** A socket, an ssh channel, two timers and a row end independently and while
  one another is being awaited. Correct if a forgotten terminal ends, whatever it prints,
  and the trail tells how each session ended.
- **Server checks, transfers.** The network is slow against the row that describes it, and
  silent both when it is dead and when it is done. Correct if the row comes to say the truth,
  a host key that changed is never taken over, and a transfer ends for the right reason.
- **Attachments.** Row and objects are two stores without a transaction. Correct if what is
  served is there, and what is not served goes in the end.
- **Research.** People and an agent write one document, each on an older reading. Correct if
  a reply is awaited until it has been read.
- **The mobile app.** Requests that fail together share a refresh; the app is killed
  anywhere. Correct if no spent token is presented again and credentials that work are kept.

`PROJECT.json` lists every such hazard at its line, with the property that covers
it or why none does yet.

## 2. Modules

| Module | Models |
|---|---|
| `TaskProtocol` | the contracts package: statuses, the transition maps as sets of edges, modes |
| `TaskBoard` | abstract: what the task service promises, without requests, reads or sweeps |
| `TaskLifecycle` | the task service's requests and the agent sweep, one row per task; implements `TaskBoard` |
| `TaskDependencies` | the dependency edges, cancellation's fan-out, bulk promotion |
| `AutoProgress` | pull request, CI, breaker, merges: api hooks, webhook worker, sweep |
| `DeploymentRecord` | abstract: what the deployment history of an environment promises its readers |
| `Deployments` | api, webhook worker, queue, deployment worker and box of one environment; implements `DeploymentRecord` |
| `Provisioning` | the row, wiring, databases and caches behind one environment name, and the jobs that make and unmake them |
| `Accounts` | people, organizations, memberships, invitations, one statement per step |
| `Sessions` | the refresh and access tokens of one user: rotation, grace, guard, logouts, expiry |
| `ManagedAgents` | the row, the lifecycle queue and the tmux session of one managed agent, its stamps and the sweep |
| `Shells` | browser shells of one organization: tickets, sockets, ssh, timers, audit rows |
| `ServerChecks` | the row of one server, the two checks that may run at once, its machines |
| `Transfer` | `pipeOp`: one image from the build server to the app server |
| `Attachments` | one attachment: row, objects, requests, sweep |
| `Research` | one document and its conversation |
| `MobileSession` | the credentials of one mobile device |
| `Periphery` | `ManagedAgents` and the six above, instantiated: which of them a behaviour is of is its first choice |
| `*_proofs` | the theorems about the module of the same name |
| `MC*` | constants and definitions for TLC |

The first three state machines split the task row between them. `TaskLifecycle` owns status, claim, spec,
links as far as gates need them and notes; `TaskDependencies` owns the edges;
`AutoProgress` owns the pull request columns. Each states the columns of the
others it needs. A module that does not follow a transition's race (the other two)
may take it as one step because its compare-and-swap pins the status, which
`TaskLifecycle` models in full. `Deployments` and `Provisioning` meet in two columns:
`provisionStatus` may have either value whenever a deployment reads it, and the
deployment's write of `platformEnv` is a step of `Provisioning` (`RunReads`,
`RunMints`). `Deployments` meets `AutoProgress` in the merge, which is any step of
GitHub here. `Sessions` sees of `Accounts` only that a membership may end.
`ManagedAgents` shares the stamp with `TaskLifecycle`: here it is what the row says, there
how fresh it is.

### The shape of a request

In all of them a request is a record with a `pc`. Its first action is the read, with
every guard the handler evaluates on that snapshot; a request the guards refuse
changes nothing and is not a step. Each further action is one more read or one
write, so that everything else may happen between. The name of an action is the
name of the handler plus what it does at that point: `TransitionRead`,
`TransitionMode` (projectAllowsAgentDispatch), `TransitionNotes` (hasUnackedNotes),
`TransitionSwap` (casUpdateStatus), `TransitionComment` (createComment).

### TaskLifecycle

| Code | Model |
|---|---|
| `transition` | `TransitionRead` .. `TransitionComment`; `ClaimWritten` is the claim the patch sets, decided on the row read, `Swaps` the WHERE clause |
| `update`, `agentUpdateSpec` | `UpdateRead`, `SpecEditRead`, `PatchWrite` (by id, no status) |
| `addComment` of a note, `getNotes` | `NoteRead`, `NoteWrite`; `GetNotesRead`, `AckNotes` |
| `delete`, `markReady`, `create` | `DeleteRead`, `DeleteWrite`; `MarkReadyRead`, `MarkReadyWrite`; `Create` |
| `AgentService.touch` | `Touch`; time passing without it, `GoSilent` |
| agent sweep | `SweepRead` (a batch), `SweepJudge` (claimantAgents), `SweepRelease` |
| project mode, archive | `SetMode`, `SetArchived` |
| killed processes | `CallDies`, `SweepDies` |

Simplified: `requireTask`'s two reads (row, then project) are one; `create` is one
step; presence is kept per user, as the most recent over the agents of the user's
keys, because that is all the sweep asks; whether the swap will claim is stored in
the request (`claims`) instead of the whole row read; an id may be a human's and an
agent's owner's at once, as in the code; ids are not used again. Left out:
notifications, cost, criteria, ordinary comments.

### TaskDependencies

`AddRead` / `AddInsert` are addDependency's walk and insert, `Cancel` /
`DependentsRead` / `Detach` the fan-out, `MarkReadyRead` / `MarkReadyWrite` the
promotion, `DeleteRead` / `DeleteWrite` with the cascade. A walk is modelled by its
result, the least set that holds its start and follows every edge (`Reached`); that
the loop with its stack computes this set is not modelled. A project starts with
filed, unrelated drafts; which tasks are half-specified (`Blank`) is fixed in an
instance.

### AutoProgress

One task on one branch: tasks share only the mode and the breaker. Columns and
processes:

| Code | Model |
|---|---|
| `transition`'s hooks: maybeOpenReviewPr | `OpenReviewPr`, `LookForPr`, `LinkPr`, `AlreadyMerged` |
| maybeAutoProgress | `Progress`, `Approve`, then `MergeRead` .. |
| `merge`, `finalizeMerged`, `syncPr` | `ClickMerge`, `MergeRead`, `MergeCall`, `FinalizeMerged`; `ClickSync`, `SyncWrite` |
| webhook processor | `TakeEvent` (with the project row it keeps using), `ApplyPullRequest`, `CompleteMerged`, `ApplyMainRun` (breaker, `RescanParked`), `ApplyBranchRun`, `SelectCandidates`, `JobApproves`, `JobMerges`, `JobFinalizes` |
| recoverParkedReviewPrs | `SweepRead`, `SweepLooks`, `SweepLinks`, `SweepFinalizes` |
| GitHub and CI | `Adopts`, `Lands`, `Fails`; `AgentOpensPr`, `CiReports`, `MainReports`, `PersonCloses`, `PersonMerges` |
| a killed job | `JobDies`: it comes back at the front (stalled) or at the back (failed, retried) of the queue |

`Verdicts` is what CI may say of the branch; it may speak before the pull request
exists. GitHub may refuse, fail, or carry out a merge and have its answer lost.

Simplified: branch and link are recorded and the App is installed; one round (a
merged round followed by a new link is planned); red runs are not retried; no webhook
delivery is lost; finding a pull request and merging it is one step, as are the two
selects of the rescan. Left out: archiving; moves out of these stages (back to draft
or ready, blocked, claimed by someone else); turning a task into a human one while
it is under review, which races the engine's read and is listed as a hazard.

`unattended` is a history variable: it becomes true where no code looks at the task
again by itself. These are: GitHub refused a merge; an api process died on the way;
the owner cleared the flag, resumed the project, changed the mode, or moved the task
back to review by hand; an agent gave the approval itself on an autonomous project.
`NeverParked` says nothing after them. It is deliberately explicit, so that a reader
sees what the automation does not promise.

### Deployments

| Code | Model |
|---|---|
| `deploy`: createDeployment, enqueueDeploy | `Deploy`, `Enqueue` |
| `cancelDeployment`: findActiveDeployment, requestDeploymentCancel | `FindActive`, `RequestCancel` |
| `delete`, as far as the rows go | `Delete` (cascade) |
| webhook `autoDeploy` | `Merge` (the event), `AutoDeploy` (the look: `Busy`, `ComputeAutoDeployPaused` over the `Recent` rows), `AutoInsert` |
| `process`, `pollCancel` | `TakeJob` (`ToDo`), `PollCancel`, `JobDone` |
| `run` | `Begin`, `ResolveHead`, `Build`, `Render` (ensureRuntimeSecrets, neverDeployedHealthy), `BringUp`, `Finish`; any of them may fail: `StepFails` |
| BullMQ | `queue`; a stalled job comes back to the front once (`WorkerDies`, `Redelivered`) |

An aborted run is stopped by its next remote command; where a step has none, it goes
on, as in the code. Simplified: the head of the branch is the number of merges; a
roll-out that fails leaves any of: the old containers, the new ones, the new ones and
the seed. Left out: choosing the build server, logs, and the teardown of a deleted
environment's stack (`Provisioning` has the teardown of its databases).

`attempts` and `asked` are history variables. `DeploymentRecord` is the abstract
specification: a run is requested once, executed at most twice, moves forward within
an execution, is cancelled only when somebody asked, stays healthy once it is, and
rows disappear only together. The refinement mapping is the identity on its three
variables, so what is shown is that every step of the detailed machine, whatever it
does to the queue, the job and the box, is one of its steps or a stutter.

### Provisioning

| Code | Model |
|---|---|
| `create`, `provision`, `update` of the placement | `Create`, `ProvisionAgain`, `Update`; `Enqueue` (the producer, with `Collapses` for its fixed job id) |
| `delete` | `ReadDeleted`, `EnqueueTeardown`, `DeleteRow` |
| `process` of a provision job | `TakeProvision` (reads the row, reuses or generates passwords), `ProvisionDatabase`, `ProvisionCache`, `ProvisionLocal`, `WriteWiring`; `Fails` |
| of a deprovision job | `TakeDeprovision`, `DeprovisionUnit` |
| ensureRuntimeSecrets of a deployment | `RunReads`, `RunMints` |

A password is a value of a small set; a database is the password its role has; a
cache is absent, open or has a password. Environments that follow one another under
one name share databases and caches, not rows. `missed` is a history variable: it
holds the environments whose request met a job that was kept, or done and not removed
yet, the two cases in which the fixed id loses the request. Left out: external
servers (the database is created over the wire and retired instead of dropped), object
storage, a second deletion at once.

### Accounts

`Invite`, `Supersede`, `InsertInvite`; `Revoke`, `Expire`; `OpenSignup`,
`LookupSignup`, `Win`, `SignupAccount` (acceptAsNewUser); `OpenJoin`, `Recognise`,
`CheckMember`, `Spend` or `Win` and `AddMembership` (acceptAsMember); `CreateUser`,
`InsertUser`; `Register`, `InsertRegistered`; `UpdateUser`, `WriteRole`;
`RemoveUser`, `DeleteMembership`, `CountOrgs`, `DropUser`; `CreateOrg`, `DeleteOrg`.
A step is one statement, or one transaction, so the foreign keys, the unique email and
the cascades of the schema are in the steps that meet them. `Author` writes any row
that references its author ON DELETE RESTRICT. `left` is a history variable: who may
be left an account without an organization, because the organization was deleted, the
removal died, or the account could not be deleted. Left out: profile fields,
passwords, switching organizations.

### Sessions

| Code | Model |
|---|---|
| issueTokens | `Login` (`Session`, `Iat`) |
| the guard: expiry, blacklist, logout stamp, silent refresh | `Accepted` (`Lapsed`, `Stamped`), `Send` of a refresh or a logout; `Answer` is what the device gets |
| `refresh` | `ReadSession`, `VerifyAccess`, `Rotate`, `Deny` |
| `logout` | `BanFirst`, `ReadRevoked`, `Unmark`, `Revoke`, `ClearCookies` |
| `logoutAll`, also of a password change | `Begin` (the stamp), `ListSessions`, `Wipe`, `BanLast`, `ClearCookies` |
| the device and the network | `SendRefresh`, `SendLogout`, `Deliver`, `Lose` |

A MULTI is one step, including what Redis does with an expiry of zero. Time passes in
ticks, several to a second, because the provider counts milliseconds and Redis and the
tokens seconds; `Lag` bounds how long a refresh takes. `ended`, `missed` and `spent` are
history variables: the access tokens issued before the last logout of all devices, those
issued while it ran, and those a logout has blacklisted. Left out: the check of passwords
and the lock after failed logins.

### ManagedAgents

| Code | Model |
|---|---|
| `createManaged` | `Init` |
| `start` (row, then queue), `stop` (queue only) | `Start`, `EnqueueStart`; `Stop` |
| `touch` | `TouchReads` (currentClaim), `TouchStamps` (update by id) |
| lifecycle `process`, `start`, `stop`, its catch | `TakeJob`, `Ensure`, `Launch`, `Kill`, `CommandFails`, `Patch` |
| runner-start, runner-stop, runner-status | `Launched`, `Kill`, `Up` |
| `pollManaged` | `SweepSelects`, `SweepAsks`, `SweepWrites` |
| deletion of the server | `DeleteServer` |

`session` tells a live CLI from its dead pane, which tmux keeps for a day: only the first
stamps the row, and runner-start leaves both alone. Left out: the log, the minting of the
key, external agents, the soft limit of one agent per server; one stamp at a time is
under way.

### Shells

| Code | Model |
|---|---|
| `issue`, its ticket timer, `redeem` | `Issue`, `TicketLapses`, `Redeem` |
| `handleConnection` up to `ssh.shell` | `FindServer` (timers armed, socket listened to) |
| where `ssh.shell` returns or throws | `Connected` (register), `ConnectFails` |
| `end`, `finish`, `close` of the row | `End`, then `CloseRow`; by `SocketCloses`, `HardExpiry`, `IdleExpiry`, `FarEndExits` |
| `touch`; `renew` with `extendExpiry` | `Stirs`, `Types`; `Renewal`, `RowMoves`, `DeadlineFollows` |

A tick is five minutes, the stretch in which a window is renewed. What is typed or printed
is left out, and so are the transcript and its cap.

### ServerChecks

`ReadRow`, `TestConnection` (`Verdict`) and `WriteStatus` (`Patched`) are checkOne, of the
sweep or of the job somebody asked for (`Test`, whose fixed id `asked` follows);
`Update` and `Delete` are people, `GoesDownOrUp` and `IsReinstalled` machines. `crossed` is
a history variable: a check has overlapped an edit, or two were first contacts.

### Transfer

`Listen` to `SourceOpens` set up the pipe; `Data`, `SourceEnds`, `SourceCloses`, `Takes`
and `DestinationCloses` are the events of the two channels; `Check` is the stall interval
and, at its last tick, the ceiling; `Abort` is the signal, `Finally` closes both
connections. `Settles` is `finish`: the first word counts. A destination that unpacks for
long is one that does not close yet.

### Attachments

`ConfirmReads`, `Head`, `DropObject`, `EraseRow`, `HeadThumbnail`, `Swap` are confirm;
`DeleteReads`, `DeleteObjects`, `SoftDelete` delete; `SweepSelects`, `SweepObjects`,
`SweepRow` both passes of the sweep. The store fails any call. `blipped` and `torn` are
history variables: a deletion in the store failed; somebody died between the objects
and the row.

### Research

Each handler is its read, its message and its write: `AgentReads`, `AgentSays`,
`Publishes`; `ReplySays`, `ReplyAwaits`; and likewise `Accept*`, `Reopen*`. `unheard` says
that somebody replied after what the last publication had read, `excused` that this reply
met another request or was cut off; both are history variables.

### MobileSession

| Code | Model |
|---|---|
| request interceptor, response interceptor | `Sends`, `Retried`; `Unauthorized`, `Rejected`, `Lands`, `KeepsTokens`, `ClearsTokens` |
| `refreshTokens`, `setTokens` | `ReadToken`, the server's answer, `NoAnswer`, `SetTokens` |
| `bootstrap`, `signIn`, `signOut` | `Bootstrap`, `Login` and `SignIn`, `SignOut`; `FlowEnds` |
| the server | `ServerRotates`, `ServerRepeats` (the time of grace), `ServerRefuses`, `SessionEnds`, as `Sessions` has them |

Tokens are numbered by the pair they were issued in. A kill leaves one, both or none of two
tokens that were being stored. `lost` and `crossed` are history variables: the app never
heard that a pair was spent; somebody signed in or out while a refresh was out.

### Periphery

`ManagedAgents` and the six parts just described share no state, so a behaviour of the
whole is one behaviour of each, and a property of one part holds of the whole when it holds
of that part. `at` says which part the behaviour is of; the others stay in their initial
state. `Parts` says which of them an instance checks: `periphery` the six, `managed_agents`
the agents, whose fairness is `FairAgents`. What is proved is proved for any `Parts`.

## 3. Runs

| Run | Instance | Checks |
|---|---|---|
| `lifecycle` | 1 task, 1 person, 2 agents (symmetric), 2 requests in flight, the sweep | `QueuedIsUnclaimed`, `ClaimedOnce`, `QuestionOnFile`, and that the service implements `TaskBoard` (`KeepsTheBoard`) |
| `lifecycle_live` | 1 task, 1 person, 1 agent, 1 request at a time, every filing and patch, two modes, archiving, one death | `DeadClaimReleased` |
| `dependencies` | 3 tasks (one half-specified), 2 requests, one may add edges, one may die | `NoKnot`, `CancelCutsLoose`, `TakesPrerequisitesAlong` |
| `auto` | 1 request slot, modes auto and autonomous, every choice of people, every verdict, 1 report of CI or a person on GitHub, 1 death | `HumanLane`, `DoneMeansMerged`, `MachineMovesForward` |
| `auto_live` | modes auto and auto_merge, green or red checks, 3 reports, humans decide, no death | `NeverParked` |
| `autonomous_parked` | mode autonomous, green or red checks, 2 reports, nobody decides | violates `NeverParked` |
| `deployments` | 2 runs, 2 heads, 1 pending merge, 2 deaths, 3 recent rows read | `HealthyIsSeeded`, `BreakerHolds`, `BoxServesTheHealthy`, `OrphansCostDeaths`, that the machine implements `DeploymentRecord` (`KeepsTheRecord`), `EveryRunEnds` |
| `provisioning` | 2 environments after each other, 2 secrets, 1 move of both roles, 1 second click, 1 death | `DatabaseReachable` (with the type invariant), `CredentialsKept`, `ProvisioningEnds` |
| `accounts` | 2 people (a founder and a member), 2 organizations, 2 invitations, 2 requests at a time and 4 in all, 1 death | `TypeOK`, `NobodyStranded`, `LinksKeepTheirWord` (`SingleUse`, `MembersAsInvited`) |
| `sessions` | 1 device, 2 requests at a time, 3 tokens, sessions of 2 seconds and access tokens of 1 in half-second ticks, 1 logout | `TypeOK`, `NobodyStranded` (with `GraceLeadsHome`), `OverIsOver` (`EndsOnTime`, `LoggedOutForGood`), `LogoutEndsAll` |
| `managed_agents` | `Periphery` with nothing but agents: 3 clicks, 2 deaths, 1 command that fails, 1 runner that ends or server that is deleted | `StoppedIsGone`, `LastWordHolds`, `Settles` |
| `periphery` | 1 shell, 1 server with 2 hosts and 2 keys, an image of 4 chunks, 1 attachment, 1 document of 4 messages, 1 device with 2 requests and 2 pairs of tokens; 2 requests at a time, 1 death, edit, change or lost answer each | `TypeOK`, `ForgottenEnds`, `SilenceIsDeath`, `StoreMatchesRow`, `RepliesAreAwaited`, `NeverSpentTwice`, `NothingTakenBack` (`TrailIsFinal`, `NeverRepinned`, `KeepsCredentials`), `ComesToAnEnd` (`TrailCloses`, `Transfer`'s, `IsCollected`), `SaysTheTruth` |

The type invariants of `TaskLifecycle`, `TaskDependencies`, `AutoProgress` and `Deployments`
are in no run: they are theorems (section 5). Those of `Accounts`, `Sessions` and
`Periphery` are both; that of `ManagedAgents` is part of `Periphery`'s.

Why the bounds are enough. One task suffices in `lifecycle`: tasks of a project
meet there only in the bulk promotion and the sweep's batch, each of which treats
its tasks separately, and the theorems hold for any number. Two requests in flight
beside the sweep give every pair of stale read and fresh write, and ABA, because
each request that ends makes room for the next: behaviours are not bounded in
length. Three tasks make the smallest knot that a check of direct edges misses. In
`auto`, one slot runs with the worker, the sweep and GitHub, so four actors
interleave; one report besides those GitHub makes of its own merges and new pull
requests. `auto_live` needs three reports: a red main branch, a green branch and a
green main branch are the way in and out of a pause.

In `deployments`, two runs are what the breaker needs (two failures, on which the machine
must not decide for a third) and what it takes for a run to overtake another; two heads
suffice because a rollback shows with two commits, and two deaths for a redelivered job
to be given up. The window of recent rows is 3 instead of 10: with two rows it never cuts
one off. In `provisioning`, the second environment is there to meet what the
first left, and the move takes both roles away from the app server, which is the case
in which each placement branch runs. In `accounts`, one person beside the founder and
two organizations are the smallest instance in which two removals race, and two
invitations the smallest in which one supersedes the other. In `sessions`, three tokens
are a chain of two rotations, and half seconds make the rounding visible. In
`managed_agents`, three clicks are a start, a stop and a start that could be mistaken for
the first, and two deaths give a job up.

In `periphery`, shells do not meet but in the cap, which the code does not keep (below), so
one is enough. Its windows of 30, 10 and 5 minutes and four hours are 3, 2, 1 and 5 ticks,
in which every timer may be the first and a window is renewed up to the ceiling. Two
requests on one attachment or document, beside the sweep, give each pair of an old reading
and a new write; two hosts and two keys give a check of each old one. The pipe holds half
of an image, so that it fills up. Two pairs of tokens are one rotation, two requests the
smallest number that shares a refresh.

Deadlock is checked except where stopping is right: all tasks of `TaskDependencies`
may be deleted; in `autonomous_parked` nobody acts; and in the other components people,
merges, deaths and the clock are bounded, so the system may come to rest.

### Fairness

- `WF(SweepStep)` (both modules): the sweep is a repeatable job, every 5 minutes.
- `WF(Continue(c))`, `WF(RequestStep(r))`: a server that accepted a request runs it.
- `WF(WorkerStep)`: the queue is drained, and a job that died is run again.

- `Deployments`: `WF(WorkerStep)`, `WF(Enqueue(r))`, `WF(AutoInsert)`: the worker, a
  request in progress and the webhook worker go on. `PollCancel` is not fair: nothing
  that is promised needs a cancellation to be seen.
- `Provisioning`: `WF(WorkerStep)`, `WF(Enqueue)`, for the same reasons.
- `Periphery`, agents (`FairAgents`): `WF(WorkerStep)`, `WF(SweepStep)`, `WF(EnqueueStart(c))`. Commands fail
  a bounded number of times: a box that never answers again is never found out.
- `Periphery`, the other parts (`FairSpec`): each has what its scheduling gives it. Timers go off, the database
  answers, the sweeps run (a check of the server sweep fails now and then but not always,
  which is `SF`), a source that runs sends something between two checks of the detector,
  ten minutes apart, and a channel that has ended says so.

Nothing is assumed of people, agents, CI or GitHub, nor that a call succeeds.
`DeadClaimReleased` is checked with a batch that holds all claims, and `NeverParked`
takes it that no webhook job is killed; section "Where the code falls short" says why.
`EveryRunEnds` and `ProvisioningEnds` except the runs whose job or request died, and
`OrphansCostDeaths` makes that exact: there are never more of them than deaths. `Settles`
excepts the starts that were given up and the agents of a deleted server.

## 4. Findings

1. **A submission on an autonomous project whose checks go green late is never
   approved** (`github-webhook.processor.ts:502` compares the mode with `'auto'`;
   the contracts say "auto, autonomous" and warn of such comparisons).
   `autonomous_parked`.
`PROJECT.json` quotes the lines. The properties that hold are the normal result; in
particular the claim survives every race, although it is decided on a stale row.

### Where the code falls short

What follows was met while modelling and has no property, because no document of the
repository promises otherwise or because the code cannot promise it. The models have
these behaviours unless noted; most are one value of a constant away.

- *Sweep.* It reads 50 claims with no order; with more live ones a dead one may never
  be read (`DeadClaimReleased` fails with a smaller `Batch`). It releases by id and
  status what it judged earlier, so a task that was taken by a live agent meanwhile is
  taken from it (`agent-sweep.processor.ts:313`).
- *Steering notes.* A note stored between the gate and the swap is shipped past
  (`task.service.ts:396`).
- *Dependencies.* Two requests may close a cycle that neither sees
  (`task.service.ts:1085`; `NoKnot` fails with two `Adders`). A dependency added on a
  cancelled task, or a done dependent of one that is reopened, waits for good
  (`:1058`, `:461`).
- *Breaker.* A worker killed between resetting it and rescanning is redelivered a job
  that finds nothing to reset (`github-webhook.processor.ts:310`; `NeverParked` fails
  with a death).
- *Deployments.* A merge that arrives while a run that has resolved HEAD is in flight
  is deployed neither by it nor by a next one, until another merge (`:241`). Deleting
  an environment beside a running deployment leaves that stack up: the run ends on the
  box although its row is gone. An orphaned `queued` row cannot be cancelled and holds
  back automatic deployments for good; only deleting the environment ends it.
- *platformEnv.* Provisioning and a deployment each write the whole map from their own
  reading: secrets minted in between are lost, and a move of the database may be undone
  in the wiring (`environment-provision.processor.ts:251`). Environment variables are
  written whole as well, and one of two edits is lost.
- *Failed re-provision.* A co-located Redis is created again with a password before the
  wiring is written; when a later step fails, the running environment holds a wiring
  without it, although the comment at `environment-provision.processor.ts:376` says a
  failure leaves it working. `DatabaseReachable` is about the database, where this
  cannot happen because its password is reused.
- *Sessions.* A refresh in flight survives the logout of all devices: its session is
  added after the index was read (`local-auth.provider.ts:202`). A refresh of an older
  session sets the expiry of the whole index to what is left of its own (`:189`), so the
  sessions of newer devices are forgotten with it and a later logout of all devices misses
  them. A second logout of all devices that overlaps the first deletes the index with what
  was added since. A login in the second of a logout of all devices gets an access token
  that is refused (`:218`). Failed logins are counted by INCR and then EXPIRE, two
  commands: a process that dies in between leaves a count that never expires
  (`auth.service.ts:118`).
- *Managed agents.* A stamp that was under way when its agent was stopped makes it idle
  again, and the sweep then reports an error, "the runner died or was killed outside
  specbook" (`agent-sweep.processor.ts:250`); it may report the same of an agent that was
  started again meanwhile, until its next call. Starting an agent whose CLI has ended does
  nothing for a day, because runner-start takes the pane that is kept for a running
  session (`remote-ops.ts:547`), and the row says idle. An agent whose server is deleted
  while a start waits says starting for good.
- *Criteria.* Ticking one writes the whole list read before, so of two edits at once one is
  lost (`task.service.ts:922`).
- *Accounts.* Removing a member may leave an account behind, although `user.service.ts:169`
  says "Check if user is in any other orgs, if not delete the user entirely": the membership
  is deleted first, and the deletion of the account (`:172`) fails for anybody who founded an
  organization or wrote a project, task, document, deployment, server or attachment,
  because those rows reference it ON DELETE RESTRICT (`left` excuses it). The account cannot
  log in any more and its address can neither register nor be created again. Two invitations of one person at once leave two live links. A membership
  gained between the count and the deletion goes with the account. Two owners who
  demote each other leave an organization without one (`user.service.ts:128`). If
  creating the account fails after the link is consumed, the invitee needs a new one,
  which the comment there prefers.
- *Shells.* A socket that closes while ssh connects ends the session, but the connection
  that is made afterwards is registered and stays open until the far end exits; no timer is
  left (`server-shell.gateway.ts:217`). The cap, "One org cannot hold more open shells than
  this at once" (`server.ts:120` of the contracts), counts connected ones, so any number of
  tickets may be out (`server-shell.service.ts:74`). A row whose server is deleted before its
  ticket is redeemed, or whose process restarts, stays open. `EndsForGood`, `CapHolds` and
  `TrailIsTrue` in `Shells` say so, and TLC refutes each.
- *Attachments.* A sweep that selected a stale upload removes row and object although it was
  confirmed meanwhile, and a confirmation that found the object too large does so after
  another one found a smaller one (`UploadedStays` is refuted); the comment at
  `attachment.repository.ts:54` has the confirmation lose cleanly, which it does only when it
  comes last. Of two confirmations at once the second is answered "not found". Nothing sweeps
  the attachments of a deleted task.
- *Research.* A publication does not look at the status: it takes an accepted document back
  to review, although the contracts say "agents can never resurrect their own accepted work"
  (`research.ts:20`; `AcceptedStays` is refuted), and leaves `acceptedAt` set. Two
  publications at once take one version number, although "`version` bumps each time the agent
  publishes a new draft" (`EveryDraftCounts` is refuted). A reply that comes in during an
  agent's turn is overtaken by its draft and no longer awaited. The scroll through the
  documents skips one that is updated meanwhile.
- *Server checks.* A check that overlaps an edit of the host writes status and pin of the old
  host into the new row; two first contacts at once pin whichever key comes last. A check that
  has failed for good keeps its job id, so that asking for one does nothing until the job is
  removed (`server-check.producer.ts:19`); the sweep goes on.
- *Transfer.* An abort while the connections are made is not heard: the listener is attached
  afterwards and `pipeOp` has looked at the signal before (`ssh.service.ts:325`, `:384`;
  `AbortIsHeard` is refuted).
- *Mobile.* A launch without network destroys credentials that work: `bootstrap` clears them
  whatever failed (`auth-store.ts:41`), while `http.ts:71` says "only then may stored
  credentials be destroyed" of a definitive rejection (`OnlyThenDestroyed` is refuted). A
  refresh in flight while somebody signs out, or out and in, stores or clears the wrong
  credentials, and the store may say authenticated with nothing stored until the next request.

## 5. Proofs

TLAPS checks these for any sets of tasks, users and requests, any modes and any
bounds, under the named assumptions of each module (nulls are not ids, choices are
of their types, bounds are natural numbers). Besides, `Sessions` assumes what the
configuration says (`SessionsAssumption`: lifetimes are at least a second, neither the
grace period nor an access token outlives a session) and that the user has a device;
`Periphery` that its windows nest (`WindowsAssumption`: a renewal comes before the end of
what it renews), that a transfer is looked at once before its ceiling, and that the app
may start with a pair of tokens; `Provisioning` that no password is the null value. The code's constants satisfy all of them.

**TaskLifecycle_proofs.** `Invariance` proves `Inv`; `TypeCorrect`,
`QueuedUnclaimed`, `OneWinner`, `QuestionsStored` follow. `QueuedIsUnclaimed` is not
inductive by itself: a swap writes what an older read decided. `RequestsKnow` states
what stays true of a row however it changes after the read: the task has been filed,
the edge is one of a map, and a swap out of `ready` into `in_progress` always
claims. `UnstartedIsUnclaimed` extends the statement to unborn and deleted tasks,
`QueuedIsUnwon` says that queueing starts a new race. `Refinement` maps each step to
a step of the board, or a stutter; the interesting cases are the swap (by the edge it
takes) and writes to a task deleted meanwhile.

**TaskDependencies_proofs.** `OneAdderTiesNoKnot`: with at most one adder, no knot,
whatever else runs. Two facts carry it. `AllowedEdgeTiesNoKnot`: if a knot goes
through a new edge the walk allowed, the part of it the walk has seen is a smaller
knot without the edge. `WalksHold`: removing edges only shortens walks, so one done
on an old copy still holds at the insert. `CancelDetaches` needs `CancelledHandled`:
every edge to a cancelled task is excused, about to be looked at, or about to go.
`PromotionIsClosed` follows from `Reached` being closed under edges.

**AutoProgress_proofs.** `HumanTasksStayHuman` strengthens `HumanLane` by `LaneKept`:
on a human task the worker and sweep stay out, and a request that merges is a
person's. `DoneIsMerged` rests on `MergesAreReal`: until the pull request is merged,
no row, queued event, job, request or sweep says it is. A merge is for good on
GitHub, so old news of one is true news. `WorkerMovesForward` needs no invariant: each
write looks at the status again.

**Deployments_proofs.** `Invariance` proves `IInv`. `OnePlace` says that a run is about
to be handed over, in the queue or with the worker, never in two of them, `Counted` that
it has been taken up as often as its job was handed out, `RowFollowsJob` what the row
says meanwhile: none of this can be seen from the type invariant, and `attempts <= 2`
needs all three. `HealthyOnesAreSeeded` rests on `SeedGoesFirst`: until a row is healthy
each roll-out carries the seed, and one without it finds the account there.
`HealthyOnesAreServed` rests on `HeadsGrow`: HEAD is resolved after the request and one
run at a time is rolled out, so what a run brings is never older than what is there.
`Refinement` maps each step to a step of `DeploymentRecord` or a stutter.
`OrphansBounded` counts: the set of orphans grows only in a death, and by one.
`BreakerNeverLoops` holds for every window, though rows enter and leave it. `BreakerHolds`
speaks of rows alone, so its strengthening `Breaker` adds the machine's decision: from its look at the rows
to its insert, `NoneInFlight` says that no automatic run in the window is still to fail
at once, and `FirstGo` that a run executed again has not failed on its first go. Which
rows the window shows is a matter of counting those above (`RunsAbove`, `NoRowsGo`):
a new row only pushes others out.

**Accounts_proofs.** `Invariance` proves `IInv` and with it `NobodyStranded`, which is
inductive only with `ForeignKeys` (a member exists, and so does the organization) and
`Presented` (a request that redeems a link carries what its row offers, and only for the
one invited). `LinksAreKept`: `SingleUse` counts memberships, which no step can be
checked against; `SpentOnce` says instead who holds a link. Whoever does has won the swap on
`pending`, is alone in that, and the link's count is still zero. The lemmas follow what steps have in
common: a request moves, a membership is added, the offers stay.

**Sessions_proofs.** `Invariance` proves `IInv`, for any lifetimes and any number of ticks to a
second. `NobodyIsStranded` and the rest speak of what a device holds; the
invariant speaks of every token ever issued, because an answer may still be on its way.
`TokensGoOn` says that each works, or why not. `Markers` says that a rotated token leads
to one rotated no earlier, so that its grace ends no later: this is why a chain never
breaks, also when two refreshes write the same marker. `WhatIsOverStaysOver` rests on
`LeftOver` (whole seconds, rounded down from a reading at most `Lag` old, so that what is
written ends within the session's last second or `Lag` after its end) and on `Bans` and `Stamps`
(an entry expires no earlier than the access tokens it is for, both in the seconds Redis
and the tokens count in: `SecondsAhead`, `SecondsGrow`). `LogoutReachesAll` needs
`Listed`: a session is in the index, and the index outlasts it, or it has been let go of
for one of three reasons, none of which ever ceases to hold (`LetGoStays`); `Shown`
carries this from the reading of the list to the wipe.

**Provisioning_proofs.** `Invariance` proves `IInv`, for any number of environments made one
after the other under one name. `DatabaseAnswers` is an argument about a queue. A delete
request queues the teardown of an environment before it removes the row, the next
environment is created after that, and its job is queued later still. `InOrder` says that
the queue keeps this order (what is handed out again goes to the front, where it was), and
`Teardowns` what follows: once an environment is wired, no teardown of an older one is left.
`Carries` says what the job at work has set so far, on which machine, with which password.
`Agreed` says who knows of a wiring: the row's is whole, a job at work while there is one is
of this environment and has its password, and what a run read before it minted may be
older but still works. `CredentialsStay` follows from `Agreed`: both writers replace the wiring as a whole,
each from its own reading, and the password is in every reading.

**Periphery_proofs.** `IInv` is the conjunction of one invariant per part, each proved of
the part's own steps. *Shells*: while a session is held, its deadline and every renewal
that may still move it lie within the window after the last keystroke and under the
ceiling, and whoever ends it finds the row open and nobody else's outcome on its way
(`ForgottenShellsEnd`). *Transfer*: a source that is through has told the stall detector,
and the ceiling is not reached while the transfer is pending (`OnlySilenceKills`).
*Attachments*: what is served, or will be by a confirmation that has seen the object, is
in the store unless somebody who removes it has yet to do the row; what was read of a row
covers its thumbnail; what the sweep removed stays removed (`RowsMatchTheStore`).
*Research*: drafts, published or on their way, are covered by messages of the agent, and a
reply that met no other request is still being written, or the document is the agent's and
whoever is at work has read it (`RepliesAwaited`). *Mobile*: a refresh presents the stored
token, a stored token is spent only when the answer was lost or is just being stored, and
a refusal speaks of what is stored, unless somebody signed in or out beside it
(`TokensPresentedOnce`). `NothingIsTakenBack` is proved of every step from the same
invariants: an outcome on a shell's row stays because whoever writes one finds it open.
*Agents*: `StoppedOnesAreGone` and `LastOneDecides` need to know what the worker is at.
`Asked` says that what is queued or executed was asked for, `JobFits` that the worker does
what its click asked and that the session is as asked when it comes to say so, `LastIsLast`
that the click enqueued last ends the queue and is carried out last, also when a job comes
back to the front. `HangsOn` carries a start through every step that does not answer it.

Only model-checked: the liveness properties `DeadClaimReleased`, `NeverParked`,
`EveryRunEnds`, `ProvisioningEnds`, `Settles`, `ComesToAnEnd` and `SaysTheTruth` (temporal
proofs under fairness and ENABLED are out of the prover's reach). Every invariant and every
action property of the runs is a theorem (`NoKnot` for at most one adder, as in its run). The
violated statements are refuted by their counterexamples. Loops (wouldCycle's walk,
markReady's walk) are modelled by the set they compute; that they compute it is not proved,
since the prover cannot do induction over data.

## 6. Plan

Done: `TaskProtocol`, `TaskBoard`, `TaskLifecycle`, `TaskDependencies`, `AutoProgress`,
`DeploymentRecord`, `Deployments`, `Provisioning`, `Accounts`, `Sessions`, and the seven
parts of `Periphery`, with their proofs.

Next, in this order:

1. `DispatchQueue`: the queue's predicate (dependencies, merge debt, throttles, budget,
   human lane) against claiming by id.
2. `AutoProgress`, second round: a new link resets the pull request columns; retried red
   runs. External database servers in `Provisioning`. The feed of research documents.

## 7. Not modelled

- *Data plane browser*: read queries over ssh, with no state of its own.
- *Notifications, API keys, example jobs*: single statements nothing waits for.
- *Web and end-to-end tests, the screens of the mobile app*: clients. Most of the
  repository's lines are theirs.
- *Databases on external servers, object storage of environments, environment variables,
  host names, provisioning of servers*.
- *The dispatch queue*, which filters what agents are offered; claiming by id asks for none
  of it again (`task.repository.ts:215`).
- *Passwords and the lock after failed logins*, mail, rendering, token minting, template
  provisioning of repositories.
- *Tenancy checks*: every query is scoped by organization; the task and environment
  models are of one.
