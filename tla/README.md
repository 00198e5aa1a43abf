# Formal models of omadia's Conductor and background tasks

TLA+ modules, TLC configurations and TLAPS proofs for the parts of omadia that have to be right
while many things happen at once: the **Conductor**, the deterministic workflow engine of
`src/middleware/src/conductor` and `src/middleware/packages/conductor-core`, and the **background
tasks** of `src/middleware/packages/harness-orchestrator/src/tasks`. Paths below without a directory
are files of the first and, where tasks are spoken of, of the last.

1. [The system](#1-the-system)
2. [Modules](#2-modules)
3. [Runs](#3-runs)
4. [Fairness](#4-fairness)
5. [Where code and documentation disagree](#5-where-code-and-documentation-disagree)
6. [What is proved](#6-what-is-proved)
7. [What is not modelled](#7-what-is-not-modelled)
8. [Plan](#8-plan)

## 1. The system

omadia is an assistant platform: channels (Teams, Telegram, web) bring messages to an orchestrator
that runs LLM turns with tools; plugins extend it; a knowledge graph and a vault keep its data; the
Conductor runs operator-designed workflows over agents, actions and humans. The Conductor is where
durable state, several processes, human latency and failures meet, and its specification
(`src/specs/005-omadia-conductor/spec.md`) promises behaviour in terms one can check (FR-004, FR-017,
FR-018, FR-019, FR-024, SC-002, SC-003).

### Components

| component | state it keeps | operations | hard behaviour | what makes it correct |
|---|---|---|---|---|
| engine (`engine.ts`) | none | `nextStep`: postcondition, guards, fallback | ambiguous or missing edges | always a decision; a decision to go on names a step that exists |
| validation (`validate.ts`) | none | shape checks, reachability, search for unguarded cycles | depth-first search over every order | what it accepts cannot get the engine stuck on a missing edge or loop without a guard |
| run executor (`runExecutor.ts`) | none between calls; locals of each call | `startRun`, `driveFrom`, `resolveAwait`, `expireAwait`, `cancelRun`, `resumeRun`, `previewRun` | every call is a chain of awaits between which any other may run | the run is one walk through its graph, it ends, and an operator's cancel is honoured |
| run store (`runStore.ts`) | `conductor_runs`, `conductor_run_steps` | `create`, `acquireLease`, `recordStepAndAdvance`, `park`, `claimResumableRuns`, `requestCancel` | lease fencing, numbering of the trace | the trace is gapless, written by the owner of the lease only |
| await store (`awaitStore.ts`) | `conductor_awaits`, `conductor_await_responses` | `create`, `recordResponse`, `listResponses`, `cancelForRun`, `close`, reminder claims | response against deadline against cancel; double clicks | one of all racers wins; the decision rests on the holders' answers |
| await worker (`awaitWorker.ts`) | a `ticking` flag | expires due awaits, sends reminders | serial expiry, claim-then-send | every due await is expired |
| resume worker (`runResumeWorker.ts`) | `inFlight` | claims stale running runs and re-drives them | take-over of a live but slow driver | orphaned runs end; no recorded step runs again |
| role holders (`roleHolderSource.ts`, `roleHolderResolver.ts`) | registered sources | union of the sources' holders, `partial` | a source in outage; a holder who moves between two sources' answers | an incomplete list never completes a quorum or skips a step; whom one source lists throughout is never missed |
| outbound webhooks (`webhookDispatcher.ts`, `webhookRetryWorker.ts`, `webhookSubscriptionStore.ts`, hook and reconciliation in `index.ts`) | `conductor_webhook_subscriptions`, `conductor_webhook_deliveries` | create, claim, attempt, retry, reconcile, enable/disable | inline attempt against worker, several replicas, crash after the commit | at most one attempt at a time, bounded attempts, no end of a run is lost that one can still look back on |
| workflow store, routes (`workflowStore.ts`, `routes.ts`) | `conductor_workflows`, `conductor_workflow_versions` | publish, enable, disable, logical and hard delete | publish against publish, delete against a start | versions form a line, a removed workflow is final, a run keeps its version |
| schedules (`scheduleStore.ts`, `scheduleWorker.ts`) | `conductor_schedules` | `reconcile`, `listEnabled`, `claimRun`, `fire` | rows replaced while several replicas tick over old lists | a row wins a minute once, and only the active version's row does |
| event router (`eventRouter.ts`) | none | `emit`: fan out to the subscribed workflows | a start that throws, a version read after the list | every enabled subscriber is started |
| inbound webhooks (`webhookEndpointStore.ts`, `middleware/src/routes/conductorWebhooksInbound.ts`) | endpoints, `conductor_webhook_inbound_deliveries` | claim, rate limit, `setOutcome`, enable/disable | retried requests on several replicas, a handler that dies | a delivery starts a run once, within the limit, and is handled in the end |
| ephemeral workflows (`ephemeralRunService.ts`, `ephemeralStore.ts`, `ephemeralRunStateStore.ts`, `ephemeralReaper.ts`, hook in `index.ts`) | origin, TTL and `reaped_at` of a workflow, saved plugin state | create under a quota, undo, cancel, save state, dispose, reap, sweep | end of the run against TTL against creation | never taken away under a live run, nothing left behind |
| background tasks (`durableTaskStore.ts`, `longRunningTool.ts`, `taskResumeDriver.ts`, `taskReaper.ts`) | the task table | create, claim, heartbeat, park at a gate, answer, finish, reap | silent owners, zombies, late answers, replicas | one executor per task and input, one outcome, no task works for ever |

How they interact: triggers call `startRun`; the executor calls the engine for every decision and
writes through the run and await stores; a human step asks the role holders and parks the run on an
await; a response (`routes.ts`, channels) calls `resolveAwait`, the await worker calls `expireAwait`,
an operator calls `cancelRun`; the resume worker calls `resumeRun` for what a dead process left
running; whoever ends a run calls the terminal hook, which creates and attempts webhook deliveries,
and the retry worker repeats them, and disposes of an ephemeral workflow. Operators publish, toggle
and delete workflows; a publish replaces the schedule rows in its transaction, the schedule workers
of all replicas claim them minute by minute; an inbound webhook claims its delivery in the ledger
and then emits an event, which starts every subscribed workflow. All of them share the tables and
nothing else: there is no lock around a run, only the lease column `claimed_by` on which writes are
fenced. Background tasks are a world of their own with the same means: a detached runner or a resume
sweep claims a task, its executor asks a sub-agent or parks the task for a human, and a reaper fails
what has been silent.

Every hazard found while reading is listed, at its line, in `PROJECT.json`.

## 2. Modules

| module | models | composes |
|---|---|---|
| `ConductorEngine` | workflow graphs, `nextStep`, `validate` (pure) | |
| `UnguardedCycleSearch` | the three-colour search of `findUnguardedCycle`, call by call | `ConductorEngine` (whose `HasUnguardedCycle` is its reference definition) |
| `ConductorRuns` | one run and every call that may touch it | `ConductorEngine` |
| `RunLedger` | what a run promises: one walk through the graph that ends once | refined by `ConductorRuns` (`IsALedger`) |
| `QuorumAwait` | whose answers decide one human await | |
| `WebhookDelivery` | one webhook delivery under hooks, ticks and failures | |
| `ConductorPreview` | `previewRun`, and with it the engine on every small published graph | `ConductorEngine` |
| `ConductorTriggers` | one workflow slug: publish, status, delete, its cron schedule, events, `startRun` | |
| `InboundWebhook` | the delivery ledger of one endpoint and the handlers that race for it | |
| `EphemeralWorkflow` | generated workflows from creation to disposal, with their runs at step boundaries | |
| `BackgroundTasks` | the task table, its leases, executors, human gates and the reaper | |
| `ConductorRunsProofs` | what holds of a run under every event, or while some events stay away (answers, cancels, or crashes), and its refinement of `RunLedger` | `ConductorRuns` |
| `ConductorGraphProofs` | reachability, the cycle search and the dry walk on every finite graph | `UnguardedCycleSearch`, `ConductorPreview` |
| `QuorumAwaitProofs`, `WebhookDeliveryProofs`, `ConductorTriggersProofs`, `InboundWebhookProofs`, `EphemeralWorkflowProofs`, `BackgroundTasksProofs` | theorems about the module each is named after | that module |

The `MC...` modules give the constants their values: the graphs and symmetry. A definition whose name begins with `Bug` is a seeded defect (a dropped
guard, a missing fence, a wrong count); each property of each passing run is known to fail when the
definition below it is replaced by one of them, which is how we know that the property looks at
the code. No specification uses them.

### ConductorRuns and the code

The variables are the columns of the run's row (`status`, `current` for `current_step_id`, `context`,
`claimedBy` for `claimed_by`, `stale` for "`claimed_at` is older than `staleMs`", `cancelled` for
`cancel_requested_at`), the trace `log` (`conductor_run_steps`), the rows of `conductor_awaits`, the
outcomes told to `notifyRunEnded`, and one record of locals per asynchronous call in flight (a member
of `Proc`). An action is the code from one `await` of such a call to the next, with the one
statement or transaction it issues:

| code | actions |
|---|---|
| `startRun` | `StartRun`, then the drive |
| `driveFrom` | `Count`, then per step `HonourCancel` or `Enter`; `EffectSettles`/`EffectThrows`; `NoHolder`, `Open`, `Park`, `Recheck`; `Record`/`RecordRefused`; `Finalize` |
| `resolveAwait` | `Respond` (up to the quorum), `CloseResolved`, `Take`, `SettleResponse`, `Record`, the drive |
| `expireAwait` | `Expire`, `LoadExpired`, `Take`, `SettleExpiry`, `Record`, the drive |
| `cancelRun` | `Cancel`, and for a waiting run `Snapshot`, `Sweep`, `Seize`, `Tally`, `Record` |
| resume worker | `ClaimAndResume` or `ClaimAndSkip`, `Resume`, the drive |
| environment | `GoStale`, `Die` (a failed statement or a dead process) |

`recordStepAndAdvance` is one transaction whose insert fails on a taken sequence number and whose
update fails when the lease is not the caller's; `Refused` is the disjunction of both. A lease is a
fresh UUID per call, so the call itself stands for it. What a run's answers are, and which of them
complete the quorum, is abstracted to "some decision of the engine"; `QuorumAwait` is that part in
detail. `Ledger` at the end of the module is the refinement mapping: the run row is the walker of `RunLedger` (an
ended run is at no step, whatever `current_step_id` a failure left), the trace in the order of its numbers
the walk. Runs share no table row and only the resume worker's slots, so one run is modelled.

A resume worker does not drive a run twice at once, which it knows from the set `inFlight` of its own process
(`runResumeWorker.ts:34`, 84): the claim is then skipped (`ClaimAndSkip`). The worker of another replica has
an empty set and drives (`Free`, with the event `replicas`).

`Events` selects what the outside may do: `respond`, `deadline`, `cancel`, `resume`, `replicas`, `noHolder`,
`stall` (a live call outlasts `staleMs`) and `die`. Properties that some race breaks are checked
without the event that breaks them, and the counterexample with it is kept (sections 3 and 5).

### QuorumAwait and the code

`holds` is what each source knows, the local table and the directories; `rows` are the response rows;
`step` is the human step's quorum and strictness, any of
the four; `calm` remembers whether holders or sources changed since the await was opened, which
`LastAnswerCloses` sets aside (the code re-tests completeness only when somebody answers).
`call` are responses on their way through `resolveAwait`: `Respond` (458-459), `LookUpHolders`
(469-483), `RecordResponse` (485), `List` (509-546), `Close` (548). An answer is what `isApproved`
distinguishes: an explicit yes, an explicit no, anything else.

`resolveHolders` (`roleHolderSource.ts:188-194`) asks all sources at once and awaits each: there is no
snapshot across them. A lookup is therefore a record of who is still asked (`left`), the union so far
(`holders`) and whether somebody did not answer (`partial`), and every answer is an action of its own: `Open` for
the lookup of `openHumanAwait`, `LookUpHolders` for that of a response. Between two of them `Move` assigns the role
to a person in one source or takes it away. Three more fields are history: whom each source listed throughout
(`steady`), who held the role always, and who did at some moment (`always`, `ever`). What the code guarantees is
about `steady`: whom one source lists from the question to its answer is found, or the lookup is partial.
Somebody who changes sources meanwhile may be missed by both (`HeldIsSeen`, section 5).

### WebhookDelivery and the code

`row` is the delivery of one run to one subscription (unique by index). A call is a hook
(`List`, `Create`, `ClaimOne`, then the attempt) or a tick of some replica's retry worker (`Tick` with
the reconciliation query, `Restore`, `ClaimDue`, `Get`, then the attempt). `Attempt`, `Send`,
`RecordSuccess`, `RecordFailure`, `Exhaust` are the branches of `attempt` and `fail`. `due` abstracts
`next_attempt_at <= now()`; `crashes` counts the calls that died; a claim is assumed to outlast the attempt it was taken for (five minutes
against against ten seconds). `covered` is `ended_at >= enabled_since`, `recent` is `ended_at >= sinceIso`: the
reconciliation looks back 24 hours (`index.ts:344-346`), and `WindowPasses` at any time after the end. An end without
a row is then never restored, hence the premise `WindowHolds` of `EndIsReported`: the window does not pass
before the row is there. Without it the end may be lost (`EndIsNeverLost`, section 5).

### ConductorTriggers and the code

`wf`, `versions` and `schedules` are the rows of one slug; a schedule row is named by the version it
was inserted with, since `reconcileOnClient` deletes and inserts all of them. `lock` are the publish
transactions that have upserted the workflow row and not committed: `Upsert` (with the version number,
read under the lock) and `Commit`. `removeLogical` is one statement of which both halves matter,
`Snapshot` (the schedule rows its CTE sees) and `Remove` (the row lock it waits for). `StartTick`
reads the minute, `ListEnabled` the list, `Claim` is `claimRun` with the fire it does not await; the
fire, an event (`List`, `Match`) and a manual run all go through `GetWorkflow` and `CreateRun`, which
are `startRun` up to the insert. `minute` is the database clock.

### InboundWebhook and the code

`ledger` has the outcome of each delivery id, its age in windows of `IN_FLIGHT_CLAIM_STALE_MS` (fresh,
stale, and old, which is out of the rate window), and whether it was taken over. `Claim` is the
store's transaction with its four answers (taken over, duplicate, limited, new). The transaction is
one action because it holds an advisory lock of the endpoint. `Emit`, `Start`, `StartFails` are the router's
loop, `Finish` is `setOutcome` and the answer; with nobody subscribed, `Emit` goes there at once.

### EphemeralWorkflow and the code

`wf[w].phase` is the row (live, reaped, deleted), `run[w]` its run with the cancel flag. A call goes
through `Count`, `Publish`, `Read`, `Insert`; when `startRun` throws, through `Cancel`, `Purge`, `Mark`,
`Delete`, which are also what the hook and the reaper do from where they come in. `Purge` and `Mark` are
the snapshot and the commit of `markReaped`, `SaveRunState` and `Saved` those of `upsertOwned`, whose share
lock `Mark` waits for. `Boundary` and `Wake` are the driver's look at the cancel flag between steps,
before a park and on an await's end; `ConductorRuns` has the detail.

### BackgroundTasks and the code

A row has its status, lease (`claimed_by`), `silent` (no heartbeat within the window), the answer it was
last given, the gate it is parked at, and a history count of claims on the present input (`drives`). `Claim` is
`claimNextPending` for a runner (with its hint) or a resume sweep, `Touch` a heartbeat or event, `Park`
`requireInput`, `Ask` and `Answered` the sub-agent's question and its recorded phase, `Finish`
`finishOrReportLoss`. `Fenced` is the condition of `fencedUpdate`. `Silence` is the passage of the window,
`Reap` both halves of `reapOrphans`. A sweep awaits its executor, hence one task per driver at a time.

## 3. Runs

Graphs of the `Runs...` configurations (`MCConductorRuns`): *Gate* (a human step with a deadline, then
an action), *Escalate* (a human step with a deadline, then a human sign-off without one), *Consent*
(human with a deadline, human without, action), *Redraft* (an agent that may repeat itself under a
guard, then an action), *Revise* (agent, human with a deadline, timer, and back under a guard), *Misread*
(Gate with a deadline that the parser does not read).

| configuration | checks | on | states |
|---|---|---|---|
| `RunsAllFaults` | `TypeOK`, `RunningHasStep`, `LogIsGapless`, `OwnerAtFrontier`, `NoAwaitAppliedTwice` | Escalate, 2 calls, every event, several replicas | 1,130,000 |
| `RunsEnd` | `OneOutcome`, `NeverDoubleDriven`, `WaitingIsWakeable`, `OpenAwaitIsCurrent`; `RunEnds`, `CancelHonoured` under fairness | Consent, 2 calls, every event but crashes and stalls, several replicas | 12,000 |
| `RunsAgents` | `AttemptsCounted`; `CrashesSurvived` under fairness | Redraft, 3 calls, crashes, stalls, take-overs by one replica, cancels | 111,000 |
| `RunsAnswered` | `ResultsKept`, refinement of `RunLedger` | Revise, 3 calls, every event but cancels, stalls and take-overs | 117,000 |
| `Quorum` | `DecidedByTheHolders`, `NotSkippedWhileHeld`, `LastAnswerCloses`, `AuditIsFrozen` | 2 people, 2 sources, 2 answers in flight, 2 moves, outages, deadline, either quorum | 3,969,000 |
| `Webhook` | `OneAttemptAtATime`, `PostsBounded`, `SettledIsFinal`; `EndIsReported` under fairness | 3 calls, 3 attempts, 1 crash, toggles, the look-back window | 384,000 |
| `UnguardedCycleSearch` | the search answers right and returns | every graph of 3 steps | 444,000 |
| `PreviewPublished` | the engine never misses an edge of a published graph; loops are guarded | every graph of 2 steps | 7,100 |
| `Triggers` | `MinuteIsWonOnce`, `SchedulesFollowTheGraph`, `OnlyTheCurrentScheduleFires` | 2 replicas, 2 calls, 3 requests, 2 runs, 2 minutes, every event | 2,001,000 |
| `Inbound` | `StartedOnce`, `RateIsBounded`; `PostedIsHandled` under fairness | 2 deliveries, 2 calls, 2 workflows, limit 1, 1 fault, toggles | 70,000 |
| `Tasks` | `NeverReDriven`, `OutcomeIsFinal`; `Driven`, `EndsOrParks` under fairness | a runner, a driver, 2 tasks, 2 gates, 1 death, slow executors | 87,000 |
| `Ephemeral` | `LeftAlone`; `StateIsSwept`, `ExpiredEnds` under fairness | 2 workflows, a creation, a disposal, quota 1, 2 faults | 168,000 |

What each run shows, in a sentence, is in `PROJECT.json` (`about`), and for each of its properties a
seeded defect that the run catches. `CHECK_DEADLOCK FALSE` is set because a run that has ended, an await
that was closed, a settled delivery and a table whose bound is used up really do stop.

Further configurations that pass, of the same modules:

| configuration | checks | on | states |
|---|---|---|---|
| `QuorumAgain` | `LastAnswerCloses`, `AuditIsFrozen` | as `Quorum`, people who answer again, no moves | 471,000 |
| `TriggersHistory` | `TypeOK`, `VersionsAreALine`, `HistoryIsKept`, `RemovedIsFinal` | as `Triggers` | 2,001,000 |
| `InboundOutcome` | `TypeOK`, `OneHandler`, `OutcomeIsFinal` | as `Inbound`, with symmetry | 39,000 |
| `TasksOwners` | `TypeOK`, `ExecutedAlone`, `LastAnswerSeen` | as `Tasks`, 2 drivers | 741,000 |
| `EphemeralBurst` | `TypeOK`, `LeftAlone`, `QuotaWithinBurst` | 3 workflows, 2 creations at once, 1 fault | 2,589,000 |

`TypeOK` of `QuorumAwait`, `WebhookDelivery` and `UnguardedCycleSearch`, `ReportIsACycle` of the latter, `IsALedger`
with the constants of `RunsAgents`, `AttemptsCounted` there with the event `replicas` (as a safety run with symmetry,
1,025,000 states) and `Disposed` with those of `Ephemeral` hold as well; each is checked by adding it
to the configuration.

A property that some race or crash breaks is checked without the event that breaks it, and the
counterexample with that event is kept (section 5): `WaitingIsWakeable` holds without crashes (`CrashStrands`),
`NeverDoubleDriven` too (`DrivenTwice`), `AttemptsCounted` without an answer that overtakes the park
(`AttemptLost`), `OneOutcome` when the last step is not a human's (as `CancelUndone`), `Driven` when the
drivers come round within a window (`TaskStarved`), `ExpiredEnds` when awaits are answered or expire
(`EphemeralStranded`).

**Bounds.** `Proc` has two or three calls: a race needs a winner, a loser and, for a take-over, the
owner it is taken from; a call that ends becomes free again, so more calls than that occur in a
behaviour, only not at once. The liveness run `RunsEnd` has two (with three its 785,000 states satisfy
the invariants as well, but the liveness check outlasts five minutes). `MaxAwaits` bounds the await rows
of a run: the second is the one a resumed drive opens after a crash, the third what follows it.
`MaxSteps` is the program's own `MAX_STEPS` (1000) at 3 to 7: in the graphs without a loop it is at
least as large as any walk that obeys the ledger, and in those with a loop it lets the loop close
twice, and the budget run out. Three steps of a graph distinguish the step before, at and after an
await. Two sources suffice for a partial lookup and for somebody who moves from one to the other, which takes two
moves (`MaxMoves`), two people for a first and a last answer. People who answer again are in a configuration of their own
(`QuorumAgain`, without moves): with everything at once the state space outlasts five minutes.
`MaxAttempts` 3 has a first, a middle and a last attempt; `MaxCrashes` bounds the calls that die, and
`posts` saturates one above what `PostsBounded` allows.

In `Triggers`, three requests are a publish, a second one and a delete, or a delete between two publishes;
two minutes are one that matches and one that does not, or a tick that begins in one and claims in
the other. In `Inbound`, a limit of 1 makes the second delivery wait for the window; `started` saturates one
above what `StartedOnce` allows. In `Tasks`, two gates distinguish an answer from the one before it, two tasks a
driver that is busy from one that is idle, and `drives` saturates one above what `NeverReDriven` allows. In
`Ephemeral`, with a quota of 1 the second workflow is made when the run of the first has ended and
its disposal is still going on; two faults are a disposal that dies and the retry that fails.
Symmetry (of calls, people, replicas, deliveries, workflows) is used in runs without fairness only.

## 4. Fairness

`ConductorRuns!Fairness` is weak fairness of four things, each of which the code schedules:
every call in flight goes on (`Continue`: the event loop runs a continuation that is ready, and a
step's effect settles or throws, as the effects are bounded by time-outs); a due await is expired
(`awaitWorker.ts` polls on an interval); a stale run is claimed (`runResumeWorker.ts` polls on an
interval); time passes (`GoStale`). No fairness is assumed of people or operators: nobody has to
respond or to cancel. `CancelsStop` excludes an operator who cancels for ever (each cancel of a
waiting run seizes the lease from the one before); `FaultsStop` excludes a process that crashes, or
stalls past `staleMs`, for ever. A step that could be both a crash and a call giving up counts as the
latter.

`WebhookDelivery!FairSpec` adds strong fairness of `Tick`: a replica's calls come and go, and a tick
is enabled again and again but not continuously. Crashes are bounded there, hence no premise.

The other fair specifications assume the same of their parts. `InboundWebhook`: handlers go on (weak);
the sender keeps posting its deliveries, which it can again and again but
only while a handler is free (strong), and time passes (strong). `BackgroundTasks`: an executor's calls
return, the sweep comes round (`taskResumeDriver.ts` polls), a window of silence passes over who is
silent, and the reaper ticks. Nobody has to answer a gate. `EphemeralWorkflow`: calls and disposals go on,
runs reach step boundaries, awaits are answered or expire, statements commit, the TTL passes, the reaper
and its sweep tick. Faults are bounded there. `ConductorTriggers` states safety only.

## 5. Where code and documentation disagree

Each of these configurations ends in a counterexample: the property is what a comment or a document
says, the model what the code does.

The run and its awaits:

* `CancelUndone` (`CancelledIsFinal`): a response that won its await before an operator's cancel finalizes
  takes the lease afterwards and moves the cancelled run on (`runExecutor.ts:552`). Writes are fenced on the
  lease, not on the status (`runStore.ts:209-213`); `runStore.ts:31-33` calls the cancel flag "the load-bearing
  backstop for every cancel race".
* `CrashStrands` (`WaitingIsWakeable`): closing an await and recording the step are two commits
  (`runExecutor.ts:548` and 556). A crash in between leaves a `waiting` run without an open await; neither worker
  ever looks at it. FR-004: "a waiting run MUST survive a process restart and resume".
* `DeadlineMisread` (`RunEnds`): `validate` tests a human deadline for presence (`validate.ts:196-208`),
  `openHumanAwait` parses it (705); "2 days" publishes and never fires. `duration.ts:1-3` of conductor-core
  names this very drift as what the shared parser prevents.
* `CancelAtBudget` (`CancelHonoured`): a run that used up `MAX_STEPS` leaves the loop (`runExecutor.ts:222`)
  still `running`, is claimed for ever, and never reads its cancel flag, although `runExecutor.ts:407-408`
  says that "its driver honours it at the next step boundary".
* `DrivenTwice` (`NeverDoubleDriven`): the lease fences writes; the effect a superseded drive is at still
  runs, although `runExecutor.ts:198-199` says that "the run is never double-driven".
* `AttemptLost` (`AttemptsCounted`): an await can be answered between `create` (709) and `park` (721); the
  answer writes back a context without the step's attempt, which `runExecutor.ts:731-732` calls the
  "deterministic loop budget for guarded cycles".
* `StepDecidedTwice` (`DecidedOnce`): a crash between `create` and `park`, and an answer that comes in as the
  run is taken over, leave a second open await for a step that was decided (`runExecutor.ts:707-708`: "a
  crash-and-resume between create and park never doubles the await").

Outbound webhooks:

* `WebhookCancelLost` (`EndIsReported`): reconciliation restores completed and failed runs, not cancelled ones
  (`webhookSubscriptionStore.ts:324` against `index.ts:434-436`).

Triggers:

* `RemovedScheduled` (`RemovedIsUnscheduled`): `removeLogical` sees the schedule rows of its start and then waits
  for the row lock of a publish, whose new schedule row stays enabled (`workflowStore.ts:291-293` says that the
  removal disables them). No run comes of it: a removed workflow is disabled, and its status can no longer be set.
* `CronTwice` (`OccurrenceFiresOnce`): the minute a tick matches is read in the process, the one it claims in
  the database later (`scheduleWorker.ts:51`); a replica that is slow by a minute fires the occurrence
  again (`scheduleWorker.ts:10-12`: "Per-minute exactly-once is enforced in the DB").

Inbound webhooks:

* `InboundLost` (`AcceptedIsHandled`): a handler that dies leaves its claim, and a retry within 30 seconds is
  answered 200 as a duplicate; a sender that trusts it stops (`webhookEndpointStore.ts:48-53`).

Background tasks:

* `TaskStarved` (`Driven`): the sweep awaits each executor (`taskResumeDriver.ts:77-80`), so that an answered
  task may wait longer than the silence window, and is reaped before it was driven.

Ephemeral workflows:

* `EphemeralStranded` (`ExpiredEnds`): the reaper flags a waiting run and no more, and an await without a
  deadline that nobody answers keeps it (`ephemeralStore.ts:82-85`: "a 'waiting' run cancels immediately").

Variants of listed configurations, with their properties or `Events` changed as said, end in counterexamples too:

* `QuorumAgain` with `AuditMatchesDecision`: a second answer between `listResponses` and `close` changes the
  row the decision was read from (`awaitStore.ts:210-211`: it "must not rewrite the audit row the decision
  was based on").
* `Quorum` with `HeldIsSeen`: the local table answers that nobody holds the role, a person is assigned there and
  then removed from the directory, and the directory answers that nobody does: the step is skipped, or a quorum "all"
  completed, although that person held the role at every instant. The list counts as complete
  (`runExecutor.ts:691-695`: "'no holders' may only trigger the fallback when we actually KNOW there are none").
* `PreviewPublished` with `LoopsAreGuarded`: a guard on a fallback edge satisfies the cycle check
  (`validate.ts:49`), and the engine never evaluates it (`types.ts:106-109` of conductor-core: an unguarded
  cycle "stays a validation error").
* `Webhook` with `Events = {"vault"}`, no crash and `ExhaustedMeansTried`: one failed vault read ends a delivery
  (`webhookDispatcher.ts:79-84` against `webhookRetryWorker.ts:7-9`).
* `Inbound` with `Events = {}` and `NoSubscribersIsTrue`: when every start throws, the router logs it
  (`eventRouter.ts:61-63`) and the ledger says that there was no subscriber.
* `Tasks` with `Events = {"slow"}` and `AnswerSurvives`: an executor whose lease was lost while the sub-agent worked
  throws at `setPhase('answered')`, and what it was answered is neither recorded nor reported
  (`longRunningTool.ts:176-180`, 199-200).
* `Tasks` with `Events = {"late"}` and `AnswersItsGate`: `provideInput` names the task, not the gate; an answer to
  an earlier gate that comes late is taken for the present one.
* `Ephemeral` with `Events = {"tight"}`, no fault and `ExpiredEnds`: with a TTL shorter than the start of the run, the
  workflow is reaped before the run exists, and the run is never told.

So do, without contradicting a line of the documentation but for the first: `Ephemeral` with
`Events = {"orphan"}` breaks `LeftAlone` and
`ExpiredEnds` (an insert that committed and did not answer, and a cancel request that failed too, against
`ephemeralRunService.ts:395-399`); `Inbound` with `Events = {"slow"}` breaks `StartedOnce` (a handler that
outlasts its claim is taken over); `EphemeralBurst` with `QuotaHolds` (the quota is read before the run exists);
`Triggers` with `CronRunsACronVersion` (the fire reads the workflow again, and a version published meanwhile may have
no cron) or `RemovedIsQuiet` (a run started while its workflow is deleted); `Webhook` with `EndIsNeverLost` (a process
that is down for the 24 hours of the look-back window).

## 6. What is proved

Eight modules hold theorems. Each is of the specification of its module, for every value of the constants: any
published graph, any number of calls, replicas, people, deliveries and workflows, any bounds and, unless a
hypothesis says otherwise, any `Events`. The only facts about constants they use are the named `ASSUME`s of the module, which TLC
evaluates in every run of it. The invariants below are seldom inductive as the runs state them; each
strengthening was checked by TLC, as an invariant on the graphs and bounds of section 3, before it was proved.

### A run under every event: `ConductorRunsProofs`, `Inv1` to `Inv4`

| theorem | property | configuration |
|---|---|---|
| `TypeCorrect` | `TypeOK` | `RunsAllFaults` |
| `ARunningRunHasAStep` | `RunningHasStep` | `RunsAllFaults` |
| `TraceIsGapless` | `LogIsGapless` | `RunsAllFaults` |
| `OwnerIsAtTheFrontier` | `OwnerAtFrontier` | `RunsAllFaults` |
| `AnAwaitIsAppliedOnce` | `NoAwaitAppliedTwice` | `RunsAllFaults` |

They rest on `GraphAssumption` (the graph passed `validate`, which is what publishing requires), `NoStepAssumption`
and `NoProcAssumption` (null is not a step, an unclaimed run not a call), and the bounds.
The argument goes up four levels.

* `Inv1` is `TypeOK`, `RunningHasStep` and that every step a call works on, or owes a write about,
  exists. It needs `DecisionResolves`: on a published graph the engine advances to steps that exist. The
  type invariant alone does not survive `Record`, which copies the write of a call into the row.
* `Inv2` adds that the log is numbered `0 .. n-1` and that no call's number is beyond the end of the
  log. A call counts the rows and writes later; others may write in between. The number is then
  taken and the insert is refused, so the only number that can be written is the next one.
* `Inv3` adds, for the call that holds the lease, where it is: at the step the row points at, with the
  next number, while the row is running. A call that lost the lease may be anywhere; the fence of
  `Record` and `Park` keeps it from the row. Taking the lease is unconditional, and the proof shows that
  each place that takes it either counts afterwards or goes through `Resume`.
* `Inv4` adds that an await that is still open was applied by nobody, that at most one call has won
  a closed one, and that no recorded row acts on it while a call is about to. `close` is the only way
  into the winning states, and it demands that the await is open.

### A run while some events stay away: `ConductorRunsProofs`, `Inv5` to `Inv10`

| theorem | property | configuration | hypothesis |
|---|---|---|---|
| `AWaitingRunIsWoken` | `WaitingIsWakeable` | `RunsEnd` | no call dies |
| `NoAttemptIsLost` | `AttemptsCounted` | `RunsAgents` | no responses, no deadlines |
| `EffectsRunOneAtATime` | `NeverDoubleDriven` | `RunsEnd` | `Quiet` |
| `AnOpenAwaitIsCurrent` | `OpenAwaitIsCurrent` | `RunsEnd` | `Quiet` |
| `ResultsAreKept` | `ResultsKept` | `RunsAnswered` | `Quiet`, no cancel |
| `OneOutcomeIsTold` | `OneOutcome` | `RunsEnd` | `Quiet`, no cancel |
| `ARunIsAWalk` | `IsALedger` | `RunsAnswered` | `Quiet`, no cancel |
| `TakeoversKeepResults` | `ResultsKept` | `RunsAnswered` | `Unanswered` |
| `TakeoversTellOneOutcome` | `OneOutcome` | `RunsEnd` | `Unanswered` |
| `ACancelIsFinal` | `CancelledIsFinal` (action) | | `Unanswered` |
| `TakeoversFollowTheWalk` | `IsALedger` | `RunsAnswered` | `Uncontested` |
| `AStepIsDecidedOnce` | `DecidedOnce` | | `Uncontested`, or `Quiet` and no cancel; a graph without loops |

`Quiet` is: no resume worker, or no call that dies or outlasts `staleMs`. `Unanswered` is: no responses and no
deadlines; every other event is allowed, so these are the theorems about crashes, take-overs and cancels in any
mix. `Uncontested` adds to it that nobody cancels, or that the graph has only agent and action steps: the runs that
`RunsAgents` explores. They are event sets, not assumptions on the environment's luck: with `Events` restricted
that way every interleaving of what is left is covered.

Without them the code does break the property (section 5): `CrashStrands`, `AttemptLost`, `DrivenTwice`,
`StepDecidedTwice`, `CancelUndone`. `RunsEnd` allows cancels where `OneOutcomeIsTold` does
not: that run's graph ends in an action, and the theorem is about every graph.
`AStepIsDecidedOnce` takes a graph to be without loops when its steps have a rank that every transition raises
(`Ascends`).

* `Inv5` says what calls owe: a pending write follows an edge of the graph or ends the run, and rows are told
  apart by their numbers. It holds under every event and is what the others read off a `Record`.
* `Inv6` strengthens `WaitingIsWakeable` by who may still come: a call that closed the await of a waiting run
  cannot be stopped by anything but death, because it takes the lease after it closed, and whoever takes the lease
  from it is itself about to write.
* `Inv7` relates four counts (the trace, the row's context, the owner's context, and what it is about to
  write). A superseded drive may carry too small a count; it is fenced out, so only the owner's matters.
* `Inv8` says that the calls take turns (`Serial`): while a call drives the run no await is open and none is being
  applied, whoever applies one is alone, an open await is the only one, and what a call carries of
  the context is what the row has. The exception is the window between `Open` and `Park`, in which an answer may
  overtake the drive; `Guarded` says that the lease is then not stale, so that nobody resumes the run under
  both of them. A cancel ends all of this (`~cancelled => Serial`), but no new effect starts once it was
  requested, hence `NeverDoubleDriven` survives it.
* `AfterCancels` is what a cancel leaves of `Serial`. No drive enters a step any more, so either nothing is open and
  nothing opens again (`NothingOpens`, which is stable), or the run was cancelled at an open await or just before
  opening one, and that one is the last (`LastAwait`). Up to its closing nobody can move the run away from its step:
  whoever could record something has lost the lease, the finalizing cancel sweeps before it seizes the lease, and
  while a drive is about to open the await the run is not waiting, so no such cancel is under way. TLC checked it
  on Escalate, Consent and Revise with two and three calls, with crashes and without a resume worker, and the other
  way round.
* `Inv9` says what the owner may write (`Timely`): the step of a run that is running, with all its results; or the
  operator's cancel, of a run that is running, waits or was cancelled already, with exactly its results. Whoever
  takes the lease over reads the row before it drives, and once the run waits nobody but cancels can
  write to it, so what a canceller has read is still what the row holds. What the superseded calls carry does not
  matter: they are fenced out.
* `Inv10` adds that a run which can be cancelled never waits, so that no two cancels race to finalize it: each would
  add a row to a trace that has ended.

`ARunIsAWalk` and `TakeoversFollowTheWalk` are the refinement, under two sets of events: initial states map to
initial states (`LedgerAtFirst`), and every step to a step or a stutter (`StepsOfTheLedger`). Only `StartRun`, the
owner's `Park` and `Record` move the ledger. `Record` is an `Advance` or `End` if it is about the step the run is at,
which is what the two differ in (`WhoRecords` from `Serial`, `TheOwnerRecords` from `Timely`); it follows an
edge (`Inv5`), and that the walk grows by one step at its end is `TrailsGrow`, from the gapless numbering.
`AStepIsDecidedOnce` needs the same of `Record` and nothing else of the two: what is recorded lies below the step
the run is at (`Climbing`).

### Graphs of any size: `ConductorGraphProofs`

| theorem | property | configuration |
|---|---|---|
| `SearchIsRight` | `AnswerIsRight` of `UnguardedCycleSearch` | `UnguardedCycleSearch` |
| `ReportsACycle` | `ReportIsACycle` | |
| `TypeCorrect` | `TypeOK` of `UnguardedCycleSearch` | |
| `PublishedWalkIsComplete` | `PublishedIsComplete` of `ConductorPreview` | `PreviewPublished` |
| `PlainLoopsStayGuarded` | `PlainLoopsAreGuarded` of `ConductorPreview` | `PreviewPublished` |
| `ReachableIsReached` | (`computeReachable` finds what can be reached, and no more) | |

The runs try the graphs of two or three steps; these are about all finite ones (`GraphsAssumption`: a graph is a
JSON document). Four lemmas carry them.

* `Induction`: a set with 0 and the successor of each of its numbers is `Nat`. The library states induction with an
  operator for the property, which no installed prover can instantiate; with the set of the numbers that
  have the property it can be cited. It comes from the least number principle (`LeastElement`), and this from
  the well-foundedness of `<`.
* `ReachFromIs`: the rounds of the recursive function exist, so `ReachFrom` is the last of them.
* `ReachFromIsLeast` and `ReachFromIsClosed`: from y, as many rounds as there are steps give the least set that
  has y and that no edge leaves. A round that is not yet closed adds a step, and there are no more than that many.
* `CycleIs`: hence a graph has an unguarded cycle exactly when an unguarded edge e leads back to where it starts, that
  is when every closed set with `e[2]` has `e[1]`. The proofs need no paths after this.

`SearchInv` is that the gray steps are those of the open calls, once each, joined by edges; that what a call has
visited is black or is the call above it; and `BlackIsClear`, the reason why nobody need look at a black step again:
the black steps are closed, and no edge out of one leads back to it. When dfs retreats from a step its
successors are all black and it is not, so the set of the steps that were black before is the witness.
If the search returns with nothing, every step with an unguarded edge is black, and `CycleIs` says that there is no
cycle. If it reports one, a closed walk stays in every closed set it enters (`WalksClose`).

`PreviewInv` adds to `PublishedIsComplete` that the walk ends where it fails and, for `PlainLoopsAreGuarded`, that the
steps entered since a guard last held lead to the present one. A move over an edge without a guard back to one of them
would then close an unguarded cycle, which `validate` has excluded. That is where a guarded fallback
edge breaks it: the engine follows it unasked and the check does not count it.

### The other components

| module | theorem | property | configuration | hypothesis |
|---|---|---|---|---|
| `QuorumAwaitProofs` | `TypeCorrect` | `TypeOK` | | |
| | `DecidedRightly` | `DecidedByTheHolders` | `Quorum` | |
| | `NeverSkippedByAnOutage` | `NotSkippedWhileHeld` | `Quorum` | |
| | `NeverStaysOpen` | `LastAnswerCloses` | `Quorum` | |
| | `AuditStays` | `AuditIsFrozen` (action) | `Quorum` | |
| `WebhookDeliveryProofs` | `TypeCorrect` | `TypeOK` | | |
| | `AttemptsAreSerial` | `OneAttemptAtATime` | `Webhook` | |
| | `CalledAtMostMaxAttempts` | `PostsBounded` | `Webhook` | |
| | `SettledStays` | `SettledIsFinal` (action) | `Webhook` | |
| `ConductorTriggersProofs` | `MinuteIsWonByOne` | `MinuteIsWonOnce` | `Triggers` | |
| | `ScheduleIsTheGraphs` | `SchedulesFollowTheGraph` | `Triggers` | |
| | `TheCurrentScheduleFires` | `OnlyTheCurrentScheduleFires` (action) | `Triggers` | |
| | `VersionsStayALine` | `VersionsAreALine` | `TriggersHistory` | |
| | `RunsKeepTheirVersion` | `HistoryIsKept` | `TriggersHistory` | |
| | `RemovedStays` | `RemovedIsFinal` (action) | `TriggersHistory` | |
| `InboundWebhookProofs` | `TypeCorrect` | `TypeOK` | `InboundOutcome` | |
| | `RateHolds` | `RateIsBounded` | `Inbound` | |
| | `StartsOnce` | `StartedOnce` | `Inbound` | no slow handler |
| | `OneHandlesIt` | `OneHandler` | `InboundOutcome` | no slow handler |
| | `OutcomeStays` | `OutcomeIsFinal` (action) | `InboundOutcome` | no slow handler |
| `EphemeralWorkflowProofs` | `TypeCorrect` | `TypeOK` | `EphemeralBurst` | |
| | `StartsAreLeftAlone` | `LeftAlone` | `Ephemeral` | neither `tight` nor `orphan` |
| | `BurstsAreBounded` | `QuotaWithinBurst` | `EphemeralBurst` | |
| `BackgroundTasksProofs` | `TypeCorrect` | `TypeOK` | `TasksOwners` | |
| | `ExecutedByOne` | `ExecutedAlone` | `TasksOwners` | |
| | `ClaimedOnce` | `NeverReDriven` | `Tasks` | |
| | `OwnerSawTheLastAnswer` | `LastAnswerSeen` | `TasksOwners` | |
| | `OutcomeStays` | `OutcomeIsFinal` (action) | `Tasks` | |

* **Quorum.** A lookup sees no instant, so `IInv` brackets it (`Seeing`): it found nobody who did not hold the role at some
  moment since it began, and unless it is partial everybody whom a source that answered lists to this day. When all have
  answered, that is what a decision and a skip rest on (`Saw`). `Current` says the same exactly, for as long as nothing
  moves (`SawIsCurrent`); it is what `LastAnswerCloses` needs. `SomebodyCloses` is the strengthening of
  `LastAnswerCloses`: if every holder's answer is recorded and the await is open, a response is between
  `RecordResponse` and `Close` that will find it complete.
* **Webhook.** `ClaimIsHeld`: who works on the delivery found it due and took that from it, so it is pending, not
  due, and at the attempts the call counted. Everything follows: nobody else can claim it, what it
  settles was not settled, and its POST is the one the row does not count yet (`PostsAreCounted`).
* **Triggers.** `LockOK`: whoever is between the upsert and the commit of a publish is alone there and carries the number
  after the last. A schedule row has the identity of its version and so is never inserted again under one that
  has fired; a row that is there has been claimed in every minute it fired for (`FiresOK`, `FiresDiffer`).
* **Inbound.** Who handles a delivery holds a claim on it that is fresh, as long as no handler is slow, so
  nobody takes it over (`HandledIsFresh`); until something fails, a claim without outcome has its handler
  (`NothingIsAbandoned`), and what a handler has still to start was not started (`WhatIsLeftWasNotStarted`). `StartedOnce` speaks
  of deliveries nothing failed for; the hypothesis excludes a handler that outlasts its claim, with which the
  property fails (section 5). `RateIsBounded` needs none of it.
* **Ephemeral.** `Undisturbed`: whoever starts a workflow is alone with it until its TTL, and a disposal that is past the cancel has
  nothing left to take away. The hypothesis excludes what section 5 shows to break it. `Burst` counts the runs and
  the creates that have read the quota together: their sum stays below the quota plus the number of calls.
* **Background tasks.** A state with a claimable row that was driven satisfies `NeverReDriven` and does not keep it.
  `IInv` adds that a claimable row has not been driven on its present input (`SoundRow`), and that an execution that has not
  parked is on a row that is leased to it or over (`SoundExec`). The second makes a claim safe: a
  claimable row has no lease, so nobody is at work on it. The reaper fails a row and leaves the lease on it, so a zombie's writes are
  refused by the status that `Fenced` asks for and not by the lease (`ReapKeeps`).

The proofs share their form. A lemma says once what a statement on one row or a step of one call must respect; each
action has a step, or a lemma, that applies it; the theorems combine the levels.

**Only model-checked.** Liveness and everything under fairness (`RunEnds`, `CancelHonoured`, `CrashesSurvived`,
`EndIsReported`, `PostedIsHandled`, `Driven`, `EndsOrParks`, `ExpiredEnds`, `StateIsSwept`, `Terminates`): fairness and
`ENABLED` are out of the prover's reach. `TypeOK` of
`ConductorTriggers`, whose bounds on versions and runs belong to the model; its types are part of `IInv`
(`VarsOK`). There are no RECURSIVE operators.

## 7. What is not modelled

Within the Conductor: reminders (nothing but the message depends on them); drafts and the filters of triggers
(data); the predicates' language (opaque: any outcome), prompts, transcripts, `say`, templates and the builder
(text and LLM output); actual step effects (external: they settle or throw at any time); secrets, signatures and
the management of webhook endpoints and subscriptions; the attachments of ephemeral workflows. Dry runs of
`startRun` differ in `is_dry_run` only: they are not resumed and not announced. `ConductorTriggers` has one cron
expression, `ConductorRuns` one run: rows of different workflows and runs share no guard.

Of the background tasks: event lines and phases, the owner of a task, the opt-in expiry of parked tasks, and the
in-memory store, which has the same guards in one process.

Outside: orchestrator turns, tool dispatch and privacy masking (their control flow is driven by model
output), the registry's reload, routines and the plugin job scheduler (one process, timers), plugin runtime,
channels, knowledge graph, embeddings, vault and LLM adapters (integration code around external systems),
updater, web UI and desktop shell. They are most of the repository's lines, and little of them is a protocol.
`PROJECT.json` lists them with the reason.

## 8. Plan

Done, in this order: the engine and validation; one run and its calls with the refinement of
`RunLedger`; quorum; webhook delivery; preview; the theorems of the run; triggers; inbound webhooks;
background tasks with their theorems; ephemeral workflows; the theorems of all of these, and those of the
run under restricted events with the refinement of `RunLedger` for every graph; the cycle search and the
dry walk on graphs of every size.

Next, by importance:

1. The updater sidecar (`sidecars/updater/src/updateJob.mjs`): an update with rollback, a crash between any two
   calls to the Docker API.
2. Reminders, should something come to depend on them.
