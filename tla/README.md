# NestAI: specifications and proofs

NestAI is a household coordinator: a NestJS API over Prisma/PostgreSQL
(`services/api`), a library of pure decisions (`packages/core`), providers for
language model, mail, messaging, calendar and OCR (`packages/adapters`), shared
types (`packages/contracts`), the database schema (`packages/db`) and a React
dashboard (`apps/web`). This directory holds TLA+ modules translated from that
source, the TLC configurations that check them, and proofs checked by TLAPS.

How the code runs decides how it is modelled:

* One Node process. A handler runs without interruption between two `await`s.
* Every database call is one awaited SQL statement, and **no service opens a
  transaction or makes an update conditional on the value it read**. So one
  statement is one atomic action, what a handler read earlier is a local of its
  request, and requests interleave between statements.
* `setInterval` (or a BullMQ worker) starts recurring jobs whether or not the
  previous run of the same job has ended.
* A throw, or the process stopping, ends a handler where it is; rows already
  written stay written. Locals are lost, nothing is retried by the server.

## 1. Inventory

| Component | State | Operations | Interacts with | Hard behaviour | What makes it correct |
|---|---|---|---|---|---|
| Tasks service (`modules/tasks`) | task rows: status, assignee, dueAt | create + route, assign, drop, claim, set status | members (reads, FK), escalations, core claim and routing | two-statement drop and claim, checks on stale copies | one holder per accepted claim; a dropped task stays on offer |
| Escalation service (`modules/escalation`) | escalation rows: createdAt, deadline, broadcastAt, claimedById, resolvedAt | broadcast, sweep of overrides | tasks, members, core | update by id of a row read earlier | a resolved event stays resolved; every event is broadcast or claimed |
| Escalation engine (`core/escalation`) | none (pure) | classifyUrgencyCascade, selectBackup, claim, reject, decideCriticalOverride | the two services and the timer | ties, thresholds | the best cleared adult; no override once claimed |
| Scheduler (`scheduler`) | repeat keys | start, stop; escalation timer, milestone firing, purge sweep, digest and Sunday gates | all rows of all households, job queue | overlapping runs, read-then-update lists, local time | nothing due is missed, nothing fires early; the jobs are on schedule |
| Job queues (`queue`) | handlers, timers; queues, workers, Redis | register, enqueue, repeat, removeRepeatable, close | scheduler | two drivers, runs in flight at close, schedules that outlive a process | each job once on schedule; no schedule after a stop; a failing run ends nothing |
| Ingestion (`modules/ingestion`, `core/privacy`) | RawMessage: raw text, scrubbed text, token map, media, status, purgeAfter | ingest, webhook; scrub, unscrub | tasks (create), events, LLM, members | failure half way, slow ingestion against the sweep | raw content is purged in time; PROCESSED means complete; masking is reversible and complete |
| Extraction (`core/extraction`) | none | normalization, de-duplication, thresholds | LLM provider | what a model may write | nothing lost or doubled |
| Availability (`modules/availability`) | AvailabilityBlock, Conflict | addBlocks, ingestScreenshot, detectAndStoreConflicts | core commute, purge sweep | partial loops, blocks that come and go | what is stored is what the blocks that were read held |
| Conflict radar, commute (`core/commute`) | none | filterByCommute, assignByRouteSynergy, detectConflicts | availability | scan of neighbours only | somebody double-booked is noticed |
| Wellbeing (`core/wellbeing`, `modules/wellbeing`) | WellnessGoal, WellnessWindow | setGoal, suggestWindows, balanceBattery | availability, tasks | intervals that nest and touch | windows lie in free time and in range |
| Seasonal (`core/seasonal`, `modules/seasonal`) | SeasonalProject, Milestone | create, list | scheduler | four dates around a goal, errors that are swallowed | all four or none, in order |
| Approvals, school (`modules/approvals`, `modules/school`) | Approval rows | create, decide; processDocument | tasks, members | overlapping decisions, partial creation | every gate of a document exists once; a gate moves by a decision on it |
| Notifications (`modules/notifications`) | Notification rows | buildDigest, sendDigest, household digests | mail provider, wellbeing | mail leaves before it is recorded | what is recorded was mailed; shares are shares of one whole |
| Members (`modules/members`) | member rows | create, update, remove | tasks, approvals by foreign key | removal under a running request | see tasks, gates |
| Routing engine (`core/routing`) | none | route | tasks | rule priority, ties | constraints met, strongest rule obeyed, order of rows irrelevant |
| Recurrence (`core/recurrence`) | none | next occurrences, maintenance chores | nobody in the API yet | months of unequal length, anchors at the edge | no date doubled or skipped |
| Dependencies (`core/dependencies`) | none | asset checks and gear audits of a seasonal project | nobody in the API yet | members of unknown age | each vehicle and growing child once |
| Tenancy, household, events (`tenant`, `modules/household`, `modules/events`) | rows of a household | guard, context, list, get, create, update, remove | all services | writes by id alone, bodies handed to the database as they came | no household sees or changes another's rows, unless a body says so |
| Dashboard (`apps/web`) | cached snapshot, mutations in flight | five optimistic mutations | API | rollback to an older snapshot, answers out of order | the cache converges to the server |
| Adapters, contracts, views, infra, demo | | I/O, declarations, rendering | | | |

The hazards of this code, each with its line and the properties that cover it or
the reason why none does, are in `PROJECT.json`.

## 2. Modules

| Module | What it is |
|---|---|
| `TaskLifecycle` | Tasks, escalations, the escalation timer, members leaving and failing statements: one action per statement |
| `ClaimLock` | The abstract promise of a claim: one lock per task, moved only by claims that were let in while it was open |
| `TaskLifecycleProofs` | Theorems for any number of overlapping requests and runs, the refinement of `ClaimLock` among them |
| `MessageRetention` | Inbound messages from arrival to purge, availability blocks, the hourly sweep, failures and restarts |
| `MessageRetentionProofs` | Theorems for any number of messages, blocks and overlapping ingestions |
| `CoreTime`, `Routing`, `BackupSelection`, `Commute`, `Wellbeing`, `Seasonal`, `Recurrence`, `Dependencies`, `Extraction`, `Scrubber` | The pure functions of `packages/core`, as operators, each with a definition of what an answer has to be |
| `CoreLibrary` | A call of any of them and its answer |
| `CoreTheorems` | Lemmas about what the operators are built from: sorted lists, sums, least and greatest elements, folds, counting |
| `EngineTheorems` | What load shares, the conflict radar and the search for free windows compute, for every input |
| `CoreLibraryProofs` | Theorems about the answers of the library |
| `JobScheduler` | Start, schedule, runs and stop of the recurring jobs, with both queue drivers |
| `JobSchedulerProofs` | Theorems for one process, any jobs, starts and crashes; types for any number of processes |
| `ApiCall` | What the services' calls share: statements that work or fail |
| `Milestones`, `LocalTime`, `SchoolDocuments`, `Digests`, `Planner`, `Tenancy` | One service of the API each |
| `Services` | The services side by side |
| `ServicesProofs` | Theorems about all of them |
| `Dashboard` | The web dashboard's cache, its fetch and its mutations, over the mock or the real client |
| `DashboardProofs` | Theorems for any number of mutations |
| `MC...` | The instances that TLC checks |

How they compose: `Services` extends the modules of the services, which share
`ApiCall`; `Milestones` uses `Seasonal`, `Planner` uses `Commute` and `Wellbeing`,
`Digests` uses `Wellbeing`, so that what the services store is computed by the
same operators that `CoreLibrary` checks. `TaskLifecycle` and `MessageRetention`
stand alone; routing, extraction and scrubbing appear there as choices wide
enough for every answer the operators can give.

A definition called `...Ahead`, `...Now`, `...Any` and the like, commented "a broken
form of the next definition", is used by nothing: put in the place of the next
one, it makes a property fail, which shows that the property looks at it
(`mutants` in `PROJECT.json`).

### TaskLifecycle

`task`, `esc` and `member` are the tables (`schema.prisma` 342-376, 568-586,
230-245). Only the columns the handlers decide on are kept. Escalations are
numbered by creation, so "newest" is the largest id. `req[r]` is a request in
flight: `pc` names its next statement, the other fields are its locals. `run[k]`
is a run of the escalation timer with the list of events it still has to stamp.
`now` counts minutes.

| Handler | Actions, in statement order |
|---|---|
| `create` 46-63, `routeAndAssign` 66-104 | `CreateTask` (insert), `RouteDecide` (reads and decision), `RouteWrite` (update) |
| `assign` 106-118 | `AssignCheck`, `AssignWrite` |
| `setStatus` 221-228 | `SetStatus` (the check can only fail for an absent task, and tasks are never deleted) |
| `drop` 124-150 | `DropTask` (release), `DropOpen` (open the escalation) |
| `claim` 156-219 | `ClaimCheck` (status, member), `ClaimFind` (newest open escalation and core `claim`), `ClaimResolve` (escalation), `ClaimLock` (task, answer ok:true); with no open escalation `ClaimFind` goes straight to `ClaimLock` |
| `broadcast` (`escalation.service.ts` 31-66) | `Broadcast` |
| `escalationTimer` (`scheduler.service.ts` 150-182) | `TimerRead`, one `TimerStamp` per aged event, `TimerEnd` |
| `remove`, `update` (`members.service.ts` 52-65) | `RemoveMember` with the SetNull cascade, `SetActive` |

Abstractions. The routing engine answers any active member or nobody. The
override decision of a run is taken for its whole list at the read; the rows it
decides on are the copies read there, so the answer is the same. Statements that
only shape the reply are left out. A request that fails its foreign key
(a member deleted between the check and the update) aborts: `ForeignKeyFails`
is not charged to the fault budget, because no fault is needed for it.

`lastWrite`, `told`, `severed` and `contested` are history: no handler reads them.
`told[t]` is the set of members answered ok:true since the last write of `t` that was not
a claim; `severed` holds the tasks whose drop or claim died between its two
writes; `contested` those for which two claims have been past their check at once.

### MessageRetention

`msg` and `block` are the tables (`schema.prisma` 286-301, 606-616), reduced to
whether a column holds raw content and to the times the sweep compares. `ingest[i]`
is a call of `ingest` in flight. `sweep` is the next statement of the purge
sweep and `since` the hours since its interval last fired or the process started.
`now` counts hours; `receivedAt` and `purgeAfter` may lie before 0 because callers
choose `receivedAt`.

| Handler | Actions, in statement order |
|---|---|
| `ingest` 36-121, `ingestWebhook` 127-137 | `IngestCheck` (`mentionsMinor` reads the dependents), `IngestStore` (scrub, insert), `IngestExtract` (the model answers), `IngestCreate` per draft or `IngestReject` on an unusable date, `IngestFinish` (PROCESSED) |
| `addBlocks` 37-57, `ingestScreenshot` 63-85 | `AddBlock`, one per block: the loop's inserts do not depend on each other |
| `purgeSweep` (`scheduler.service.ts` 132-144) | `SweepStart` (the interval fires), `SweepMessages`, `SweepBlocks` |
| failing statements, restarts | `IngestFails`, `SweepFails` (caught by the queue, next run an interval later), `Restart` (all handlers die, the interval starts anew) |
| members, time | `ChangeChild`, `Tick` |

Abstractions. A payload says whether it has words, words the scrubber masks, a
photo, and a child's name; what the scrubber's patterns match is not modelled.
`scrub` always writes `scrubbedText`, so it holds words exactly when the message
has any. Which drafts the model returns is a choice of how many, and of which one
(counted from the last) has a date that JavaScript or the database rejects. The
creation of a task is one step: what routing then does to it is in
`TaskLifecycle`. Blocks deleted with their member are left out.

`sent`, `drafts` and `made` are history: what arrived, what the model extracted,
what exists.

### The core library

A call names a function and its arguments; the reply is its answer, and the
library keeps nothing between calls. Each operator is translated from the
function of the same name:

| Module | Functions | What is left out |
|---|---|---|
| `CoreTime` | `time.ts`, `routing/age.ts`: addMinutes, diffMinutes, windowsOverlap, computeAge, clamp | formatting |
| `Routing` | `routing/engine.ts`: isEligible, ruleMatchesTask, scoreCandidate, route | rationale texts |
| `BackupSelection` | `escalation.ts`: cascade, cleared schedules, backup scores, claim, reject, override | rationale texts |
| `Commute` | `commute.ts`: filterByCommute, route synergy, assignByRouteSynergy, pair conflicts, detectConflicts | the trigonometry of distances, messages |
| `Wellbeing` | `wellbeing.ts`: computeGaps, findMicroWindows, computeLoadEquity, computeBalanceBattery | labels |
| `Seasonal` | `seasonal.ts`: opens rules, goal date, milestones, intent | templates, leap days |
| `Recurrence` | `recurrence.ts`: expandRecurrence, computeAnchor, buildRrule, generateMaintenanceTasks | the rrule library, modelled by what it documents |
| `Dependencies` | `dependencies.ts`: asset matching, gear audits, chain | titles |
| `Extraction` | `extractor.ts`: normalization, keys, de-duplication, thresholds | the prompt, the call of the model |
| `Scrubber` | `scrubber.ts`: rules in order, tokens, unscrub | which strings a pattern finds: a span carries the rules that find it |

Instants are numbers and a minute is `Minute` of them (60,000 milliseconds in the code), so
that time has a resolution below the minute: `AddMinutes` multiplies, `DiffMinutes` rounds down as
`diffMinutes` does. A difference of minutes "at most 20" is then a difference of less than 21.

A timeline's `leadDays` are among the inputs of `Seasonal` and are not looked at, as in the code.

### The job scheduler

`proc[p]` is a process: how far `onModuleInit` and `onModuleDestroy` have come and
the keys it keeps. The in-memory driver's schedule is `intervals` of a process
(gone with it); BullMQ's is `redis` (shared by all and outliving them) plus a worker per
process and job. `waiting` and `timeouts` are one-shot jobs, `runs` the runs in flight.

| Code | Actions |
|---|---|
| `onModuleInit` 44-52, `scheduleRepeatables` | `Boot`, one `ScheduleNext` per job, `Scheduled` (the keys are kept) |
| `onModuleDestroy` 54-66, `removeRepeatable`, `close` of both drivers | `Stop`, `RemoveNext`, `Removed`, `CloseWorker`, `CloseQueues`, `Closed`, `Exit` |
| intervals, timers, workers | `Fire`, `FireOnce`, `RunEnds`; `Enqueue` |
| a crash, Redis refusing, the optional package missing | `Crash`, the second disjunct of `RemoveNext` |

### The services

Each service has tables of its own, so a behaviour of `Services` is about one of
them (`topic`) and leaves the others alone; nothing would be learned from
interleaving them.

| Module | Code | Actions |
|---|---|---|
| `Milestones` | `seasonal.service.ts` create, `scheduler.service.ts` milestone job | `CreateProject`, `FindTimeline`, `StoreMilestones` (whose failure is swallowed); `ReadDue`, `MarkFired`; `TimePasses` |
| `LocalTime` | `scheduler.service.ts` digest and check-in gates | none: the ticks of a week and a day on either side, at every phase, are looked at together |
| `SchoolDocuments` | `school.service.ts` processDocument, `approvals.service.ts` decide, `members.service.ts` remove | `Upload`, `ResolveRequester`, `CreateTask`, `OpenGate`, `Answer`; `ReadGate`, `WriteDecision`; `RemoveHead` |
| `Digests` | `notifications.service.ts` | `StartSend`, `ReadItems`, `ReadShare`, `SendMail`, `RecordMail`; `StartHouse`, `BuildNext`; `TaskMoves` |
| `Planner` | `availability.service.ts`, `wellbeing.service.ts` | `AddBlock`, `PurgeBlock`, `SetGoal`; `RunRadar`, `StoreConflict`; `ReadGoals`, `Search`, `StoreWindow` |
| `Tenancy` | `tenant/`, events, members, household services | `Guard`, `List`, `Get`, `Create`, `Lookup`, `Write`, `UpdateHousehold`, `EndRequest` |

A zone of `LocalTime` is an offset before and an offset after one instant, which is what `Intl`
tells of an IANA zone over nine days: clocks put forward or back, by any number of
quarter hours, a day left out included. `midnight` is what `Intl` prints at that
hour, 0 or 24.

In `Tenancy` a row is an event or a member. `data()` stamps new rows and `assertOwned` guards
rows named by an id, but the body of an update goes to the database as it came, because no
pipe checks it: `Write` may give a member another household or id, `Create` may take the id
from the body, and `UpdateHousehold` may connect rows of other households. `handed` is
history: the ids that a body chose or whose household a body changed. Nested writes other than
connect, and a body that gives a household another id, are left out.

The radar is called without a threshold, so with `DefaultBuffer`, 15 minutes.

`Works` and `Fails` (`ApiCall`) say that a statement is done or throws; a throw is
charged to `MaxFailures`, except where the code needs no fault for it (a
requester or a row that is gone).

### The dashboard

`server` is one task as the server has it, `cache` what the views show, `fetch` the
query in flight, `mutations[m]` a mutation with the snapshot its patch was applied to.
`Press` (cancelQueries), `Patch` (onMutate), `Serve`, `RequestFails`, `RollBack` (onError) and
`Settle` (onSettled, invalidate) follow `lib/queries.ts`; `ServerAnswers`, `AnswerArrives`,
`FetchFails` and `Reconnect` are the fetch. In mode `mock` nothing is lost. Buttons are
those of the views. `alone` is history: nothing else was pressed or fetched
beside this mutation.

## 3. What is checked

### Passing runs

| Run | Instance | Properties |
|---|---|---|
| `task_concurrent` | 1 task, 2 members, 2 requests, 2 escalations, 1 failure, no timer | `TypeOK`, `DropIsCovered`, `LoneClaimIsExclusive`, `ResolvedIsFinal`, `ImplementsClaimLock` |
| `task_timer` | 1 request, 2 overlapping timer runs, clock 0..2, threshold 1 | `RunMissesNothing` |
| `task_liveness` | 1 request, 1 timer run, clock 0..2, 1 failure, fairness | `DropEventuallyOffered`, `BroadcastEventually` |
| `retention_messages` | 1 message, 1 ingestion, 1 block, `receivedAt` 3 hours ago, now or in 1 hour, up to 2 drafts, clock 0..7, retention 2, interval 2, 1 failure or restart | `TypeOK`, `RetentionBound`, `ProcessedIsComplete`, `BlockRetention` |
| `core_library` | every function on all combinations of up to a handful of inputs | `RoutingIsSound`, `EscalationIsSound`, `CommuteIsSound`, `WellbeingIsSound`, `MilestonesLeadUpToGoal`, `CadenceIsKept`, `ChainIsComplete`, `ExtractionKeepsTheBest`, `ScrubRestores` |
| `jobs` | 1 process, both drivers, 2 jobs, 2 runs of a job at once, 1 one-shot job, 1 crash or refusal | `TypeOK`, `RunningIsScheduled`, `StopLeavesNoSchedule`, `QueuedJobsRun`, `StopEnds` |
| `services` | per service 1 or 2 rows and 1 or 2 overlapping calls, 1 failing statement | `TypeOK`, `MilestonesFireInOrder`, `DigestsComeOnTime`, `GatesMatchFlags`, `DigestsAreTrue`, `RadarStoresWhatItSaw`, `WindowsFitTheBlocks`, `DueMilestonesFire`, `GateMovesByDecision`, `OthersChangeByBodiesOnly` |
| `dashboard` | 2 mutations in flight, 3 presses, 2 losses or reconnections, both clients | `TypeOK`, `QuietShowsServer`, `PromiseHolds`, `ComesToRest` |

Tasks:

* `DropIsCovered`: whatever overlaps, a task last written by a drop has an open
  escalation, or a drop about to open one, or a claim that resolved one and is
  about to lock it; the only exception is a handler that died between its two
  writes. This is what saves the unprotected drop/claim races from losing a
  task: the orders that go wrong leave an escalation too many, never one too few.
* `LoneClaimIsExclusive`: an accepted claim holds the task until something other than a
  claim writes it, whatever drops, assignments, departures and failures overlap it, with
  one exception: two claims of the same task past their check at once. `task_double_claim`
  shows that the exception is needed.
* `ResolvedIsFinal`: a resolved escalation stays resolved and keeps its claimant, with the same
  exception: only another claim holds a copy of it that may be stale.
* `ImplementsClaimLock`: also with overlapping claims, the holder by a claim is somebody who
  was let in while the task was not locked, and nothing else moves the lock but a
  placement, a drop, a status set by hand and a departure. Of several claims let in, the
  last to write has the task; a lock that admits one only is what the code does not have.
* `RunMissesNothing`: events claimed, stamped or opened by others while a timer
  run works through its list never make it skip an aged event.
* `DropEventuallyOffered`, `BroadcastEventually`: a drop whose handler survives opens
  its escalation, and an escalation is broadcast or claimed.

Messages and blocks:

* `RetentionBound`: the code promises no time at which raw content is gone; this
  is the one it keeps. Words and photo of a message that came with words live at
  most one interval past `purgeAfter` (past the insert, when they were due
  before it), and one interval more per failed statement and per restart, which
  sets the interval back. A slow ingestion that writes its message after the
  sweep has blanked it brings nothing back.
* `BlockRetention`: the same for blocks with a raw source; a Sunday check-in,
  which has no purge time, is never swept.
* `ProcessedIsComplete`: a message half ingested, for whatever reason, never
  says PROCESSED.

Core library, each an answer against a definition of what it should be:

* `RoutingIsSound`: whoever is assigned meets every hard constraint, age on the
  birthday included (a minimum age of 0 asks nothing but a known birth date), and
  somebody is assigned if anybody meets them. The strongest rule that reaches
  anybody is obeyed, provided that its boost of 1000 plus its priority outweighs the
  63 points the soft signals can add up to. The order of the rows does not
  matter unless the rule leaves a choice among several.
* `EscalationIsSound`: exactly the adults free for the whole window are candidates
  and nobody asked is worse than one who was not; in any order of claims and rejections
  the first claim is final and the override is due exactly while nobody has claimed and
  less than 21 minutes are left, at the millisecond on either side.
* `CommuteIsSound`: those left out of a pickup are exactly the inactive, those who may not
  drive when that is needed, and those whose commute and buffer do not fit into the whole
  minutes left; a driver whose route passes is chosen first; comparing neighbours
  only still notices that somebody is double-booked, if all commitments last
  some time every ripple reported is a double booking, and every squeeze lies between
  two commitments of one member, shorter than the buffer.
* `WellbeingIsSound`: if no block ends before it begins, the gaps are exactly the free
  time; suggestions are usable, shares add up but for rounding, and below a target of 2000
  windows (where rounding hides one) the battery is full exactly when the goals are met.
* `MilestonesLeadUpToGoal`: the stages come in order before the goal, and a goal
  that is given as a month and day lies in the coming year, on that day. When the timeline
  leads by some days the property leaves the day open, because the comments disagree
  (see Observations).
* `CadenceIsKept`: every template of a list is anchored within a year of the start; a
  monthly one, on a day that each month has, gets one chore per interval up to the end
  of the window or the cap, whatever other templates there are, and the list is by date.
  Templates repeat by days, by months, or by a DAILY or MONTHLY rule with an interval; other
  rules that `recurrence.ts` 116-119 would pass on to the library are not among the inputs.
* `ChainIsComplete`: each vehicle of a driving project and each child under the growth ceiling, or of
  unknown age, is checked once, a child above it is not; at the ceiling itself, where the
  comments and the code disagree, either will do.
* `ExtractionKeepsTheBest`, `ScrubRestores`: as their comments say.

Jobs:

* `RunningIsScheduled`: a started process has each job on schedule, once, although
  Redis keeps the entries of a process that crashed.
* `StopLeavesNoSchedule`, `StopEnds`: a stop that met no error leaves nothing on
  schedule, and a stop ends although it waits for every run in flight.
* `QueuedJobsRun`: a run that throws or takes long never ends the schedule, and a
  one-shot job is run.

Services:

* `MilestonesFireInOrder`: four milestones or none, none when no date is known, none
  early, none before those that lead up to it, with overlapping runs and a
  failure at any statement. `DueMilestonesFire`: what is due is marked in the end.
* `DigestsComeOnTime`: at every phase of the quarter-hour ticks, whenever the clocks show
  the chosen time a tick less than 15 minutes away counts the household. A day without a
  change of clocks has one or two ticks that count, a week one or two (on the local Saturday,
  Sunday or Monday, because the weekday is UTC's). A day on which the clocks are put forward
  over the chosen time may have none and one on which they are put back has up to four, and
  so has a check-in on a Sunday with a change: this is what the code does, and the property
  says no more.
* `GatesMatchFlags`, `GateMovesByDecision`: an answered upload has left one gate for
  each reason; a gate changes by a decision on that very gate.
* `DigestsAreTrue`: a record says what was mailed; shares told in one household
  build are shares of one whole if no task moved while it was built. If one did, each
  digest was computed from rows of its own, and nothing is claimed.
* `RadarStoresWhatItSaw`, `WindowsFitTheBlocks`: what is stored row by row fits the
  blocks that were read, however blocks and goals change meanwhile; a squeeze is
  stored only for less than the default 15 minutes between two blocks.
* `OthersChangeByBodiesOnly`: every answer and every change is of the request's own
  household, although update and remove write by id alone, except for rows whose id
  or household the body of some request chose, or that a body connects.

Dashboard:

* `QuietShowsServer`: with nothing in flight and no failed fetch the screen shows what
  the server has, whatever patches, rollbacks and cancelled fetches came before.
* `PromiseHolds`: an optimistic patch that is alone stays until answered (no earlier
  fetch undoes it) and a rollback leaves nothing of it.
* `ComesToRest`: once nothing is pressed or lost any more, the two agree for good.

### Runs that show a disagreement

Each checks one statement of a comment or a test and finds what the code does
instead; `PROJECT.json` quotes the lines.

| Run | What happens |
|---|---|
| `task_double_claim` | two overlapping claims are both answered ok:true; the second takes the task |
| `retention_originals` | the sweep leaves `tokenMap`, with the original values, in place |
| `tenancy_bodies` | an update of one household connects a row of another: `tenant-prisma.ts` says that no household can change another's rows, of its helpers this is true, of the bodies that services hand on it is not |
| `jobs_scale_in` | one of two instances on a Redis stops, and takes the recurring jobs of the other with it |

### Observations

Met while modelling, in the modules, and without a run that states them, because
no document of the repository says otherwise or because a property above
excepts them by name.

* A drop that dies between its two writes leaves the task DROPPED and on nobody's
  list; drop, drop, claim leaves the older escalation open, and it is broadcast
  and counted as an override.
* A claim that read an escalation before another claim resolved it overwrites its
  claimant; the routing that `create` started overwrites an accepted claim
  (`RouteWrite` after `ClaimLock`); a child added between the minor check and the
  insert has its photo stored.
* A photo without words is outside the sweep's filter; an event with an unusable
  date ends an ingestion half way; the sweep deletes whole blocks, also ones that
  have not ended.
* The radar compares neighbours only and so misses overlaps of blocks that are not
  neighbours (`commute.ts` 268 says "pairwise"); a repeated radar or search stores
  its rows again.
* From the API a commitment never needs a driver, so SOLE_DRIVER never comes up; the
  broadcast may select the member who dropped the task and asks for neither driver
  nor radius. A rule that forces a choice among several members picks the first in
  the order of the database.
* A matching rule "forces (and boosts) its target(s)" (`engine.ts` 163) by adding 1000 plus its
  priority to a score. Priorities are unbounded integers (`entities.ts` 298, `schema.prisma` 442),
  and from -937 downwards the boosted target can still lose to somebody with better
  soft scores; the rule is reported as matched all the same. The API has no
  endpoint that writes rules.
* "Within 20 minutes" (`escalation.ts` 298-299) is decided on whole minutes rounded down
  (`time.ts` 37-39): the override is due from almost 21 minutes before the start.
* `seasonal.ts` 50 and 61-62 call the goal the opening date offset by `leadDays`; 69-71 and the
  code take the opening date itself, and no code reads `leadDays`.
* The branch for gear that has to "fit the vehicle" cannot be reached; the growth ceiling
  is inclusive in the code, where the comments of `dependencies.ts` 174 and 180 say "below" and
  "under"; `dependsOnChildId` refers to a task in the schema and to a member in the core.
* A monthly rule that starts on day 29 to 31 skips months. An opens phrase
  for today, after midnight, is taken for next year. Milestones already past when a
  project is created all fire at the next run.
* `$1200` is not found by the FINANCIAL pattern, although `scrubber.ts` 42 names amounts;
  a raw text that contains something that looks like a token does not come back.
* With BullMQ, a SIGTERM during `onModuleInit` finds no keys and removes nothing.
* The digest lists every open task of a member, though its comment says "due within the
  horizon"; the digest and check-in jobs count households and send nothing; where
  `Intl` prints midnight as 24, a household that chose 00:xx is never matched
  (`midnight`). When the clocks are put forward over the chosen time the day's digest is
  left out; when they are put back up to four ticks count the household. A member's digest
  and shares are read anew for each member, so those of one household may tell of different moments.
* Bodies of requests are handed to the database without validation: the body of a member's
  update may name another household or id (`members.service.ts` 54-57), that of the
  household's own update may connect rows of others (`household.service.ts` 30-33).
* No endpoint claims a window, so the battery's completion stays 0 through the API.
* A document of a household without a head and without a requester gets a task that needs
  approval and no gate.
* The rollback of one mutation takes out the patches of others until the next fetch; a
  fetch on reconnecting can undo a patch on the screen for a moment; the real client
  calls endpoints that the API does not have; a DROPPED task is not offered by the quick
  actions.

### Bounds and why they are enough

*Tasks.* Handlers touch one task each and no statement relates two tasks, except
`RemoveMember`, which treats every task alike: one task shows every interleaving.
Two requests are what a race needs, two members what a wrong holder needs; two
escalations give an older and a newer open one. The clock runs to 2 with a
threshold of 1 minute, so an event can be younger than, exactly as old as, and
older than the threshold; the thresholds are constants (`BroadcastAfter`,
`DropWindow`, `OverrideWindow`; 10, 60 and 21 in the code: "at most 20" of minutes rounded
down). `RowLeft` stops new drops when the bounded escalation table is full, and keeps a row
for each drop in flight.
The runs with no timer fix the clock. Tasks, members and requests are symmetric in
`task_concurrent`, which checks invariants and what a step may do, in which they occur
alike, and no liveness.

*Retention.* An ingestion touches one message, its own, and
the sweep treats every row alike: one message, one slot and one block show every
order of the ingestion's statements and the sweep's, with the block due or not.
An interval of 2 hours makes "between two firings" a state of its own, a
retention of 2 ends between, at and after firings, and a clock to 7 reaches one
grace period beyond the longest one a single fault gives (2 + 2·2 < 7). The
code's 24 and 1 hours are instances of the theorems. Two assumptions are built
into `Tick`: the interval fires on time, and a sweep (two statements) ends
within the hour in which it starts. Ingestions may take any time. `IngestCheck`
waits for a free row, a bound of the model.

*Core library.* Every threshold is met exactly, missed by one and passed by one, ties are
possible everywhere, and inputs are given in every order that matters: up to three
of five members and two of five rules, one of them too weak to force, all lists of up to four candidates with all
sets of blocks, up to three commitments or busy blocks that nest, touch and are
equal, lists of up to three chore templates, four claims and rejections, three drafts of one title in two spellings,
texts of four spans. `DayLength` and `YearDays` are 2 and 10 here, so that every day of a
year and the turn of two years are looked at, and 1440 and 365 in `services`. A minute has
two instants here (`Minute`), so that differences have something to round down, and one in `services`,
where the theorems of the library stand for every number.

*Jobs.* Two jobs stand for five: the queue does not look at what they do. Two runs
at once are an overlap; one crash may come at any point and is followed by a new
start. *Services.* Two calls are what a race needs; `MaxFailures = 1` puts a failure at any
statement. Four instants lie before, between and after the stages of a goal. Four hours, four minutes,
three tick phases and two ways to print midnight include the edges of an hour and of a
day, in five zones: without a change, an hour forward and an hour back on the Sunday in
question, half an hour on a Saturday across midnight in UTC, and a day left out. Two availability
blocks out of five overlap, nest, or leave 15 minutes or five between them, so that a squeeze is
reported or not at the default of 15. Two ids, values, households and requests are what it takes
for a row to change hands between a lookup and a write;
`MaxMoves = 2` lets a task leave and come back. *Dashboard.* With three presses, two of them in
flight, a mutation can meet an earlier one, a later one or neither; two losses
break a mutation and its refetch.

Deadlock is checked in the task, retention and job runs, where something can always
happen. A call of the core library ends with its reply, in `services` every
call may have been answered and every bound used up, and the dashboard rests once
the presses are used up: there deadlock is not checked.

### Fairness

`FairSpec` of `TaskLifecycle` assumes that a started handler goes on (`Continue`, Node runs every
ready continuation), that the interval keeps firing and a run goes through its
list (`Timer`), and that time passes. Nobody has to send a request. `RunFails`
can end a timer run at most `MaxFaults` times; an unbounded number of failures
would starve any property of the timer.

`JobScheduler`: start and stop go on, runs settle (a handler that never answered
would make BullMQ's close wait for ever, so this is an assumption about the jobs),
and `Fire` and `FireOnce` are strongly fair. Weak fairness is not enough there:
a worker takes one job at a time, so while it runs neither can happen, and each
would be disabled again and again; the queue takes jobs in turn and an interval
fires by the clock, so neither is passed over for ever. Nobody has to start or stop a process.

`Services`: the milestone job runs every five minutes and a run that read goes on to
its update; nothing else is fair. `Dashboard`: the server answers and callbacks run; no
press, loss or reconnection has to happen.

## 4. What is proved

For all finite or infinite sets of tasks, members, requests and timer runs and
all bounds and thresholds, from the four named assumptions of `TaskLifecycle`
(`NoneIsNoRow`, `BoundsAreNumbers`, `WindowsAreNumbers`, `InputsAreLegal`):

| Theorem | Says |
|---|---|
| `TypeCorrect` | `Spec => []TypeOK` |
| `DropStaysCovered` | `Spec => []DropIsCovered` |
| `TimerMissesNothing` | `Spec => []RunMissesNothing` |
| `LoneClaimsAreExclusive` | `Spec => []LoneClaimIsExclusive` |
| `ResolvedStaysFinal` | `Spec => ResolvedIsFinal` |
| `HandlersImplementClaimLock` | `Spec => ImplementsClaimLock` |

The argument. `TypeOK` alone is not inductive: the escalation a claim holds and
the events a run lists must exist, and a request must name a task and a member.
`TypeInv` adds `LocalsOK` (`Names`: the locals a `pc` needs are there; `Holds`: a
claim about to resolve an escalation holds an existing one of its own task) and is
inductive. For `DropIsCovered` the coverage of each task is inductive together
with `TypeInv` and the fact that a request about to resolve or lock by an
escalation holds one of its own task; the case that matters is `ClaimResolve`,
which takes the escalation away and puts its own request in its place. For
`RunMissesNothing` a run's list is fixed when it reads, so the step that matters
is `TimerStamp`, which removes an event from the list only as it stamps it.

The last three speak of any number of requests in any order, the first two of them of tasks
for which no two claims were in flight at once (`contested` is the history of the others; `task_double_claim` shows
that they must be excepted). `LoneInv` adds to `TypeInv`, for such a task (`Lone`): one claim of it
is in flight at most; while one is, nobody has been told that they hold the task, because
the claim passed the check and only a claim tells; the escalation it is about to
resolve is still open, because only a claim resolves one; and whoever was told holds
the task as long as no other statement has written it. Drops, placements and timers may come
between any two statements of the claim: the cases that matter are a second claim that
passes its check, which makes the task contested, and `ClaimResolve`, which writes a copy
that may be stale only when another claim has been there.

The refinement needs no exception, because `ClaimLock` is the lock that the code has, one that
lets in any number of claims while the task is free: its holder is read off the assignee, its
phase off the status, and those let in are the claims between their check and their lock.
`WorkInv` says that a handler in flight works on a row that exists; `LockNext` has one
case per statement, most of which are stutters.

For `MessageRetention`, from `NoneIsNoMessage` and `HoursAreNumbers`, for all sets of
messages, blocks and ingestion slots and all retentions, intervals and bounds:

| Theorem | Says |
|---|---|
| `RetentionTypes` | `Spec => []TypeOK` |
| `ProcessedComplete` | `Spec => []ProcessedIsComplete` |
| `MessagesArePurged` | `Spec => []RetentionBound` |
| `BlocksArePurged` | `Spec => []BlockRetention` |

`TypeInv` is inductive only with the locals: an ingestion that has stored a message
owns it (`Owns`, `Apart`: no two share one) and knows how many drafts are left
(`Counts`). `RetentionBound` says nothing about when the next sweep comes, so it is
not inductive; `IInv` replaces "not overdue" by `InTime`: either `now - since`, the
last firing, is not after the due time plus the debt of one interval per fault, or
the sweep that will take the row has started. A tick moves `now` and `since`
together; a firing turns the first case into the second, a failure or restart the
second back into the first at the price of one interval. For that the sweep must
catch every row with content, hence `msg[m].text` in `MessagesInTime`: words, scrubbed
words and photo go together. That is what fails for a photo without words.

For the other modules:

| Module | From | Theorems |
|---|---|---|
| `JobSchedulerProofs` | `ConstantsAssumption`, one process | `StartedIsScheduled`: `[]RunningIsScheduled`; `StopsAreClean`: `StopLeavesNoSchedule` |
| | `ConstantsAssumption`, any number of processes | `QueueTyped`: `[]TypeOK` |
| `DashboardProofs` | `DashboardAssumption` | `DashboardTypes`: `[]TypeOK`; `QuietScreenIsTrue`: `[]QuietShowsServer`; `PromisesAreKept`: `[]PromiseHolds` |
| `ServicesProofs` | `MilestonesAssumption` | `MilestonesInOrder`: `[]MilestonesFireInOrder` |
| | `SchoolAssumption` | `GatesAreWhole`: `[]GatesMatchFlags`; `DecisionsMoveGates`: `GateMovesByDecision` |
| | no assumption | `OthersAreLeftAlone`: `OthersChangeByBodiesOnly` |
| | `LocalTimeAssumption` | `HouseholdsAreServed`: `[]DigestsComeOnTime` |
| | `DigestsAssumption` | `DigestsTellTheTruth`: `[]DigestsAreTrue` |
| | `PlannerAssumption` | `RadarStoresItsReport`: `[]RadarStoresWhatItSaw`; `StoredWindowsFit`: `[]WindowsFitTheBlocks` |
| | all of these and `FailureAssumption` | `ServicesTyped`: `[]TypeOK` |
| `CoreLibraryProofs` | `RouteCallsAreLegal` | `RoutingSound`: `[]RoutingIsSound` |
| | `BroadcastCallsAreLegal`, `OfferCallsAreLegal` | `EscalationSound`: `[]EscalationIsSound` |
| | `RadarCallsAreLegal`, `DropoffCallsAreLegal` | `CommuteSound`: `[]CommuteIsSound` |
| | `WindowCallsAreLegal`, `BatteryCallsAreLegal` | `WellbeingSound`: `[]WellbeingIsSound` |
| | `MilestoneCallsAreLegal`, `CalendarIsReal` | `MilestonesAreSound`: `[]MilestonesLeadUpToGoal` |
| | `ChoreCallsAreLegal` | `CadenceSound`: `[]CadenceIsKept` |
| | `ChainCallsAreLegal` | `ChecksAreComplete`: `[]ChainIsComplete` |
| | `ExtractCallsAreLegal` | `ExtractionSound`: `[]ExtractionKeepsTheBest` |
| | `ScrubCallsAreLegal` | `ScrubbingSound`: `[]ScrubRestores` |

All theorems of `CoreLibraryProofs` also use `NullIsMissing`: a missing value is no number
and no date; and those about time use `MinuteLasts`: a minute has at least one instant.

The assumptions say what types the schema and the contracts give to inputs, and no more
than that, with two exceptions:

* `ChoreCallsAreLegal` admits templates that repeat by days, by months, or by a DAILY or MONTHLY rule
  with an interval. `MaintenanceTemplate.rrule` may be any string that the RRULE library reads
  (`recurrence.ts` 71, 116-119). `CadenceSound` says nothing of lists that hold another rule.
* `LocalTimeAssumption` takes zones whose offsets lie between -12 and +14 hours and are whole
  quarters of an hour, and which change them at most once, on a quarter. `HouseholdsAreServed`
  looks at one week, in which real zones do not change twice; the zones of the tz database keep to
  quarters today, but did not always.

For the rest:
instants, priorities and confidences are numbers, a list is a sequence, an id names one
row (`@default(cuid())`), ages and commute minutes are not negative (`entities.ts` 137, 232,
294), templates have a month of the year, a day up to 31 and an interval that is not 0.
Confidences, priorities and durations may be anything, blocks may end before
they begin, and lists have any length; where a property needs more, the property says so.
TLC evaluates every assumption in the runs.

*Jobs.* `OneProcess` is a hypothesis of the theorems; `jobs_scale_in` shows that they are false
without it. `RunningIsScheduled` speaks of a started process only. `JobsInv` says for every
stage of a start which jobs are on schedule already and that each is there once,
for every stage of a stop which are off, and (`DriverApart`) that the in-memory driver
leaves Redis empty and BullMQ the intervals. What an earlier process left in Redis
is a set of entries of the same names and patterns, which is why a restart doubles
nothing.

*Dashboard.* The screen may be wrong while a mutation is in flight, and an answer that is on
its way may be old. `Synced` says when neither can be: with no mutation in flight,
an answer on its way is what the server has, and with none on its way, unless the last
fetch failed, so is the cache. It holds because a press gives up the fetch in flight and
every mutation ends by asking anew. For `PromiseHolds`, `AloneIsAlone` says that beside a mutation that is
alone there is no fetch and no other mutation.

*Milestones.* The property is not inductive: nothing keeps a run that overlaps another from
marking a late stage first. `ReadInOrder` says of what a run holds that everything that
leads up to it has fired or is held by the same run; `AllStages` and `OnePerStage` count
the rows, through a bijection with the four stages; `RowsCameLast` says that a project
whose call has not answered has no rows, so that new rows come before anything fires.

*School.* `NoneForgotten`: what the call has come past has its gate, as long as the requester
is there; `GateIsSound`: a gate is one the call has come past and its task was marked
before; `OnePerReason`. The steps that matter are `OpenGate` and `RemoveHead`, which takes the
requester's gates away and with them the claim that they exist.

*Tenancy.* `IdsNameOneRow`: no two rows share an id, and a fresh id names none; the first is the
primary key. `WritesOwnRow`: past its lookup, a request names an id that has been given
out and whose row is of its own household, unless a body had its hand in that row (`handed`).
That the database gives no id out twice (`@default(cuid())`) is what makes the write by
id alone harmless, and a body that chooses an id or moves a row is what undoes it.

*Local time.* A tick is the minute of the local day it falls on, under the offset of that
instant. The ticks of one hour under one offset are four minutes of equal remainder by 15, and those less
than a cadence away from the chosen minute are one or two of them, whatever the
remainder (`OneOrTwoServed`); the edges of the hour take away the second at most. Days under
one offset are this set moved by a bijection (`PartIsFew`, `SundayPartIsFew`). A day without a change is one such
set, any other lies in the union of two, hence at most four (`EveryDayServed`, `EveryWeekServed`). For an instant at which
the clocks show the chosen time (`ShownIsServed`) the tick is on the same side of the change, because the change
is on a quarter and the hour is whole.

*Digests.* `MailedBeforeRecord`: a call about to record holds what it mailed. `HouseReadOnce`: as long as
no task has moved since it began (`steady`), what a household build has told so far are the
shares of one table of tasks, so that `SharesMakeTheWhole` (the rounded shares of any number of members)
applies to it. Once a task has moved, nothing is claimed of the shares.

*Radar and windows.* `StoresReports`: what is stored and what is still to be stored are together the
report on the blocks that the call read; `ReportFinds` says of that report that it notices a double
booking and that its squeezes are shorter than the default 15 minutes. `SearchInv` says the same of windows, and that a
goal which the search read may be changed but keeps its number of minutes and its member.
What a report holds is in `EngineTheorems`.

*Types.* A row of `Services` is typed only while its locals are: the types follow from the invariants
above. In `JobScheduler` interval numbers and the loop over the kept keys need
an invariant of their own, `Numbered`: the number of the last interval stays below the job that
a start has come to, and a stop removes no more keys than a finished start kept.

*The core library.* Here the state says little and the operators everything: `AnswersFollow`
says that a reply is what the function returns for a legal call, and each theorem is then
about that function for every input. Its operators sort, sum, fold and scan, so that the
proofs are inductions over data. The library's induction theorems cannot be used (they take
an operator), and `CoreTheorems` therefore derives what is needed with a set in the place
of the predicate: induction over numbers and over finite subsets from the well-foundedness
of their orders; folds as functions that exist and are unique (`FoldExists`, `IterateExists`), so that a fold
over a list is followed step by step; sums; and sorting by rank (`SortedByFacts`).

* Time: adding and comparing minutes (`MinutesAdded`, `MinutesCompared`, `MinutesOrdered`): n whole minutes are
  left exactly when n minutes from now is not past the start, whatever is rounded away.
* Routing: members listed in another order are the same members renamed, and so are their
  ranks (`SortTransports`, `CandidatesMove`); the rules' order decides among equal priorities
  only, which by hypothesis reach one member (`SameRoute`).
* Radar: in a list sorted by start, if two commitments overlap then two neighbours do
  (`NeighboursSuffice`). Gaps: the scan keeps the gaps up to a cursor exact (`ScanStep`). Windows: each
  suggestion is taken out of the gaps left (`SuggestStep`). Escalation: the moves worked so
  far have one claimant, the first.
* Extraction: the drafts kept so far hold each key once, at its best (`KeepStep`). Scrubbing: an entry maps a
  token to one value and no value has two (`MaskStep`), so unscrubbing undoes every mask.
* Recurrence: months of 28 days and more put monthly dates in order (`MonthsRise`), so the dates
  up to the end of the window are the first ones (`FirstNumbers`), whatever else is listed with them.

The proofs found what the runs had not: two definitions whose cases overlapped, so that
their value was not determined (`KeepDraft` in `Extraction`, the confidence in `Routing`; both are
now disjoint), and rules of negative priority that do not force (see Observations).

Only model-checked is liveness, which the prover does not handle: `DropEventuallyOffered`,
`BroadcastEventually`, `QueuedJobsRun`, `StopEnds`, `DueMilestonesFire`, `ComesToRest`. Every invariant and
every action property of a passing run is proved.

The runs with `violation` are counterexamples, found by TLC.

## 5. Not modelled, and why

* Provider adapters (`packages/adapters`): calls to external services and fixtures that
  stand for them. Their failures are in the models of their callers. The webhook's
  parser takes the first message of a list; the rest never arrives.
* Views, fixtures, seed data, demo, deployment: no state of the program's own. What the
  views let one press is in `Dashboard`.
* The declarations of `packages/contracts`: taken as they are written. Only approvals and ingestion validate
  what they are sent (`ZodValidationPipe`); elsewhere a body reaches the service as it
  came. `Tenancy` takes bodies that way, the other modules take bodies with
  the fields that their types name. The types, defaults and `onDelete` rules of the schema are in the models that need them.
* Which strings a regular expression finds, and texts for people.
* The pausing of mutations while a browser is offline.
* `approvals.create` called directly, which opens a gate as `processDocument` does.
* Composition of `TaskLifecycle` with `MessageRetention`: `create` is called at the end of an
  ingestion and shares only the inserted task with it.

## 6. Running

Every run: `tlc -workers 2 -config <file>.cfg <module>` with the pairs of `runs` in
`PROJECT.json`, for example

    tlc -workers 2 -config TaskConcurrent.cfg MCTaskLifecycle
    tlc -workers 2 -config Services.cfg MCServices

and every proof: `tlapm <module>.tla` for the eight modules named `...Proofs` or `...Theorems`, for example

    tlapm TaskLifecycleProofs.tla
    tlapm ServicesProofs.tla
