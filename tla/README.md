# Formal verification of maintainer-cockpit

TLA+ modules, TLC configurations and TLAPS proofs about maintainer-cockpit, a Go
service that mirrors the open pull requests of a set of repositories into SQLite,
collects evidence about them and their authors, and asks a model to analyse and
group them.  The source under `src/` is the reference: each definition is
translated from it, and `PROJECT.json` names the lines each one stands for.

    tlc -workers 2 -config refresh_safety.cfg MCRefreshGeneration
    tlc -workers 2 -config diff_safety.cfg MCDiffAnalysis
    tlc -workers 2 -config author_evidence.cfg MCAuthorEvidence
    tlc -workers 2 -config correlation.cfg MCSupervision
    tlc -workers 2 -config personal.cfg MCPersonal
    tlc -workers 2 -config routing.cfg MCRouting
    tlapm RefreshGeneration_proofs.tla
    tlapm DiffAnalysis_proofs.tla
    tlapm AuthorEvidence_proofs.tla
    tlapm Supervision_proofs.tla
    tlapm Personal_proofs.tla
    tlapm Routing_proofs.tla

## The system

One process (`cmd/maintainer-cockpit/serve.go`) owns one SQLite database with a
single connection (`SetMaxOpenConns(1)`), so every `Store` method that opens a
transaction is atomic, and everything else can happen between two of them.  The
command line tools (`refresh`, `analyze`, `correlate`, ...) open the same database
from other processes.  Five supervised workers poll their tables; a configuration
reload cancels and replaces them; an error of one of them ends the process.

| Component | State | Operations | What makes it correct |
|---|---|---|---|
| Repository refresh (`refresh/scheduler.go`, `storage/refresh_generation.go`) | `refresh_jobs`, one active row per repository; `refresh_generations` with items; `pull_requests`, `collection_pull_requests`, `repository_refreshes` | enqueue, force, tick, claim, discover, hydrate a batch, progress, publish, retry, fail, recover | the staged generation stays consistent with its job, with the last discovery and with what is shown; no request is lost; removals wait for a whole snapshot; each job ends |
| Supervision and reload (`serve.go`, `application.go`) | five managers with a context each, the loaded configuration | start, stop, replace, reload, exit | what runs is what the tables say; nothing but a reload ends the process |
| Diff evidence (`storage/diff.go`, `evidenceworker`) | `pull_request_diff_jobs`, evidence per head | enqueue, supersede, claim, complete | evidence belongs to its head; the current head always gets its own |
| Analysis (`storage/analysis.go`, `analysisworker`) | `analysis_jobs`, results with their inputs | enqueue, force, claim, record, requeue, complete, recover | a result is of the head it is shown for; no job is stuck |
| Author evidence (`storage/author_evidence.go`, `storage/periodic.go`, `evidenceworker`, `contribution`) | jobs per author and repository, jobs per author, one pace for the public queue | enqueue, fair claim, complete, defer, cancel, recover, judge | no kind of work starves, the pace is kept, what is shown as pending is being collected, nobody with a history is called new |
| Correlation (`storage/correlation.go`, `correlationworker`, `correlation`) | `correlation_jobs`, `correlation_state`, groups | enqueue, claim after refreshes, ask in chunks, record against a revision, follow up | groups are of one answer about what is shown; they catch up with it |
| Cron schedules (`periodic`, `storage/periodic.go`) | `schedule_dispatches`, entries with their next time | bootstrap, match, dispatch, forget | a schedule is dispatched once when it is new and at each match |
| GitHub client and router (`githubapp`) | installation tokens under a mutex, profiles in order, wait budget | call, cache, evict, wait, fall back | a stale token is not held against a profile; waits are bounded |
| Auth (`auth`, `storage/auth.go`) | flows, sessions, audit | start, consume, expire, delete | a flow is consumed once; what is deleted stays deleted |
| Important and hidden marks | one row per mark | mark, unmark, snooze, purge | a mark lives as long as the membership it is about |
| Progress (`storage/progress.go`, `githubapp`) | events, review threads, a checkpoint per repository | collect since the checkpoint, stage, record | no activity falls between two collections |
| Quality | none | pure functions | thresholds and boundaries |
| Configuration, HTTP, queries, UI, telemetry, schema | none of their own | | not modelled, see below |

How they interact.  A cron match or a request inserts a refresh job, or coalesces
onto the active one.  The scheduler claims the job for one bounded unit of work at
a time and requeues it; a generation of staged items carries the work from unit to
unit.  Batches and the final snapshot write the pull requests; the snapshot
enqueues diff jobs, a finished diff enqueues analyses, correlation waits until the
refreshes of its collection are done.  The evidence worker serves diffs, authors'
contributions and authors' public activity from three queues in turn.  Scheduler
and evidence worker call GitHub through one router whose clients they share.  A
reload rewrites the configuration tables in one transaction, then replaces the
workers one after the other.  A maintainer's browser reads all of this and writes
private marks, which publications and reloads remove again.

The hard behaviours: a request or a tick that arrives at any point of any unit, a
worker that acts on what it read at the start of the unit, a process that stops
between two of the transactions of a unit, reloads under a running worker and under
another reload, retries against cutoffs, coalescing, which turns a late request
into a promise someone else must keep, handlers that authorize in one statement and
write in the next, and time that goes on while calls wait.

`PROJECT.json` lists the hazards at the lines where they bite.

## Modules

    RefreshGeneration      <- MCRefreshGeneration, RefreshGeneration_proofs
    DiffAnalysis           <- MCDiffAnalysis, DiffAnalysis_proofs
    AuthorEvidence         <- MCAuthorEvidence, AuthorEvidence_proofs
    PublishedGroups        <- Correlation (refines it) <- Supervision <- MCSupervision, Supervision_proofs
    Accounts, Progress     <- Personal <- MCPersonal, Personal_proofs
    Routing                <- MCRouting, Routing_proofs

In all of them one action is one `Store` transaction, one statement, or one answer
of GitHub or a provider.  Each `MC` module gives the constants values and pays for
the events that the modelled component does not cause from a budget.  The operators
that no definition uses (`RecoveredNot`, `ForgottenPacing`, ...) are faulty variants
of the one after or before them: each property is checked to fail with one of them.

### RefreshGeneration (the core)

The refresh of one repository, with everything that runs beside it.

| Model | Code |
|---|---|
| `job`, `gen`, `aged` | the active `refresh_jobs` row, its `refresh_generations` row with items, age of `discovered_at` over 24 hours |
| `pub`, `row`, `health` | `collection_pull_requests`, `pull_requests`, `repository_refreshes` |
| `link`, `targets` | `collection_repositories` with `collections.active`; the discovery plan of the running client |
| `pc`, `claimed`, `loaded`, `members`, `payloads`, `delay` | the worker: the next transaction or GitHub call of `process` / `processPhased` and the variables it goes on with |
| `caller` | a caller of `EnqueueRefreshWithForce`, which is three statements and no transaction |
| `open`, `head` | GitHub |
| `forceOwed`, `tickOwed`, `narrowed` | history only: what was promised, and whether a reload took the repository out of a collection. No guard of the system reads them |

Granularity: one action per transaction and one per return of a GitHub call.  The
worker's program counter names the step that comes next, so requests, ticks,
reloads, changes on GitHub and a stop interleave with every pair of steps.  A
GitHub call takes effect when it returns.  `StopWorker` loses the worker's
variables and keeps the tables; `StartWorker` builds a client for the
configuration of that moment and runs `RecoverRefreshJobs`.  `StorageError` has a
disjunct for each check of the store that can fail; the process then exits and is
started again.

Abstractions.  A pull request's content is a version number, its payload that
version with the cache outcome.  The cache is the stored row, because the worker
is the only writer of it: a hit is a payload with the version of the row.  The
strategy of a collection is the set of pull requests it selects.  Times are: due
or a number of minutes to wait, and older than 24 hours or not.  Left out: route
attempts (`persistPhaseAttempts`), cache counters and `last_forced`, texts of
failures, the content of progress, files and context of a pull request, the diff
jobs the snapshot enqueues, retained analyses of closed pull requests, the
choice among the due jobs of several repositories with the concurrency of two,
and the 15 minutes a job may take (a timeout is one more retryable failure).
A worker that is canceled while it fails may report the error or not; here both
are `StopWorker`, since either way it stops and is started again.

### MCRefreshGeneration

Bounds the events that the worker does not cause by one budget per kind (ticks,
forced requests, stops, reloads, changes, failures) and adds an outage: GitHub
answers no more, each call fails with a retryable failure.  The properties with
leads-to are here, because they mention the outage.

### RefreshGeneration_proofs

Theorems about the refresh, for every set of pull requests and collections.

### DiffAnalysis

What follows the publication of one pull request: the evidence worker collects
the diff of its head, and a completed collection releases an analysis in every
collection that shows the pull request and names a provider.

| Model | Code |
|---|---|
| `row`, `pub` | `pull_requests.head_sha` (`NoHead` without a row), `collection_pull_requests` |
| `evidence`, `content` | `pull_request_diff_evidence.completeness` per head; the head whose files `pull_request_diff_sources` holds |
| `diff`, `job` | the active `pull_request_diff_jobs` row of each head, the active `analysis_jobs` row of each collection |
| `attempt` | `analysis_attempt_state` and `analysis_results` of each collection, with the head and completeness of the input they were built from |
| `link`, `provider` | `collection_repositories` with `collections.active`, `collections.model_provider` |
| `collecting`, `slot` | `evidenceworker.Worker.Run` and the work items of a `RunOnce` |
| `worker` | `analysisworker.Worker`: program counter of `RunOnce` and `process`, and the claimed job |
| `refresh` | what the refresh hydrated for this pull request; reduced to hydration, batch, snapshot, failure |
| `replacing` | the workers that a reload has still to replace |
| `ghHead` | GitHub |
| `seen`, `returned` | history only: the heads GitHub had, and those it was moved back to |
| `owed` | history only: a forced request that reached a queued row and was not served yet |

Granularity is that of `RefreshGeneration`: one action per transaction and per
answer of GitHub or a provider.  `RunOnce` claims for all its items before one of
them starts and waits for all of them, so `ClaimPullRequestDiff` fills the slots
in order while none has begun, `BeginRound` starts them and they interleave from
there.  Collecting is three calls: verify the head, list the files, verify again.
A call may fail at any of them; since the calls that were answered leave nothing
behind, failing at the first stands for failing later.

Tables cascade: a snapshot or a reload that removes the membership deletes the
analysis job and attempt, a close deletes the diff jobs and evidence as well.  A
worker goes on with a row that is gone (`owns` is then false) and its updates by
id match nothing.  `Reload` is the transaction of `SyncCollections`; `StopEvidence`
and `StopAnalysis` follow it in any order and leave rows running until
`StartEvidence` and `StartAnalysis` recover them.  `Restart` loses what both
workers held and runs `SyncCollections` with the configuration as it was.

Abstractions.  The empty head, which needs no diff, is left out.  `complete` and
`partial` evidence are both usable.  The input revision of an analysis is the
head and the completeness it was built from; everything else in the input may
have changed, so a provider call is possible whatever is cached.  A provider
answer is a recorded result or a retryable failure, after all fallbacks.  Left
out: the order of claims among pull requests, the fair choice between diffs and
author evidence (see `AuthorEvidence`), route attempts, retained payloads.

### MCDiffAnalysis

Bounds pushes, closes, abandoned refreshes, reloads, restarts, reanalyze requests
and storage errors by kind and by a total, and holds the leads-to properties and
the fairness.

### DiffAnalysis_proofs

Theorems about the two queues, for every set of heads and collections and every
concurrency.

### AuthorEvidence

Evidence about the authors of open pull requests, the worker that collects it next
to the diffs, and the judgement shown from it.

| Model | Code |
|---|---|
| `enabled`, `openBy` | collections with a contribution block; authors with an open pull request in a repository |
| `counts`, `profile` | `author_repository_contributions` with its status; `authors.ancillary_status` |
| `contribution`, `public` | the active `contribution_evidence_jobs` and `ancillary_author_jobs` rows |
| `nextAttempt` | `ancillary_queue.next_attempt_at`, the pace of the one public queue |
| `diffs` | how many diff jobs are queued and running; `DiffAnalysis` has what they do |
| `phase`, `queueNext`, `items` | `evidenceworker.Worker`: claiming or waiting, the kind to try first, the round |
| `CompleteContext`, `Level` | `GetAuthorContext` and `contribution.Evaluate` |
| `started`, `quota`, `behind`, `passed`, `canceled` | history only |

`RunOnce` claims until its slots are full or nothing is claimable (`Claim`,
`BeginRound`), starts its items together and waits for all; `claimFair` tries the
kinds in turn from the one after the last that gave an item.  A claim of a public
job takes the next slot of the queue, 65 seconds later; a rate limit defers the job
and the queue together.  A reload cancels queued jobs and nothing that runs.
Time is a clock whose `Interval` units make the 65 seconds.  A round of claims takes
no time.  Left out: route attempts, texts of failures, the lower associations and
the unusual-activity signal of the policy.

### PublishedGroups, Correlation and Supervision

`PublishedGroups` is the promise to a reader of the groups: they are replaced as a
whole by one valid answer about what the collection shows at that moment, or
withdrawn as a whole.  It knows no jobs, workers or providers.  `Correlation` is the
queue, the worker and the tables; `Supervision` runs the worker, reloads the
configuration under it, keeps the cron schedules and lets the process fail.  The
composition implements `PublishedGroups` (`Promise == INSTANCE PublishedGroups WITH
Answers <- ValidGroups`, the variables map to themselves); the property of the run
is `GroupsKeepPromise == Promise!Spec`.

| Model | Code |
|---|---|
| `mode`, `shown`, `refreshing` | `collections.correlation_enabled` and `active`, `collection_pull_requests`, collections with an active `refresh_jobs` row |
| `job`, `groups`, `state` | the active `correlation_jobs` row, `correlation_groups` with members, `correlation_state` |
| `worker` | `correlationworker.Worker`: program counter of `RunOnce` and `process`, the claimed collection, the built requests, the provider in use, its response |
| `Responses`, `Collides`, `KeyViolated` | `correlation.Correlate` over chunks, `ValidateResponse`, the check across chunks, the primary key of a group |
| `process`, `loaded`, `errors` | `serve`: its life, `loadedConfig`, `runtimeErrors` |
| `schedules`, `dispatched` | `periodic.Coordinator` and `schedule_dispatches` |
| `thread` | the start of `serve` and the two callers of `reloadRuntime`, each at its own step |
| `reloaded`, `mixed` | history only: a reload has begun; one failed half-way or overlapped another |

A reload is its steps, in order: tables, stop schedules, forget schedules that are
gone, replace the worker, initialize the new schedules (one transaction records the
first run, another dispatches it), start them.  No lock covers `reloadRuntime`, so
the two callers interleave.  A goroutine that is canceled may report its error or
not: both cases of its `select` are ready.  `Supervision` keeps the correlation
worker of the five and the correlation entries of the schedules; the others are
replaced at the same point in the same way.  Every configuration names a model
provider.  A pull request stands for all that correlation reads of it, so an input
revision is the set of pull requests and a group's identity the set of its members.
The configuration does not move repositories between collections here.

### Accounts, Progress and Personal

`Accounts` is login, sessions and private marks, `Progress` the incremental
collection of maintainers' activity.  `Personal` composes them: `DeletePersonalData`
deletes from both in one transaction, and a crash ends the handlers of one and the
collection of the other.

| Model | Code |
|---|---|
| `policy`, `configured` | authorization of the collection in the application's configuration; whether the collection lists the repository |
| `flow`, `session` | `auth_flows`, `sessions` with the memberships verified at login |
| `important`, `hidden`, `goals` | the three tables of marks |
| `callback` | `serveAuthCallback`, one step per statement: consume, exchange and verify, create, audit |
| `request` | the other handlers: authorize, look up, write |
| `events`, `observed`, `checkpoint` | `progress_events`, `progress_review_threads`, `repository_progress_refreshes` |
| `collection`, `staged` | `collectProgressEvents` under way; the payload in the refresh generation |
| `occurred`, `resolved` | activity and the review thread on GitHub |
| `audited`, `erased`, `late`, `forgotten`, `missed` | history only |

A session has the id of the callback that drew it, since tokens are random.  A
collection lists candidates and then reads one timeline at a time, while activity
and time go on; it starts `Overlap`, the five minutes, before the checkpoint.  A
reload is one action here.  Left out: PKCE, CSRF tokens, cookies, deployment
administrators, ranks and dates of marks, the daily view and the validation of goals.

### Routing

How the jobs of both workers call GitHub through `Router` and the clients they share.

| Model | Code |
|---|---|
| `operation` | the call a job is in: waiting for the mutex, calling, sleeping; with the request, the profile, the attempt, the credential, retries and deadline of `doRequest` |
| `tokens`, `mutex` | `Client.tokens` and `Client.tokenMu` of each profile |
| `due` | when the job's context is done (timeout of its worker, or a stop) |
| `issued`, `revoked` | GitHub: the tokens by number, and up to which one they are refused |
| `known` | history only |

`Fails` is the loop over profiles: denials and invalid credentials go on with the
next, rate limits and outages are returned.  `RefuseToken` is the 401 of an
installation token: evict, and one more attempt with a deadline of its own.
`accessToken` holds the mutex while it asks GitHub for a token and sleeps through
that request's rate limits; a wait for the mutex looks at no context.  The scheduler
gives an attempt one deadline (`Dated`), an evidence operation has a budget for each
request.  Calls take no time and waits do.  The mutex is first in, first out: that a
goroutine which asks for it at the very moment of an unlock may overtake the head of
the queue, until `sync.Mutex` turns to starvation mode after a millisecond, is left
out.  `TimeoutsAssumption` says that the evidence worker's timeout is within the
budget: `serve` sets neither, so they are five and ten minutes.  Left out: pagination, observers, set-up
checks, the attempts recorded for the status page.

## Runs

`CHECK_DEADLOCK FALSE` everywhere: once the budget of events is used up and no job
is due, the workers only poll.

### RefreshGeneration

Two pull requests, two collections (`c1` selects both, `c2` the second), batches
of one.  Two items with batches of one give a generation that is part pending and
part completed, an item that leaves and one that comes with a rediscovery, and a
snapshot that is larger than a batch; two collections with different strategies
tell a narrowing reload from a removal and staged memberships from all.  Every
coalescing hazard needs one request beside one job; two ticks let the second meet
the generation of the first.

| Run | Budget | Shows |
|---|---|---|
| `refresh_safety` | 5 events of: 2 ticks, 1 forced request, 1 stop, 2 reloads (each counts twice), 1 change, 1 failure | ten properties of the generation, of the promises and of what reloads may break |
| `refresh_liveness` | 2 ticks, 1 stop, 1 change, 1 failure, 1 outage | jobs finish, closed pull requests leave, an outage ends a generation |
| `forced_lost` | 1 tick, 1 forced request | violated as the code stands, see Findings |
| `outage_retry` | 1 tick, 1 outage | violated as the code stands |

* `GenerationDiscipline`: a generation belongs to an active job, has nothing
  pending once it has left hydration, and its payloads bypassed the cache exactly
  if it was started for a forced job.
* `ForcedSnapshotIsUncached`: an upgrade to forced in the middle of a generation
  discards it; a snapshot for a forced claim holds nothing cached.
* `SnapshotCoversDiscovery`: a rediscovery that arrives after hydration sends the
  generation back; a snapshot never drops a pull request that was discovered.
* `StagedContentIsVisible`: the payload staged for a completed item is what the
  repository shows, across restarts and later batches.
* `QueuedForceIsHonoured`, `EarlyTickIsServed`: the promises that the code keeps.
* `CompletedItemsSurvive`: finished hydration is thrown away for four reasons only.
* `OnlyNarrowingExits`: every consistency check of the store holds until a reload
  takes the repository out of some collection.
* `RemovalsWaitForSnapshot`: batches and restarts remove nothing from the view.
* `JobFinishes`, `ClosedLeavesView`, `OutageEndsGeneration`: see Fairness.

### DiffAnalysis

Two heads, between which two pushes move, one collection.  A work item or an
analysis never looks at another collection than its own; what a second one adds,
an analysis worker that is busy elsewhere, is covered by the theorems.  Two slots
let two heads be collected at once and let a close and a return give one head two
items.  A property here needs at most two disturbances to break (a push and a
restart, a push and a failure, a request and a restart), so the total is two.

| Run | Budget | Shows |
|---|---|---|
| `diff_safety` | 2 of: push, close, abandoned refresh, reload, restart, reanalyze, storage error; 2 slots | five properties of the queues |
| `diff_liveness` | 2 of: push, restart, storage error; 1 slot | evidence reaches the model, unavailable evidence is retried |

* `RunningHasClaim`: a running row coalesces every later request, so somebody
  alive must hold it, or its worker is down and will recover it at its start.
* `EvidenceOfItsHead`: what is stored for a head was listed for that head, unless a
  push went back to it: with the second push the run reaches that case.
* `RecordedForStoredHead`: an answer that arrives late is not recorded for another
  head, a closed pull request or a collection that lost it.
* `ForcedIsNotSkipped`: coalescing, requeues and restarts keep the force of a
  queued job; it never ends as "input is current".
* `EvidenceReachesModel`, `UnavailableIsRetried`: see Fairness.

### AuthorEvidence

Two authors, so that one can be behind the other in the public queue; two
collections of one repository each, so that a reload can drop one; two slots; an
interval of two units with resets shorter and longer than it, a clock of three so
that a second claim and a deferred one both happen; three events of any kind.

| Run | Budget | Shows |
|---|---|---|
| `author_evidence` | 3 of: 3 requests, 1 reload, 1 snapshot, 1 stop of the worker | six properties of queues and judgement |

* `PublicQueueWaits`: no author is started while another is in flight, within 65
  seconds of the last start or before GitHub's reset, across restarts, reloads and
  deferrals.
* `DeferredGoBehind`: a deferred author waits for everybody who waited then.
* `NoKindStarves`: the rotation passes over work that is due at most twice.
* `PendingIsUnderWay`: evidence marked pending has a job that is queued, held, or
  recovered before the worker starts, unless a reload canceled it.
* `NewHasNoHistory`: an author is called new only with complete counts and no more
  pull requests than are open, whatever is in flight or was closed meanwhile.

### Correlation and Supervision

Two collections: `c1` is refreshed, reconfigured and has a fallback provider, `c2`
stays on and competes for the worker.  Two pull requests whose evidence cites each
other, in chunks of one: the smallest input in which one group is valid in two
chunks.  Two reload threads overlap with two events; a failure and a reload, a crash
and a request also need two.

| Run | Budget | Shows |
|---|---|---|
| `correlation` | 2 of: refresh, reload, failed reconciliation, crash, command, provider failure | the refinement, liveness and four properties of supervision |
| `reload_partial` | the same | violated as the code stands, see Findings |

* `GroupsKeepPromise`: the refinement of `PublishedGroups`.
* `GroupsCatchUp`: a collection with correlation gets the groups of what it shows,
  whatever dispatch, match or successor was lost on the way.
* `OnlyReloadsExit`: no answer and no publication makes a transaction of the worker
  or a dispatch fail for good; the primary key of a group is never violated.
* `Installed`: after a start and after a reload that neither failed nor overlapped
  another, schedules and worker are those of the tables, whatever was left behind.
* `OnlyReloadRevives`: groups of a disabled collection come back at most until the
  end of the reload that disabled it.

### Personal

One maintainer with two browsers and two login callbacks, one pull request in the
collection and two with activity, a clock of three units and an overlap of one, so
that a collection may be slower than its overlap or not.  Six events: two logins
and a deletion with what comes before and after it, or two collections with
activity and time between them.

| Run | Budget | Shows |
|---|---|---|
| `personal` | 6 of: 2 logins, 2 requests, 3 ticks, 2 activities, 2 thread changes, 2 collections, 2 changes (expiry, publication, reload), 1 crash | five properties of accounts and progress |
| `deleted_progress` | 5 of the same | violated as the code stands, see Findings |

* `LoginIsOnce`: no two sign-ins from one flow, and each is in the audit log.
* `ErasedStaysErased`: after a deletion no session, mark or goal of the user comes
  back, in whatever order other browsers, logins and restarts come, unless a request
  had passed authorization before it.
* `MarksFollowMembership`: what left the collection has no mark, but for a request
  that had looked it up before.
* `OnlySlowCollectionsMiss`: activity before the next cutoff is recorded, unless it
  happened in a collection longer than the overlap.

### Routing

A job of the scheduler and two of the evidence worker, so that one can hold the
mutex, one wait behind it and one use the token it cached; an App with a backup
behind it.  A unit is the five minutes of the evidence worker's timeout; the
scheduler's is three and the budget two, as in the code.  One retry instead of the
configured number already gives a wait that ends in success and one that ends in
exhaustion.

| Run | Budget | Shows |
|---|---|---|
| `routing` | 2 of: 2 revocations, 1 token that ages, 1 stop | three properties of the shared clients |

* `StaleTokenIsNotBlamed`: an operation gives up on an App as "credential invalid"
  only after GitHub refused a token issued after its first refusal, never for what
  another operation left in the cache.
* `MutexWaitIsBounded`: nobody waits for the token mutex longer than one budget,
  however many wait ahead.  A canceled job is not interrupted in that wait, so this
  bounds how long it delays a reload.

### Fairness

`RefreshGeneration`: weak fairness of the worker's steps (`Scheduler.Run` loops on a
ticker of a second and every step is a statement of a loop body or the return of a
call with a timeout), of its start (the process is supervised; a worker that a
reload removes for good has no jobs to finish and is not in this run), of a delay
that elapses and of the 24 hours.  Nothing is asked of requests, ticks, reloads,
GitHub or stops.  Whether a call succeeds or fails is not fair either; the budget
bounds failures, and the outage makes all of them fail.

`DiffAnalysis`: weak fairness of the refresh (the schedule repeats it), of the
steps of both workers and of their start and replacement, for the same reasons.
Strong fairness of a claim, for each head and each collection: both claims take
the oldest due job (`ORDER BY scheduled_for, id`), so a job that is due again and
again, although a push or a snapshot may withdraw it in between, is claimed.

`Supervision`: weak fairness of the worker, of each reload thread, of the exit and
the start of the process (it is supervised), of cron matches and their dispatch
(cron schedules recur) and of the end of a refresh.  Strong fairness of a claim of
`c1`, for the same reason as above: refreshes withdraw it in between.

`AuthorEvidence`, `Personal` and `Routing` are checked for safety only.

### Findings

* A forced request that coalesces onto a job in its publishing unit is lost
  (`forced_lost`): the row is upgraded, the worker completes it with the value it
  claimed.  `storage/store.go:2842`, `docs/operations.md:61`.
* A retryable failure without a generation is requeued every minute without limit
  (`outage_retry`): the job neither ends nor fails.  `docs/github-app.md:253`.
* A reload whose reconciliation of schedules fails leaves new tables with stopped
  schedules and the workers of the configuration before (`reload_partial`), though
  `application.go:144` calls the reload atomic.
* Progress that a maintainer deleted comes back from a payload staged before the
  deletion, or from the overlap of the next collection (`deleted_progress`).
  `storage/auth.go:155`, `progress_integration_test.go:158`.

Observations that no run states, because a model contains them or a doc is only
loosely about them:

* A tick that meets the publishing unit or a discovery in flight is followed by no
  discovery until the next occurrence (`docs/github-app.md:249`).  That is why
  `EarlyTickIsServed` says early.
* A diff that completes while an analysis of the pull request runs may be followed
  by no analysis until the next complete snapshot (`docs/model-analysis.md:177`).
  That is why `EvidenceReachesModel` needs recurring refreshes.
* A force-push away and back between the two verifications of a head is not noticed
  (`docs/model-analysis.md:265` says that evidence is never cached across a
  force-push).  `EvidenceOfItsHead` excepts the heads that were moved back to.
* A client built before a reload has no plan for a repository the reload adds and
  publishes all its pull requests to all collections (`client.go:1291`).
* A job waiting for the token mutex is not interrupted by cancellation, although
  `docs/github-app.md:255` says that a wait is: it delays a reload, which stops the
  scheduler first, by up to a budget, twice if it was evicting a token.
* An operation may wait a budget for each attempt at each profile, and evidence
  operations for each request, where the docs speak of a bounded job budget.
* `docs/operations.md:45` says that a reload queues the routes it marks pending; it
  enqueues nothing (`serve.go:534`).

## Proofs

### RefreshGeneration_proofs

It proves eleven theorems.  Nothing is assumed but the
`ASSUME`s of the module: pull request numbers are a finite set of positive
numbers, a strategy selects pull requests, a batch has at least one.

The safety properties are not inductive as they stand: each depends on what the
worker has in its hands between two transactions.  `IInv` adds that:

* `WorkerOwnsJob`: while the worker is between claim and requeue or completion,
  the row says running and is nobody else's; an idle worker has none running.
* `NothingStaged`: a job without a generation has no items left behind.
* `WorkerKnowsGeneration`: what was loaded, batched or staged still agrees with
  the generation in the table, or the generation is gone (a reload).  Here is the
  argument for `ForcedSnapshotIsUncached` and `SnapshotCoversDiscovery`: a unit
  begins only after the generation's `forced` was compared with the claim, and
  the only other writer of the generation is the tick, which sets a flag.
* `ForceIsKnown`, `TickIsPending`: where a promise is at each label.  A request
  that found the job queued is seen by the next claim; a tick that came before the
  listing leaves a generation that will be rediscovered, or none.

`InvariantInit` and `InvariantStep` show that `IInv` holds initially and that every
action keeps it; frame lemmas (`GenerationFrame`, `RowFrame`, `ReloadEffect`, ...)
say once which actions touch a variable, so that each proof treats only those.
`IInv` passed TLC on the instance of `refresh_safety` before it was proved.

`OnlyNarrowingExits` needs a second invariant, `NoExitInv`, which asks something only
until a reload takes the repository out of a collection:

* `AssignmentsAreConfigured`: what the client's plan, the worker's batch and the
  generation assign to a collection is still configured; a reload that only widens
  adds collections (`ConfiguredGrows`).
* `ActivityIsConfigured`: jobs, health and requests belong to a configured
  repository, so a widening reload deletes none of them.
* `UnitAgrees`: the generation is in the phase whose unit the worker does, with the
  items it loaded, until that unit changes it.

With them no check of the store fails (`NoStorageError`): those of a batch and of the
snapshot compare collections (`AssignmentsAreConfigured`), the others phase and items
(`UnitAgrees`).  `NoExitInv` passed TLC on the instance of `refresh_safety` too.

### DiffAnalysis_proofs

It proves `TypeOK`, `RunningHasClaim`, `EvidenceOfItsHead`, `RecordedForStoredHead` and
`ForcedIsNotSkipped` from the assumptions that `NoHead` is no head, `NoCollection`
no collection and the concurrency positive.  The inductive invariant adds:

* `DiffNeedsRow` and `SlotOwnership`: diff jobs go with the pull request's row, and
  a work item that still owns its row has a stored pull request.  So the early
  return of `CompletePullRequestDiff`, which completes nothing, never leaves a
  running row behind: the row is gone as well.
* `WorkerOwnership`: the analysis worker's row is running, as forced as it was
  claimed, and nobody else's; an idle worker has none.  Cascades and the worker
  agree on which rows are gone.
* `OwedIsForced`: a promised force sits on a forced row.  With `WorkerOwnership` it
  follows the row into the worker, so `SkipCurrent` cannot meet it.

`EvidenceInvStep`, `AnalysisInvOtherStep` and `AnalysisInvWorkerStep` show that each
action keeps it; `SnapshotEffect`, `SyncEffect`, `CompletionEffect` and
`FollowUpEffect` say once what each transaction does to the queues.

`EvidenceOfItsHead` rests on `CollectionIsVerified`: an item that is past its first
verification has a head that GitHub had; if it listed other files than its head's,
that head has been left, and stays left until a push moves back to it.  So an item
that passes the second verification listed its own files, or its head is in
`returned`.  Closes, reloads and restarts only forget items and evidence.  This too
passed TLC first, on the instance of `diff_safety`.

### AuthorEvidence_proofs

It proves all six properties of `author_evidence` for every set of authors, collections
and (finitely many) repositories, every interval, set of resets and concurrency, from
the assumptions of `AuthorEvidence`; authors are assumed to be no pairs of author and
repository, because both occur as keys of `canceled`.  The invariant `EvidenceInv`,
which passed TLC on the instance of `author_evidence`, adds to the types:

* `RoundIsCounted`: the items of a round are finitely many and their diffs are counted
  in the table, so completing one never takes the count below zero.
* `JobsAreHeld`: an item's job is running; a running job has an item or the worker is
  down.  `PendingIsUnderWay` follows every request, recovery and deferral from it.
* `SlotIsLate`: the next slot of the public queue lies after the last start and after
  what GitHub asked for; `PublicQueueWaits` compares the clock with it.  `JobsAreHeld`
  gives its last conjunct, that nobody is in flight.
* `TurnComes`: a kind has been passed over at most as often as turns have gone by since
  it was tried last; with three kinds that is two (`NoKindStarves`).
* `BehindIsEarlier`: whoever waited when an author was deferred is due before that
  author, as long as both are queued; `DeferredGoBehind` follows, since a claim takes
  the job due first.

`NewHasNoHistory` follows from the types, once it is known that a sum of numbers is
zero only if all of them are.  The sum is the community modules' recursive function over
the subsets of a finite set; `SumExists` shows that its equation has a solution and
`SumOfNumbers` that every solution has the property, both by a least counterexample
(`LeastNumber`) in place of an induction.

### Personal_proofs

It proves the five properties of `personal` for every set of users, browsers,
callbacks, requests, pull requests and activities, every policy and every overlap.
`Inv` is the conjunction of an invariant of `Accounts` and one of `Progress`; each step
of the composition is a step of one component that leaves the other alone, but for the
deletion of personal data and a crash, which are steps of both.  It passed TLC on the
instance of `personal` before it was proved.

* `FlowsAreConsumed`: a callback holds flows that are gone from the table, so no two
  callbacks hold one flow.  `SessionsAreCreated`: a callback has no session before it
  creates one.  Together they make `LoginIsOnce` inductive.
* `OneUser`, `NobodyWritesErased`, `FoundHides`: a request acts for one user; requests
  that write are not those of an erased user, because a deletion promises only what no
  request under way can undo, and its sessions authorize none after it.  This is
  the argument for `ErasedStaysErased`.
* `CollectionCovers`, `PayloadCovers`: what happened before a collection began is
  recorded, deleted, skipped for slowness, collected, or on a timeline it has yet to
  read; what happened before the next cutoff is one of those or in the staged payload.
  A collection that is repeated or lost starts from the same checkpoint, so
  `OnlySlowCollectionsMiss` needs nothing about crashes.

### Routing_proofs

It proves the three properties of `routing` for every number of callers, every sequence
of profiles, every budget, number of retries and set of waits.  `RoutingInv` passed TLC
on the instance of `routing` and adds:

* `MutexIsOrdered`: the queue of a profile's mutex holds who waits for it or asks for a
  token with it, once; all but the first wait, and whoever is ahead of another must
  give up no later than a budget after the other came.
* `DeadlinesAreNear`: a deadline is at most one budget away, and nobody sleeps past
  its own.  So a caller that joins finds only deadlines within a budget from now, and
  `MutexWaitIsBounded` holds however many are ahead.  For a caller of the evidence
  worker the deadline is its context, which is where `TimeoutsAssumption` is needed.
* `TokensAreNumbered`: whoever saw a token refused knows the last one issued then, and
  a second attempt finds only newer ones in the cache, whatever others put there or
  evict.  `StaleTokenIsNotBlamed` is the last conjunct of it.

The actions are first reduced to a few moves of one caller (`Goes`, `Sleeps`, `Ends`,
`Rejoins`, ...), and each part of the invariant is proved for the moves.

### Supervision_proofs

It proves `TypeOK`, `OnlyReloadsExit`, `Installed`, `OnlyReloadRevives` and the
refinement `GroupsKeepPromise`, for every set of collections, pull requests and
citations, every size of a chunk, every set of configurations and any number of
reload threads, from the assumptions of `Correlation` and `Supervision`.  The
inductive invariant `IInv` adds to the types:

* `WorkerClaims`, `AnswerIsValid`: from a claim on the worker has a collection, and
  what it is about to record was validated for the input it read.
* `DownIsClean`: nothing in memory survives the process.
* `BeforeReload`: until the first reload begins there is no error, and the worker,
  the schedules and their due matches are about collections that are on.

From it follow:

* `OnlyReloadsExit`: an answer has at most one group for a chunk and no group in two
  chunks (`ValidResponseHasKeys`), so no row violates the key; and before a reload
  neither a dispatch nor the successor of stale inputs meets a disabled collection.
* The refinement: only `RecordSuccess`, `SyncCollections` and publications touch the
  variables of `PublishedGroups`.  The first writes a valid answer about what the
  collection shows (`AnswerIsValid` and its own comparison), the second withdraws,
  the third changes what one collection shows; `PromiseStutter` has the rest.

`Installed` and `OnlyReloadRevives` need a second invariant, `JInv`.  `SoleReload`: a
start or reload that nothing overlapped carries the configuration of the tables, is
the only one under way, and once it has replaced the worker there is one (or an error
that says why not), which is about collections that are on; the entries not yet
dispatched are among those it has yet to initialize.  `BetweenReloads`: when the last
reload succeeded alone, that still holds and what runs is what the tables say.
A reload that begins takes `alone` from the ones under way, one that fails or was
overlapped sets `mixed`, so `JInv` asks nothing of those.  `IInv` and `JInv` passed
TLC on the instance of `correlation` before they were proved.

### Only model-checked

Every safety property of a passing run is a theorem.  The properties with leads-to
(`JobFinishes`, `ClosedLeavesView`, `OutageEndsGeneration`, `EvidenceReachesModel`,
`UnavailableIsRetried`, `GroupsCatchUp`) are model-checked only: liveness under
fairness, and the ENABLED in it, are beyond the prover.

## Plan

Done: the modules above, with the proofs of their safety properties.  Left, in this
order:

1. `WorkQueue`, the abstract promise of every queue here (requests coalesce; an
   active request is served or failed; forced stays forced while queued), refined by
   `RefreshGeneration`.
2. The composition of `DiffAnalysis` with the whole refresh instead of the reduced
   one, and several due repositories with the barrier of two jobs.
3. Pure algorithms against reference definitions: quality policy, cron parsing.

## Not modelled, and why

Schema and migrations run before anything else and once; the tables the models need
are their variables.  Configuration parsing, the read-only handlers, queries and the
user interface are sequential and keep no state of their own.  Telemetry observes.
Analysis providers are prompts and HTTP calls to a model; only their outcomes matter
to the queues.  Of the operations status, the attempts of each route and its pending
marks are left out: nothing reads them but a page.  Retention is modelled where
others depend on it, for flows and sessions; elsewhere it deletes by age rows that
nothing else refers to.  The quality policy is a pure function of counts that its
tests enumerate well.
