-------------------------- MODULE RefreshGeneration --------------------------
(***************************************************************************)
(* The durable refresh of ONE repository: its row of refresh_jobs, the     *)
(* staged refresh generation of that job, the published pull requests, the *)
(* scheduler worker that claims the job one bounded unit at a time, and    *)
(* everything that runs beside the worker: cron ticks, forced requests     *)
(* from the admin page or the refresh command, configuration reloads,      *)
(* worker restarts, and GitHub.                                            *)
(*                                                                         *)
(* Granularity.  The store has one connection and every Store method is    *)
(* one SQLite transaction, so a transaction is one action.  A GitHub call  *)
(* takes effect when it returns.  Between two actions of the worker        *)
(* anything else may happen.                                               *)
(*                                                                         *)
(* Which due job of several repositories the worker claims is not decided  *)
(* here: Claim may happen whenever this repository's job is due.           *)
(***************************************************************************)
EXTENDS Naturals, FiniteSets, Functions

CONSTANTS PRs,            \* pull request numbers of the repository
          Collections,    \* collections that may configure the repository
          Selects,        \* the PRs a collection's discovery strategy matches
          BatchSize,      \* refreshHydrationBatchSize
          InitiallyIn,    \* collections that configure it at the first start
          MaxVersion      \* bound: versions of a pull request's content

ASSUME PRsAssumption == PRs \subseteq Nat \ {0} /\ IsFiniteSet(PRs)
ASSUME SelectsAssumption == Selects \in [Collections -> SUBSET PRs]
ASSUME BatchSizeAssumption == BatchSize \in Nat \ {0}
ASSUME InitiallyInAssumption == InitiallyIn \subseteq Collections
ASSUME MaxVersionAssumption == MaxVersion \in Nat \ {0}

VARIABLES
  \* GitHub
  open,        \* open pull requests
  head,        \* head[p]: version of p's content, counted from 1
  \* Configuration tables and the client built from the configuration
  link,        \* link[c]: the collection_repositories row of c and whether c is active
  targets,     \* collections in the discovery plan of the running worker's client
  narrowed,    \* history: a reload took the repository out of some collection
  \* Tables of the repository
  job,         \* the active refresh_jobs row; status "none" when there is none
  gen,         \* the active job's refresh_generations row and its items
  aged,        \* discovered_at of the generation is at least 24 hours ago
  pub,         \* collection_pull_requests: <<collection, number>>
  row,         \* pull_requests: version of the stored content, 0 without a row
  health,      \* repository_refreshes.state; "absent" without a row
  \* The worker: program counter and the variables of process/processPhased
  pc,
  claimed,     \* job.Forced as ClaimRefresh returned it
  loaded,      \* the generation LoadRefreshGeneration returned
  members,     \* PR -> collection IDs: discovery result, batch or staged items
  payloads,    \* PR -> hydrated payload: hydration result or staged items
  delay,       \* minutes until the requeued job is due
  \* A caller of EnqueueRefreshWithForce(..., TRUE)
  caller,
  \* History: promises made to a requester and not kept yet
  forceOwed,   \* a forced refresh, asked for while the job was queued or running
  tickOwed     \* a discovery, asked for by a cron tick

github == <<open, head>>
config == <<link, targets, narrowed>>
tables == <<job, gen, aged, pub, row, health>>
worker == <<pc, claimed, loaded, members, payloads, delay>>
promises == <<forceOwed, tickOwed>>
vars == <<github, config, tables, worker, caller, promises>>

-----------------------------------------------------------------------------
(* Data *)

PartialFunctions(S, T) == UNION {[D -> T] : D \in SUBSET S}
Empty == [p \in {} |-> 0]

Outcomes == {"hit", "miss", "bypass"}
Versions == 1..MaxVersion
Payload == [version : Versions, outcome : Outcomes]
MemberSets == PartialFunctions(PRs, SUBSET Collections)
PayloadSets == PartialFunctions(PRs, Payload)

Phases == {"none", "hydrating", "progress", "publishing"}
\* ids[p] are the staged collection IDs of item p; the completed items are the
\* domain of done.
Generations == [phase : Phases, forced : BOOLEAN, rediscover : BOOLEAN,
                retries : Nat, ids : MemberSets, done : PayloadSets]
NoGeneration == [phase |-> "none", forced |-> FALSE, rediscover |-> FALSE,
                 retries |-> 0, ids |-> Empty, done |-> Empty]
PendingSwapped(g) == DOMAIN g.done \ DOMAIN g.ids
Pending(g) == DOMAIN g.ids \ DOMAIN g.done
Completed(g) == DOMAIN g.ids \cap DOMAIN g.done

Jobs == [status : {"none", "queued", "running"}, forced : BOOLEAN, wait : Nat]
NoJob == [status |-> "none", forced |-> FALSE, wait |-> 0]
Active == {"queued", "running"}

\* What processPhased keeps of the generation it loaded: whether there is one,
\* and the items its Completed and Pending counters counted.
NotLoaded == [exists |-> FALSE, completed |-> {}, pending |-> {}]
Loaded(g) == [exists |-> TRUE, completed |-> Completed(g), pending |-> Pending(g)]

Healths == {"absent", "never", "running", "fresh", "failed", "incomplete"}
SetHealth(state) == IF health = "absent" THEN "absent" ELSE state

Configured == {c \in Collections : link[c] = "active"}

\* Client.discover: the open PRs that some strategy of the plan matches, with
\* the collections of those strategies; without a plan, every open PR with none.
Matching(p) == {c \in targets : p \in Selects[c]}
Discovery ==
  [p \in {q \in open : targets = {} \/ Matching(q) # {}} |-> Matching(p)]

\* ORDER BY number LIMIT BatchSize over the pending items.
Batches(g) ==
  LET pending == Pending(g)
      size == IF Cardinality(pending) < BatchSize THEN Cardinality(pending)
                                                  ELSE BatchSize
  IN IF g.phase # "hydrating" THEN {{}}
     ELSE {b \in SUBSET pending :
             /\ Cardinality(b) = size
             /\ \A p \in b, q \in pending \ b : p < q}

\* Minutes: 1<<min(retries-1, 4).
Backoff(retries) == IF retries < 5 THEN <<1, 2, 4, 8>>[retries] ELSE 16

Init ==
  /\ open \in SUBSET PRs
  /\ head = [p \in PRs |-> 1]
  /\ link = [c \in Collections |-> IF c \in InitiallyIn THEN "active" ELSE "absent"]
  /\ targets = {} /\ narrowed = FALSE
  /\ job = NoJob /\ gen = NoGeneration /\ aged = FALSE
  /\ pub = {} /\ row = [p \in PRs |-> 0]
  /\ health = IF InitiallyIn = {} THEN "absent" ELSE "never"
  /\ pc = "stopped" /\ claimed = FALSE /\ loaded = NotLoaded
  /\ members = Empty /\ payloads = Empty /\ delay = 0
  /\ caller = "none"
  /\ forceOwed = "no" /\ tickOwed = "no"

-----------------------------------------------------------------------------
(* The worker: Scheduler.Run, RunOnce, process and processPhased *)

\* The locals of process go out of scope.
Forget ==
  /\ claimed' = FALSE /\ loaded' = NotLoaded
  /\ members' = Empty /\ payloads' = Empty /\ delay' = 0

\* A step that only moves the program counter.
GoTo(label) ==
  /\ pc' = label
  /\ UNCHANGED <<claimed, loaded, members, payloads, delay>>

\* RecoverRefreshJobs
RecoveredNot(j) == j
Recovered(j) == IF j.status = "running" THEN [j EXCEPT !.status = "queued"] ELSE j

\* A worker is built for the configuration; Run begins with RecoverRefreshJobs.
StartWorker ==
  /\ pc \in {"stopped", "exited"}
  /\ pc' = "idle" /\ Forget
  /\ targets' = Configured
  /\ job' = Recovered(job)
  /\ UNCHANGED <<github, link, narrowed, gen, aged, pub, row, health,
                 caller, promises>>

\* ClaimRefresh
Claim ==
  /\ pc = "idle" /\ job.status = "queued" /\ job.wait = 0
  /\ job' = [job EXCEPT !.status = "running"]
  /\ claimed' = job.forced
  /\ pc' = "claimed"
  /\ UNCHANGED <<github, config, gen, aged, pub, row, health,
                 loaded, members, payloads, delay, caller, promises>>

\* RecordRefreshResult(running)
RecordRunning ==
  /\ pc = "claimed"
  /\ health' = SetHealth("running")
  /\ GoTo("loading")
  /\ UNCHANGED <<github, config, job, gen, aged, pub, row, caller, promises>>

\* The unit of work the loaded generation asks for.
UnitOf == [hydrating |-> "batching", progress |-> "collecting", publishing |-> "staging"]
NextUnitReusing ==
  IF gen.phase = "none" \/ gen.rediscover THEN "discovering" ELSE UnitOf[gen.phase]
NextUnit ==
  IF gen.phase # "none" /\ gen.forced # claimed THEN "discarding"
  ELSE IF gen.phase = "none" \/ gen.rediscover THEN "discovering"
  ELSE UnitOf[gen.phase]

\* LoadRefreshGeneration
LoadGeneration ==
  /\ pc = "loading"
  /\ loaded' = IF gen.phase = "none" THEN NotLoaded ELSE Loaded(gen)
  /\ pc' = NextUnit
  /\ UNCHANGED <<github, config, tables, claimed, members, payloads, delay,
                 caller, promises>>

\* DeleteRefreshGeneration of a generation that was started with the other
\* value of forced; generation = nil.
DiscardGeneration ==
  /\ pc = "discarding"
  /\ gen' = NoGeneration
  /\ loaded' = NotLoaded
  /\ pc' = "discovering"
  /\ UNCHANGED <<github, config, job, aged, pub, row, health,
                 claimed, members, payloads, delay, caller, promises>>

DiscoveryReturns ==
  /\ pc = "discovering"
  /\ members' = Discovery
  /\ pc' = "discovered"
  /\ UNCHANGED <<github, config, tables, claimed, loaded, payloads, delay,
                 caller, promises>>

\* StartRefreshGeneration: forced is read again from the job's row.
StartGeneration ==
  /\ pc = "discovered" /\ ~loaded.exists
  /\ job.status = "running"
  /\ gen' = [NoGeneration EXCEPT !.phase = "hydrating", !.forced = job.forced,
                                 !.ids = members]
  /\ aged' = FALSE
  /\ tickOwed' = "no"
  /\ GoTo("requeueing")
  /\ UNCHANGED <<github, config, job, pub, row, health, caller, forceOwed>>

\* ReconcileRefreshGenerationDiscovery updates the generation in place.
ReconciledKeepingPhase(g) ==
  [g EXCEPT !.rediscover = FALSE, !.retries = 0, !.ids = members,
            !.done = Restrict(@, DOMAIN @ \cap DOMAIN members)]
ReconciledFromScratch(g) ==
  [g EXCEPT !.phase = "hydrating", !.rediscover = FALSE, !.retries = 0,
            !.ids = members, !.done = Empty]
Reconciled(g) ==
  [g EXCEPT !.phase = "hydrating", !.rediscover = FALSE, !.retries = 0,
            !.ids = members,
            !.done = Restrict(@, DOMAIN @ \cap DOMAIN members)]

ReconcileGeneration ==
  /\ pc = "discovered" /\ loaded.exists
  /\ gen.phase # "none"
  /\ gen' = Reconciled(gen)
  /\ aged' = FALSE
  /\ tickOwed' = "no"
  /\ GoTo("requeueing")
  /\ UNCHANGED <<github, config, job, pub, row, health, caller, forceOwed>>

\* LoadRefreshGenerationBatch
LoadBatch ==
  /\ pc = "batching"
  /\ \E batch \in Batches(gen) :
       /\ members' = Restrict(gen.ids, batch)
       /\ pc' = IF batch = {} THEN "hydrated-all" ELSE "hydrating"
  /\ UNCHANGED <<github, config, tables, claimed, loaded, payloads, delay,
                 caller, promises>>

\* AdvanceRefreshGeneration(hydrating, progress)
AdvanceToProgress ==
  /\ pc = "hydrated-all"
  /\ gen.phase = "hydrating"
  /\ gen' = [gen EXCEPT !.phase = "progress", !.retries = 0]
  /\ GoTo("requeueing")
  /\ UNCHANGED <<github, config, job, aged, pub, row, health, caller, promises>>

\* hydrateWithToken and the outcome processHydrationBatch stages for each PR.
\* The cache is the stored row, which only this worker writes.
HydrationReturns ==
  /\ pc = "hydrating"
  /\ payloads' = [p \in DOMAIN members |->
       [version |-> head[p],
        outcome |-> IF claimed THEN "bypass"
                    ELSE IF row[p] = head[p] THEN "hit" ELSE "miss"]]
  /\ pc' = "hydrated"
  /\ UNCHANGED <<github, config, tables, claimed, loaded, members, delay,
                 caller, promises>>

\* Each item must still be pending, and each quality row written for a staged
\* collection needs its collection_pull_requests row (a foreign key).
BatchPublishable ==
  /\ gen.phase = "hydrating"
  /\ DOMAIN members \subseteq Pending(gen)
  /\ \A p \in DOMAIN members : \A c \in members[p] :
       link[c] = "active" \/ <<c, p>> \in pub

\* upsertPullRequestRow for every pull request of the batch.
InsertedRows ==
  [p \in PRs |-> IF p \in DOMAIN payloads /\ row[p] = 0 THEN payloads[p].version
                                                       ELSE row[p]]
UpsertedRows ==
  [p \in PRs |-> IF p \in DOMAIN payloads THEN payloads[p].version ELSE row[p]]

\* INSERT OR IGNORE for the staged collections that still configure the
\* repository; memberships that exist stay.
BatchMembershipsSwapped ==
  {m \in (DOMAIN members) \X Configured : m[2] \in members[m[1]]}
BatchMemberships ==
  {m \in Configured \X DOMAIN members : m[1] \in members[m[2]]}
PublishedOnly == BatchMemberships
PublishedWith == pub \cup BatchMemberships

\* PublishRefreshGenerationBatch
PublishBatch ==
  /\ pc = "hydrated"
  /\ BatchPublishable
  /\ row' = UpsertedRows
  /\ pub' = PublishedWith
  /\ gen' = [gen EXCEPT !.retries = 0,
       !.done = [p \in DOMAIN @ \cup DOMAIN payloads |->
                   IF p \in DOMAIN payloads THEN payloads[p] ELSE @[p]]]
  /\ GoTo("requeueing")
  /\ UNCHANGED <<github, config, job, aged, health, caller, promises>>

ProgressReturns ==
  /\ pc = "collecting"
  /\ GoTo("collected")
  /\ UNCHANGED <<github, config, tables, caller, promises>>

\* AdvanceRefreshGeneration(progress, publishing)
AdvanceToPublishing ==
  /\ pc = "collected"
  /\ gen.phase = "progress"
  /\ gen' = [gen EXCEPT !.phase = "publishing", !.retries = 0]
  /\ GoTo("requeueing")
  /\ UNCHANGED <<github, config, job, aged, pub, row, health, caller, promises>>

\* LoadStagedRefreshPullRequests returned what LoadRefreshGeneration counted.
StagedComplete ==
  Cardinality(Completed(gen)) = Cardinality(loaded.completed) /\ loaded.pending = {}

LoadStaged ==
  /\ pc = "staging"
  /\ StagedComplete
  /\ members' = Restrict(gen.ids, Completed(gen))
  /\ payloads' = Restrict(gen.done, Completed(gen))
  /\ pc' = "replacing"
  /\ UNCHANGED <<github, config, tables, claimed, loaded, delay, caller, promises>>

\* Where the snapshot puts PR p: its staged collections, or every collection
\* that configures the repository when it was discovered without a plan.
Destinations(p) == IF members[p] = {} THEN Configured ELSE members[p]
SnapshotMembershipsAdded ==
  pub \cup {m \in Collections \X DOMAIN members : m[1] \in Destinations(m[2])}
SnapshotMemberships ==
  {m \in Collections \X DOMAIN members : m[1] \in Destinations(m[2])}

\* replaceRepositorySnapshot: ErrRepositoryNotConfigured ends the job without
\* publishing.
SkipSnapshot ==
  /\ pc = "replacing"
  /\ Configured = {}
  /\ forceOwed' = "no"
  /\ GoTo("completing")
  /\ UNCHANGED <<github, config, tables, caller, tickOwed>>

\* "collection %q does not configure repository %q"
SnapshotPublishable ==
  \A p \in DOMAIN members : members[p] \subseteq Configured

\* replaceRepositorySnapshot: the only place where pull requests leave the view.
ReplaceSnapshot ==
  /\ pc = "replacing"
  /\ Configured # {} /\ SnapshotPublishable
  /\ pub' = SnapshotMemberships
  /\ row' = [p \in PRs |-> IF p \in DOMAIN payloads THEN payloads[p].version ELSE 0]
  /\ health' = "fresh"
  /\ forceOwed' = IF claimed THEN "no" ELSE forceOwed
  /\ GoTo("recording")
  /\ UNCHANGED <<github, config, job, gen, aged, caller, tickOwed>>

\* RecordProgressSnapshot, a second transaction.
RecordProgress ==
  /\ pc = "recording"
  /\ GoTo("completing")
  /\ UNCHANGED <<github, config, tables, caller, promises>>

\* CompleteRefreshJob.  The completed row leaves coalescing; its generation
\* is reachable only through the job's id, so nothing reads it again.
CompleteJob ==
  /\ pc = "completing"
  /\ job' = NoJob /\ gen' = NoGeneration
  /\ pc' = "idle" /\ Forget
  /\ UNCHANGED <<github, config, aged, pub, row, health, caller, promises>>

\* RequeueRefreshJob
RequeueJob ==
  /\ pc = "requeueing"
  /\ job.status = "running"
  /\ job' = [job EXCEPT !.status = "queued", !.wait = delay]
  /\ pc' = "idle" /\ Forget
  /\ UNCHANGED <<github, config, gen, aged, pub, row, health, caller, promises>>

-----------------------------------------------------------------------------
(* handlePhasedFailure *)

InGitHubCall == {"discovering", "hydrating", "collecting"}

\* Rate limited, unavailable or timed out, before there is a generation: try
\* again in a minute.
DiscoveryRetry ==
  /\ pc \in InGitHubCall /\ ~loaded.exists
  /\ delay' = 1
  /\ pc' = "requeueing"
  /\ UNCHANGED <<github, config, tables, claimed, loaded, members, payloads,
                 caller, promises>>

\* The same with a generation discovered less than 24 hours ago.
RetryAlways == loaded.exists
RetryAllowed == loaded.exists /\ ~aged

GenerationRetry ==
  /\ pc \in InGitHubCall /\ RetryAllowed
  /\ GoTo("retrying")
  /\ UNCHANGED <<github, config, tables, caller, promises>>

\* RecordRefreshGenerationRetry
RecordRetry ==
  /\ pc = "retrying"
  /\ gen.phase # "none"
  /\ gen' = [gen EXCEPT !.retries = @ + 1]
  /\ delay' = Backoff(gen.retries + 1)
  /\ pc' = "requeueing"
  /\ UNCHANGED <<github, config, job, aged, pub, row, health,
                 claimed, loaded, members, payloads, caller, promises>>

\* The same past the 24 hours.
RetriesExhausted ==
  /\ pc \in InGitHubCall /\ loaded.exists /\ ~RetryAllowed
  /\ GoTo("failing")
  /\ UNCHANGED <<github, config, tables, caller, promises>>

\* Any other failure.
TerminalFailure ==
  /\ pc \in InGitHubCall
  /\ GoTo("failing")
  /\ UNCHANGED <<github, config, tables, caller, promises>>

\* RecordRefreshResult(failed or incomplete)
RecordFailure ==
  /\ pc = "failing"
  /\ \E state \in {"failed", "incomplete"} : health' = SetHealth(state)
  /\ forceOwed' = "no" /\ tickOwed' = "no"
  /\ GoTo("abandoning")
  /\ UNCHANGED <<github, config, job, gen, aged, pub, row, caller>>

\* DeleteRefreshGeneration
AbandonGeneration ==
  /\ pc = "abandoning"
  /\ gen' = NoGeneration
  /\ GoTo("completing")
  /\ UNCHANGED <<github, config, job, aged, pub, row, health, caller, promises>>

\* A Store method returns an error: Scheduler.Run returns it, the manager sends
\* it to runtimeErrors and the process exits.
StorageError ==
  /\ \/ pc = "discovered" /\ loaded.exists /\ gen.phase = "none"
     \/ pc = "hydrated-all" /\ gen.phase # "hydrating"
     \/ pc = "hydrated" /\ ~BatchPublishable
     \/ pc = "collected" /\ gen.phase # "progress"
     \/ pc = "staging" /\ ~StagedComplete
     \/ pc = "replacing" /\ Configured # {} /\ ~SnapshotPublishable
     \/ pc = "retrying" /\ gen.phase = "none"
  /\ pc' = "exited" /\ Forget
  /\ UNCHANGED <<github, config, tables, caller, promises>>

\* The worker's context is canceled, by a reload or a shutdown, or the process
\* dies: the step that was next does not happen.
StopWorker ==
  /\ pc \notin {"stopped", "exited"}
  /\ pc' = "stopped" /\ Forget
  /\ UNCHANGED <<github, config, tables, caller, promises>>

-----------------------------------------------------------------------------
(* Requests, the cron schedule, configuration and GitHub *)

\* EnqueueRefreshWithForce is three statements, each its own transaction: the
\* configuration check, INSERT OR IGNORE, and the upgrade of the active row.
RequestForced ==
  /\ caller = "none" /\ Configured # {}
  /\ caller' = "checked"
  /\ UNCHANGED <<github, config, tables, worker, promises>>

InsertForced ==
  /\ caller = "checked"
  /\ IF job.status = "none"
       THEN /\ job' = [status |-> "queued", forced |-> TRUE, wait |-> 0]
            /\ caller' = "inserted"
            /\ forceOwed' = "queued"
       ELSE /\ caller' = "coalesced"
            /\ UNCHANGED <<job, forceOwed>>
  /\ UNCHANGED <<github, config, gen, aged, pub, row, health, worker, tickOwed>>

UpgradedNot(j) == j
Upgraded(j) == IF j.status \in Active THEN [j EXCEPT !.forced = TRUE] ELSE j

UpgradeForced ==
  /\ caller \in {"inserted", "coalesced"}
  /\ job' = Upgraded(job)
  /\ forceOwed' = IF caller = "inserted" \/ forceOwed = "queued" THEN forceOwed
                  ELSE IF job.status = "queued" THEN "queued" ELSE "running"
  /\ caller' = "none"
  /\ UNCHANGED <<github, config, gen, aged, pub, row, health, worker, tickOwed>>

\* Where the worker has passed the point at which it would see the request for
\* rediscovery, or listed the pull requests already.
PastDiscovery == {"discovering", "discovered", "staging", "replacing",
                  "recording", "abandoning", "completing"}

\* UPDATE refresh_generations SET rediscovery_requested = 1
RequestedWhileHydrating(g) ==
  IF g.phase = "hydrating" THEN [g EXCEPT !.rediscover = TRUE] ELSE g
Requested(g) == IF g.phase = "none" THEN g ELSE [g EXCEPT !.rediscover = TRUE]

\* EnqueueAllRefreshes, one transaction.
CronTick ==
  /\ gen' = Requested(gen)
  /\ job' = IF job.status = "none" /\ health # "absent"
              THEN [NoJob EXCEPT !.status = "queued"] ELSE job
  /\ tickOwed' = IF health = "absent" THEN tickOwed
                 ELSE IF pc \notin PastDiscovery \/ tickOwed = "early"
                        THEN "early" ELSE "late"
  /\ UNCHANGED <<github, config, aged, pub, row, health, worker, caller, forceOwed>>

\* SyncCollections for a configuration that lists the repository in the
\* collections "with" and has the collections "without" that do not list it.
\* Every other collection is no longer configured: it becomes inactive and
\* keeps its rows.
SyncCollections(with, without) ==
  /\ with \cap without = {}
  /\ link' = [c \in Collections |->
       CASE c \in with -> "active"
         [] c \in without -> "absent"
         [] OTHER -> IF link[c] = "absent" THEN "absent" ELSE "inactive"]
  /\ narrowed' = (narrowed \/ ~(Configured \subseteq with))
  /\ pub' = {m \in pub : m[1] \notin without}
  /\ IF with = {}
       THEN /\ job' = IF job.status = "queued" THEN NoJob ELSE job
            /\ gen' = NoGeneration
            /\ health' = "absent"
            /\ forceOwed' = "no" /\ tickOwed' = "no"
       ELSE /\ health' = IF health = "absent" THEN "never" ELSE health
            /\ UNCHANGED <<job, gen, promises>>
  /\ UNCHANGED <<github, targets, aged, row, worker, caller>>

Reload == \E with, without \in SUBSET Collections : SyncCollections(with, without)

DelayElapses ==
  /\ job.status = "queued" /\ job.wait > 0
  /\ job' = [job EXCEPT !.wait = 0]
  /\ UNCHANGED <<github, config, gen, aged, pub, row, health, worker, caller, promises>>

AgeGeneration ==
  /\ gen.phase # "none" /\ ~aged
  /\ aged' = TRUE
  /\ UNCHANGED <<github, config, job, gen, pub, row, health, worker, caller, promises>>

OpenOrClose ==
  /\ \E p \in PRs : open' = IF p \in open THEN open \ {p} ELSE open \cup {p}
  /\ UNCHANGED <<head, config, tables, worker, caller, promises>>

Push ==
  /\ \E p \in open : head[p] < MaxVersion /\ head' = [head EXCEPT ![p] = @ + 1]
  /\ UNCHANGED <<open, config, tables, worker, caller, promises>>

-----------------------------------------------------------------------------
(* The specification *)

\* What the worker does by itself, and GitHub's successful answers.
WorkerStep ==
  \/ Claim \/ RecordRunning \/ LoadGeneration \/ DiscardGeneration
  \/ StartGeneration \/ ReconcileGeneration
  \/ LoadBatch \/ AdvanceToProgress \/ PublishBatch
  \/ AdvanceToPublishing \/ LoadStaged \/ SkipSnapshot \/ ReplaceSnapshot
  \/ RecordProgress \/ CompleteJob \/ RequeueJob
  \/ RecordRetry \/ RecordFailure \/ AbandonGeneration
  \/ StorageError

GitHubAnswers == DiscoveryReturns \/ HydrationReturns \/ ProgressReturns
GitHubFails == DiscoveryRetry \/ GenerationRetry \/ RetriesExhausted \/ TerminalFailure
Request == RequestForced \/ InsertForced \/ UpgradeForced
GitHubChanges == OpenOrClose \/ Push

Next ==
  \/ StartWorker \/ WorkerStep \/ GitHubAnswers \/ GitHubFails \/ StopWorker
  \/ Request \/ CronTick \/ Reload \/ DelayElapses \/ AgeGeneration \/ GitHubChanges

Spec == Init /\ [][Next]_vars

-----------------------------------------------------------------------------
(* Properties *)

Labels == {"stopped", "idle", "exited", "claimed", "loading", "discarding",
           "discovering", "discovered", "batching", "hydrated-all", "hydrating",
           "hydrated", "collecting", "collected", "staging", "replacing",
           "recording", "completing", "requeueing", "retrying", "failing",
           "abandoning"}

\* Every variable has its type.
TypeOK ==
  /\ open \subseteq PRs
  /\ head \in [PRs -> Versions]
  /\ link \in [Collections -> {"active", "inactive", "absent"}]
  /\ targets \subseteq Collections
  /\ narrowed \in BOOLEAN
  /\ job \in Jobs
  /\ gen \in Generations
  /\ aged \in BOOLEAN
  /\ pub \subseteq Collections \X PRs
  /\ row \in [PRs -> Versions \cup {0}]
  /\ health \in Healths
  /\ pc \in Labels
  /\ claimed \in BOOLEAN
  /\ loaded \in [exists : BOOLEAN, completed : SUBSET PRs, pending : SUBSET PRs]
  /\ members \in MemberSets
  /\ payloads \in PayloadSets
  /\ delay \in Nat
  /\ caller \in {"none", "checked", "inserted", "coalesced"}
  /\ forceOwed \in {"no", "queued", "running"}
  /\ tickOwed \in {"no", "early", "late"}

\* A generation belongs to an active job, has no pending item once it has left
\* hydration, and its payloads bypassed the cache exactly when it was started
\* for a forced job, which then is still forced.
GenerationDiscipline ==
  gen.phase # "none" =>
    /\ job.status \in Active
    /\ DOMAIN gen.done \subseteq DOMAIN gen.ids
    /\ gen.phase \in {"progress", "publishing"} => Pending(gen) = {}
    /\ gen.forced => job.forced
    /\ \A p \in DOMAIN gen.done : gen.done[p].outcome = "bypass" <=> gen.forced

\* A snapshot published for a forced claim holds no payload that came out of
\* the cache, whatever was staged for the job before it was upgraded.
ForcedSnapshotIsUncached ==
  pc = "replacing" /\ claimed =>
    \A p \in DOMAIN payloads : payloads[p].outcome = "bypass"

\* A snapshot has a payload for every pull request of the last discovery: a
\* rediscovery that adds pull requests sends the generation back to hydration.
SnapshotCoversDiscovery ==
  pc = "replacing" /\ gen.phase # "none" => DOMAIN payloads = DOMAIN gen.ids

\* A completed item is what the repository shows for that pull request, from
\* the batch that published it to the end of the generation.
StagedContentIsVisible ==
  \A p \in DOMAIN gen.done : row[p] = gen.done[p].version

\* A forced request that found the job queued, or inserted it, is still going
\* to run forced: no claim, discard, retry or restart downgrades the job.
QueuedForceIsHonoured ==
  forceOwed = "queued" => job.status \in Active /\ job.forced

\* A forced request is still going to run forced, whenever it came.
ForcedRequestIsHonoured ==
  forceOwed # "no" => job.status \in Active /\ job.forced

RediscoveryIsDue ==
  job.status \in Active /\ (gen.phase # "none" => gen.rediscover)

\* A cron tick that came before the worker listed the pull requests, or loaded
\* a generation ready to be published, is still followed by a discovery.
EarlyTickIsServed == tickOwed = "early" => RediscoveryIsDue

\* The worker never ends the process with a storage error while no reload has
\* taken the repository out of a collection: every check of the store holds
\* under any order of ticks, requests, restarts and widening reloads.
OnlyNarrowingExits == pc = "exited" => narrowed

\* A membership leaves the view only because the collection dropped the
\* repository, or because a snapshot replaces it whose discovery did not list
\* the pull request for that collection.  In particular a batch removes nothing.
RemovalsWaitForSnapshot ==
  [][\A m \in pub \ pub' :
       \/ link'[m[1]] = "absent"
       \/ pc = "replacing" /\ pc' = "recording"
          /\ (gen.phase # "none" => m[2] \notin DOMAIN gen.ids
                                    \/ m[1] \notin gen.ids[m[2]])]_vars

\* A completed item is hydrated again only if the rediscovery no longer lists
\* it, the job was upgraded to forced, the repository left the configuration,
\* or the generation ended.  Restarts and retries keep it.
CompletedItemsSurvive ==
  [][\A p \in DOMAIN gen.done \ DOMAIN gen'.done :
       \/ pc = "discovered" /\ p \notin DOMAIN gen'.ids
       \/ pc = "discarding" /\ job.forced
       \/ pc \in {"abandoning", "completing"}
       \/ \A c \in Collections : link'[c] # "active"]_vars

=============================================================================
