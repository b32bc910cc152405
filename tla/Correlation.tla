----------------------------- MODULE Correlation -----------------------------
(***************************************************************************)
(* Feature correlation: the durable queue with one active job for each     *)
(* collection, the worker that asks a model provider, and then the         *)
(* fallback provider, which open pull requests compound into one feature,  *)
(* and the tables of the groups.  Supervision runs the worker, reloads the *)
(* configuration under it and asks for work on a schedule.                 *)
(*                                                                         *)
(* Granularity.  One Store transaction is one action.  The calls of one    *)
(* provider, one for each chunk of the collection, are one action: between *)
(* them the worker reads and writes nothing.                               *)
(*                                                                         *)
(* Data.  A pull request stands for all that correlation reads of it, so   *)
(* an input revision is the set of pull requests it was built from, and    *)
(* a group's identity (a hash of its members) is the set of its members.   *)
(* The provider names, the model and the retained payloads are left out,   *)
(* and so is the forced flag of a job, which the worker does not read.     *)
(***************************************************************************)
EXTENDS Naturals, FiniteSets

CONSTANTS Collections,
          NoCollection,
          PRs,               \* pull request numbers
          Cites,             \* Cites[p]: PRs that p's collected evidence calls closed
          Inputs,            \* the sets of open PRs a collection may show
          Configs,           \* the configurations an administrator may write
          ChunkSize,         \* MaxPullRequestsPerRequest
          HasFallback        \* collections with a model_fallback_provider

ASSUME NoCollectionAssumption == NoCollection \notin Collections
ASSUME PRsAssumption == PRs \subseteq Nat /\ IsFiniteSet(PRs)
ASSUME CitesAssumption == Cites \in [PRs -> SUBSET PRs]
ASSUME InputsAssumption == Inputs \subseteq SUBSET PRs
ASSUME ConfigsAssumption == Configs \subseteq [Collections -> {"on", "off", "removed"}]
ASSUME ChunkSizeAssumption == ChunkSize \in Nat \ {0}
ASSUME HasFallbackAssumption == HasFallback \subseteq Collections

VARIABLES
  \* Configuration tables and what refreshes publish
  mode,        \* mode[c]: "on", "off" (no feature_correlation), "removed"
  shown,       \* collection_pull_requests
  refreshing,  \* collections with an active refresh job
  \* Tables
  job,         \* the status of the active correlation_jobs row
  groups,      \* correlation_groups: [id, about], the input_revision
  state,       \* correlation_state: [status, about], the input_revision
  \* The worker: program counter, the claimed collection, the requests it built,
  \* the provider it asks and the groups of the chunks
  worker,
  errors       \* runtimeErrors: who returned an error

tables == <<job, groups, state>>

-----------------------------------------------------------------------------
(* Requests and answers *)

On == {c \in Collections : mode[c] = "on"}

\* BuildRequests sorts the pull requests and cuts them into chunks.
Rank(p, input) == Cardinality({q \in input : q < p})
Chunk(p, input) == {q \in input : Rank(q, input) \div ChunkSize = Rank(p, input) \div ChunkSize}
Chunks(input) == {Chunk(p, input) : p \in input}

\* KnownSources: the open pull requests of the chunk and the closed ones that
\* their evidence names.
Members(chunk) == chunk \cup UNION {Cites[p] : p \in chunk}

\* ValidateResponse: known members, two at least, one of them open.
ValidGroup(chunk, members) ==
  /\ members \subseteq Members(chunk)
  /\ Cardinality(members) >= 2
  /\ members \cap chunk # {}
Grouping(chunk) == {<<chunk, members>> : members \in {m \in SUBSET Members(chunk) : ValidGroup(chunk, m)}}

\* What a provider may answer for all chunks.  Bound: one group for a chunk.
Responses(input) ==
  {r \in SUBSET UNION {Grouping(k) : k \in Chunks(input)} :
     \A k \in Chunks(input) : Cardinality({g \in r : g[1] = k}) <= 1}

\* No group may appear in more than one chunk.
CollidesNever(response) == FALSE
Collides(response) == \E g, h \in response : g[1] # h[1] /\ g[2] = h[2]

WorkerStates ==
  [pc : {"down", "starting", "idle", "claimed", "asking", "answered", "failed", "finish", "stale",
         "enqueue", "ended"},
   c : Collections \cup {NoCollection}, input : Inputs \cup {{}}, provider : {1, 2},
   response : SUBSET ((SUBSET PRs) \X (SUBSET PRs))]
Down == [pc |-> "down", c |-> NoCollection, input |-> {}, provider |-> 1, response |-> {}]
At(pc) == [Down EXCEPT !.pc = pc]

CorrelationInit ==
  /\ mode = [c \in Collections |-> "off"]
  /\ shown \in [Collections -> Inputs]
  /\ refreshing = {}
  /\ job = [c \in Collections |-> "none"]
  /\ groups = [c \in Collections |-> {}]
  /\ state = [c \in Collections |-> [status |-> "never", about |-> {}]]
  /\ worker = Down
  /\ errors = {}

-----------------------------------------------------------------------------
(* The queue *)

\* EnqueueCollectionCorrelation of a collection that is active and enabled; an
\* active job coalesces the request.
Enqueued(c) == IF job[c] = "none" THEN [job EXCEPT ![c] = "queued"] ELSE job

\* RecoverCorrelationJobs
RecoveredNot == job
Recovered == [c \in Collections |-> IF job[c] = "running" THEN "queued" ELSE job[c]]

\* SyncCollections: a collection that is not listed becomes inactive and keeps
\* its groups; one without feature_correlation loses them.
WithdrawnFrom(modes) == {c \in Collections : modes[c] = "off"}
SyncCollections(modes) ==
  /\ mode' = modes
  /\ job' = [c \in Collections |->
               IF job[c] = "queued" /\ modes[c] # "on" THEN "none" ELSE job[c]]
  /\ groups' = [c \in Collections |-> IF c \in WithdrawnFrom(modes) THEN {} ELSE groups[c]]
  /\ UNCHANGED <<shown, refreshing, state>>

\* Refreshes publish batches and snapshots while their job is active.
BeginRefresh(c) ==
  /\ c \notin refreshing
  /\ refreshing' = refreshing \cup {c}
  /\ UNCHANGED <<mode, shown, tables, worker, errors>>

PublishPullRequests(c) ==
  /\ c \in refreshing
  /\ shown' \in {[shown EXCEPT ![c] = input] : input \in Inputs \ {shown[c]}}
  /\ UNCHANGED <<mode, refreshing, tables, worker, errors>>

EndRefresh(c) ==
  /\ c \in refreshing
  /\ refreshing' = refreshing \ {c}
  /\ UNCHANGED <<mode, shown, tables, worker, errors>>

-----------------------------------------------------------------------------
(* The worker: Run, RunOnce and process *)

GoTo(pc) == worker' = [worker EXCEPT !.pc = pc]

\* A Store method fails for good: Run returns the error to the manager.
Fail == worker' = At("ended") /\ errors' = errors \cup {"correlation"}

RunWorker ==
  /\ worker.pc = "starting"
  /\ worker' = At("idle")
  /\ job' = Recovered
  /\ UNCHANGED <<mode, shown, refreshing, groups, state, errors>>

\* ClaimCorrelation waits until no refresh of the collection is active.
ClaimCorrelation(c) ==
  /\ worker.pc = "idle" /\ job[c] = "queued" /\ c \in On \ refreshing
  /\ job' = [job EXCEPT ![c] = "running"]
  /\ worker' = [At("claimed") EXCEPT !.c = c]
  /\ UNCHANGED <<mode, shown, refreshing, groups, state, errors>>

\* BuildCorrelationRequests; without a pull request there is nothing to ask.
BuildRequests ==
  /\ worker.pc = "claimed"
  /\ LET input == shown[worker.c]
     IN worker' = [worker EXCEPT !.pc = IF input = {} THEN "answered" ELSE "asking",
                                 !.input = input]
  /\ UNCHANGED <<mode, shown, refreshing, tables, errors>>

\* Every chunk got a valid answer and no group is in two of them.
Correlate ==
  /\ worker.pc = "asking"
  /\ \E response \in Responses(worker.input) :
       /\ ~Collides(response)
       /\ worker' = [worker EXCEPT !.pc = "answered", !.response = response]
  /\ UNCHANGED <<mode, shown, refreshing, tables, errors>>

\* An error, an invalid answer or a group in two chunks: the fallback provider
\* starts again with the first chunk.
ProviderFailsAgain ==
  /\ worker.pc = "asking"
  /\ IF worker.c \in HasFallback
       THEN worker' = [worker EXCEPT !.provider = @ + 1]
       ELSE GoTo("failed")
  /\ UNCHANGED <<mode, shown, refreshing, tables, errors>>
ProviderFails ==
  /\ worker.pc = "asking"
  /\ IF worker.provider = 1 /\ worker.c \in HasFallback
       THEN worker' = [worker EXCEPT !.provider = 2]
       ELSE GoTo("failed")
  /\ UNCHANGED <<mode, shown, refreshing, tables, errors>>

\* What replaceCorrelationGroupsTx inserts; the key is the group's identity.
Rows(response) == {[id |-> g[2], about |-> worker.input] : g \in response}
KeyViolated(response) == \E g, h \in response : g # h /\ g[2] = h[2]

\* RecordCorrelationSuccess builds the requests again in its transaction.
InputsChangedNever == FALSE
InputsChanged == shown[worker.c] # worker.input

RecordSuccess ==
  /\ worker.pc = "answered"
  /\ ~InputsChanged
  /\ IF KeyViolated(worker.response)
       THEN Fail /\ UNCHANGED <<groups, state>>
       ELSE /\ groups' = [groups EXCEPT ![worker.c] = Rows(worker.response)]
            /\ state' = [state EXCEPT ![worker.c] = [status |-> "complete", about |-> worker.input]]
            /\ GoTo("finish")
            /\ UNCHANGED errors
  /\ UNCHANGED <<mode, shown, refreshing, job>>

\* ErrCorrelationInputsChanged
DiscardStale ==
  /\ worker.pc = "answered"
  /\ InputsChanged
  /\ GoTo("stale")
  /\ UNCHANGED <<mode, shown, refreshing, tables, errors>>

\* RecordCorrelationFailure keeps the groups.
RecordFailure ==
  /\ worker.pc = "failed"
  /\ state' = [state EXCEPT ![worker.c].status = "failed"]
  /\ GoTo("finish")
  /\ UNCHANGED <<mode, shown, refreshing, job, groups, errors>>

\* CompleteCorrelationJob; after stale inputs a second transaction enqueues the
\* collection again, which fails if a reload has disabled it.
CompleteJob ==
  /\ worker.pc \in {"finish", "stale"}
  /\ job' = [job EXCEPT ![worker.c] = "none"]
  /\ worker' = IF worker.pc = "finish" THEN At("idle") ELSE [worker EXCEPT !.pc = "enqueue"]
  /\ UNCHANGED <<mode, shown, refreshing, groups, state, errors>>

EnqueueAgain ==
  /\ worker.pc = "enqueue"
  /\ \/ worker.c \in On /\ job' = Enqueued(worker.c) /\ worker' = At("idle") /\ UNCHANGED errors
     \/ worker.c \notin On /\ Fail /\ UNCHANGED job
  /\ UNCHANGED <<mode, shown, refreshing, groups, state>>

Answers == Correlate \/ ProviderFails
Writes == RecordSuccess \/ DiscardStale \/ RecordFailure \/ CompleteJob \/ EnqueueAgain

-----------------------------------------------------------------------------
(* The promise *)

\* The valid sets of groups for an input: of each chunk, and no group twice.
ValidGroups(input) == {{g[2] : g \in r} : r \in {s \in Responses(input) : ~Collides(s)}}

Promise == INSTANCE PublishedGroups WITH Answers <- ValidGroups
=============================================================================
