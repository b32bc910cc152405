---------------------- MODULE RefreshGeneration_proofs ----------------------
(***************************************************************************)
(* Machine-checked proofs about RefreshGeneration, for every set of pull   *)
(* requests and collections, every batch size and every discovery plan.    *)
(***************************************************************************)
EXTENDS RefreshGeneration, FiniteSetTheorems, TLAPS

-----------------------------------------------------------------------------
(* Lemmas about the data *)

\* A partial function is a function whose domain is part of the set.
LEMMA PartialFunctionsDef ==
  ASSUME NEW S, NEW T, NEW f
  PROVE  f \in PartialFunctions(S, T) <=> DOMAIN f \subseteq S /\ f \in [DOMAIN f -> T]
<1>1. ASSUME f \in PartialFunctions(S, T)
      PROVE  DOMAIN f \subseteq S /\ f \in [DOMAIN f -> T]
  <2>1. PICK D \in SUBSET S : f \in [D -> T]
    BY <1>1 DEF PartialFunctions
  <2>. QED  BY <2>1
<1>2. ASSUME DOMAIN f \subseteq S, f \in [DOMAIN f -> T]
      PROVE  f \in PartialFunctions(S, T)
  BY <1>2 DEF PartialFunctions
<1>. QED  BY <1>1, <1>2

\* The empty generation and the worker's empty locals are partial functions.
LEMMA EmptyType == \A S, T : Empty \in PartialFunctions(S, T)
<1>. SUFFICES ASSUME NEW S, NEW T PROVE Empty \in PartialFunctions(S, T)
  OBVIOUS
<1>1. DOMAIN Empty = {} /\ Empty \in [{} -> T]
  BY DEF Empty
<1>. QED  BY <1>1, PartialFunctionsDef

\* Restricting the staged items keeps their type and their values.
LEMMA RestrictType ==
  ASSUME NEW S, NEW T, NEW f \in PartialFunctions(S, T), NEW D \in SUBSET DOMAIN f
  PROVE  /\ Restrict(f, D) \in PartialFunctions(S, T)
         /\ DOMAIN Restrict(f, D) = D
         /\ \A x \in D : Restrict(f, D)[x] = f[x]
<1>1. DOMAIN f \subseteq S /\ f \in [DOMAIN f -> T]
  BY PartialFunctionsDef
<1>2. DOMAIN Restrict(f, D) = D /\ Restrict(f, D) \in [D -> T]
  BY <1>1 DEF Restrict
<1>. QED  BY <1>1, <1>2, PartialFunctionsDef DEF Restrict

\* A job without a refresh_generations row is typed like one with it.
LEMMA NoGenerationType == NoGeneration \in Generations
BY EmptyType DEF NoGeneration, Generations, MemberSets, PayloadSets, Phases

\* An empty batch means that nothing is pending.
LEMMA EmptyBatch ==
  ASSUME NEW g \in Generations, g.phase = "hydrating", {} \in Batches(g)
  PROVE  Pending(g) = {}
<1>1. DOMAIN g.ids \subseteq PRs
  BY PartialFunctionsDef DEF Generations, MemberSets
<1>2. IsFiniteSet(Pending(g))
  BY <1>1, PRsAssumption, FS_Subset DEF Pending
<1>3. Cardinality(Pending(g)) \in Nat
  BY <1>2, FS_CardinalityType
<1>4. Cardinality(Pending(g)) = 0
  BY <1>3, FS_EmptySet, BatchSizeAssumption DEF Batches
<1>. QED  BY <1>2, <1>4, FS_EmptySet

\* A batch loads pending items only.
LEMMA BatchesPending ==
  ASSUME NEW g \in Generations, NEW b \in Batches(g)
  PROVE  b \subseteq Pending(g) /\ (b # {} => g.phase = "hydrating")
BY DEF Batches

-----------------------------------------------------------------------------
(* Type correctness *)

\* The initial state has the types.
LEMMA InitType == Init => TypeOK
<1>. SUFFICES ASSUME Init PROVE TypeOK
  OBVIOUS
<1>1. gen \in Generations
  BY NoGenerationType DEF Init
<1>2. members \in MemberSets /\ payloads \in PayloadSets
  BY EmptyType DEF Init, MemberSets, PayloadSets
<1>3. head \in [PRs -> Versions] /\ row \in [PRs -> Versions \cup {0}]
  BY MaxVersionAssumption DEF Init, Versions
<1>. QED
  BY <1>1, <1>2, <1>3, InitiallyInAssumption
  DEF Init, TypeOK, NoJob, Jobs, Healths, Labels, NotLoaded

\* What the types say about the generation: its items are pull requests.
LEMMA GenerationDomains ==
  ASSUME NEW g \in Generations
  PROVE  /\ DOMAIN g.ids \subseteq PRs /\ g.ids \in [DOMAIN g.ids -> SUBSET Collections]
         /\ DOMAIN g.done \subseteq PRs /\ g.done \in [DOMAIN g.done -> Payload]
         /\ g.ids \in MemberSets /\ g.done \in PayloadSets
         /\ Pending(g) \subseteq PRs
<1>1. g.ids \in MemberSets /\ g.done \in PayloadSets
  BY DEF Generations
<1>. QED  BY <1>1, PartialFunctionsDef DEF MemberSets, PayloadSets, Pending

\* What the worker has loaded concerns pull requests of the repository.
LEMMA MembersDomains ==
  ASSUME TypeOK
  PROVE  /\ DOMAIN members \subseteq PRs /\ members \in [DOMAIN members -> SUBSET Collections]
         /\ DOMAIN payloads \subseteq PRs /\ payloads \in [DOMAIN payloads -> Payload]
BY PartialFunctionsDef DEF TypeOK, MemberSets, PayloadSets

\* A generation is typed field by field.
LEMMA GenerationFields ==
  ASSUME NEW phase \in Phases, NEW forced \in BOOLEAN, NEW rediscover \in BOOLEAN,
         NEW retries \in Nat, NEW ids \in MemberSets, NEW done \in PayloadSets
  PROVE  [phase |-> phase, forced |-> forced, rediscover |-> rediscover,
          retries |-> retries, ids |-> ids, done |-> done] \in Generations
BY DEF Generations

\* Client.discover returns pull requests with collections of the configuration.
LEMMA DiscoveryType == TypeOK => Discovery \in MemberSets
<1>. SUFFICES ASSUME TypeOK PROVE Discovery \in MemberSets
  OBVIOUS
<1>1. DOMAIN Discovery \subseteq PRs /\ Discovery \in [DOMAIN Discovery -> SUBSET Collections]
  BY DEF TypeOK, Discovery, Matching
<1>. QED  BY <1>1, PartialFunctionsDef DEF MemberSets

\* The delay of a retry is a number of minutes.
LEMMA BackoffType == \A n \in Nat : Backoff(n + 1) \in Nat
BY DEF Backoff

\* Every action of the worker keeps the types.
LEMMA TypeWorkerStep == TypeOK /\ WorkerStep => TypeOK'
<1>. SUFFICES ASSUME TypeOK, WorkerStep PROVE TypeOK'
  OBVIOUS
<1>. USE DEF TypeOK, vars, github, config, tables, worker, promises, GoTo, Forget
<1>1. CASE Claim
  BY <1>1 DEF Claim, Jobs, Labels
<1>2. CASE RecordRunning
  BY <1>2 DEF RecordRunning, SetHealth, Healths, Labels
<1>3. CASE LoadGeneration
  <2>1. loaded' \in [exists : BOOLEAN, completed : SUBSET PRs, pending : SUBSET PRs]
    BY <1>3, GenerationDomains DEF LoadGeneration, Loaded, NotLoaded, Completed
  <2>2. pc' \in Labels
    BY <1>3 DEF LoadGeneration, NextUnit, UnitOf, Labels, Generations, Phases
  <2>. QED  BY <1>3, <2>1, <2>2 DEF LoadGeneration
<1>4. CASE DiscardGeneration
  BY <1>4, NoGenerationType DEF DiscardGeneration, NotLoaded, Labels
<1>5. CASE StartGeneration
  <2>1. gen' = [phase |-> "hydrating", forced |-> job.forced, rediscover |-> FALSE,
                retries |-> 0, ids |-> members, done |-> Empty]
    BY <1>5 DEF StartGeneration, NoGeneration
  <2>2. gen' \in Generations
    BY <2>1, GenerationFields, EmptyType DEF Jobs, Phases, PayloadSets
  <2>. QED  BY <1>5, <2>2 DEF StartGeneration, Labels
<1>6. CASE ReconcileGeneration
  <2>1. Restrict(gen.done, DOMAIN gen.done \cap DOMAIN members) \in PayloadSets
    BY GenerationDomains, RestrictType DEF PayloadSets
  <2>2. gen' \in Generations
    BY <1>6, <2>1 DEF ReconcileGeneration, Reconciled, Generations, Phases
  <2>. QED  BY <1>6, <2>2 DEF ReconcileGeneration, Labels
<1>7. CASE LoadBatch
  <2>1. PICK batch \in Batches(gen) :
          /\ members' = Restrict(gen.ids, batch)
          /\ pc' = IF batch = {} THEN "hydrated-all" ELSE "hydrating"
    BY <1>7 DEF LoadBatch
  <2>2. members' \in MemberSets
    BY <2>1, BatchesPending, GenerationDomains, RestrictType DEF MemberSets, Pending
  <2>. QED  BY <1>7, <2>1, <2>2 DEF LoadBatch, Labels
<1>8. CASE AdvanceToProgress
  BY <1>8 DEF AdvanceToProgress, Generations, Phases, Labels
<1>9. CASE PublishBatch
  <2>1. row' \in [PRs -> Versions \cup {0}]
    BY <1>9, MembersDomains DEF PublishBatch, UpsertedRows, Payload
  <2>2. pub' \subseteq Collections \X PRs
    BY <1>9, MembersDomains DEF PublishBatch, PublishedWith, BatchMemberships, Configured
  <2>3. [p \in DOMAIN gen.done \cup DOMAIN payloads |->
           IF p \in DOMAIN payloads THEN payloads[p] ELSE gen.done[p]] \in PayloadSets
    BY MembersDomains, GenerationDomains, PartialFunctionsDef DEF PayloadSets
  <2>4. gen' \in Generations
    BY <1>9, <2>3 DEF PublishBatch, Generations
  <2>. QED  BY <1>9, <2>1, <2>2, <2>4 DEF PublishBatch, Labels
<1>10. CASE AdvanceToPublishing
  BY <1>10 DEF AdvanceToPublishing, Generations, Phases, Labels
<1>11. CASE LoadStaged
  <2>. DEFINE D == Completed(gen)
  <2>1. D \in SUBSET DOMAIN gen.ids /\ D \in SUBSET DOMAIN gen.done
    BY DEF Completed
  <2>2. gen.ids \in MemberSets /\ gen.done \in PayloadSets
    BY GenerationDomains
  <2>3. members' = Restrict(gen.ids, D) /\ payloads' = Restrict(gen.done, D)
    BY <1>11 DEF LoadStaged
  <2>. HIDE DEF D
  <2>4. members' \in MemberSets
    BY <2>1, <2>2, <2>3, RestrictType DEF MemberSets
  <2>5. payloads' \in PayloadSets
    BY <2>1, <2>2, <2>3, RestrictType DEF PayloadSets
  <2>. QED  BY <1>11, <2>4, <2>5 DEF LoadStaged, Labels
<1>12. CASE SkipSnapshot
  BY <1>12 DEF SkipSnapshot, Labels
<1>13. CASE ReplaceSnapshot
  <2>1. row' \in [PRs -> Versions \cup {0}]
    BY <1>13, MembersDomains DEF ReplaceSnapshot, Payload
  <2>2. pub' \subseteq Collections \X PRs
    BY <1>13, MembersDomains DEF ReplaceSnapshot, SnapshotMemberships
  <2>. QED  BY <1>13, <2>1, <2>2 DEF ReplaceSnapshot, Labels, Healths
<1>14. CASE RecordProgress
  BY <1>14 DEF RecordProgress, Labels
<1>15. CASE CompleteJob
  BY <1>15, NoGenerationType, EmptyType
  DEF CompleteJob, NoJob, Jobs, NotLoaded, Labels, MemberSets, PayloadSets
<1>16. CASE RequeueJob
  BY <1>16, EmptyType DEF RequeueJob, Jobs, NotLoaded, Labels, MemberSets, PayloadSets
<1>17. CASE RecordRetry
  <2>1. delay' \in Nat
    BY <1>17, BackoffType DEF RecordRetry, Generations
  <2>2. gen' \in Generations
    BY <1>17 DEF RecordRetry, Generations
  <2>. QED  BY <1>17, <2>1, <2>2 DEF RecordRetry, Labels
<1>18. CASE RecordFailure
  BY <1>18 DEF RecordFailure, SetHealth, Healths, Labels
<1>19. CASE AbandonGeneration
  BY <1>19, NoGenerationType DEF AbandonGeneration, Labels
<1>20. CASE StorageError
  BY <1>20, EmptyType DEF StorageError, NotLoaded, Labels, MemberSets, PayloadSets
<1>. QED
  BY <1>1, <1>2, <1>3, <1>4, <1>5, <1>6, <1>7, <1>8, <1>9, <1>10, <1>11, <1>12,
     <1>13, <1>14, <1>15, <1>16, <1>17, <1>18, <1>19, <1>20 DEF WorkerStep

\* So does every other action.
LEMMA TypeStep == TypeOK /\ [Next]_vars => TypeOK'
<1>. SUFFICES ASSUME TypeOK, [Next]_vars PROVE TypeOK'
  OBVIOUS
<1>. USE DEF TypeOK, github, config, tables, worker, promises, GoTo, Forget
<1>1. CASE StartWorker
  BY <1>1, EmptyType
  DEF StartWorker, Recovered, Jobs, Configured, NotLoaded, Labels, MemberSets, PayloadSets
<1>2. CASE WorkerStep
  BY <1>2, TypeWorkerStep
<1>3. CASE DiscoveryReturns
  BY <1>3, DiscoveryType DEF DiscoveryReturns, Labels
<1>4. CASE HydrationReturns
  <2>1. DOMAIN payloads' \subseteq PRs /\ payloads' \in [DOMAIN payloads' -> Payload]
    BY <1>4, MembersDomains DEF HydrationReturns, Payload, Outcomes
  <2>2. payloads' \in PayloadSets
    BY <2>1, PartialFunctionsDef DEF PayloadSets
  <2>. QED  BY <1>4, <2>2 DEF HydrationReturns, Labels
<1>5. CASE ProgressReturns
  BY <1>5 DEF ProgressReturns, Labels
<1>6. CASE GitHubFails
  BY <1>6 DEF GitHubFails, DiscoveryRetry, GenerationRetry, RetriesExhausted,
              TerminalFailure, Labels
<1>7. CASE StopWorker
  BY <1>7, EmptyType DEF StopWorker, NotLoaded, Labels, MemberSets, PayloadSets
<1>8. CASE Request
  <2>1. CASE RequestForced
    BY <2>1 DEF RequestForced
  <2>2. CASE InsertForced
    <3>1. CASE job.status = "none"
      <4>1. job' = [status |-> "queued", forced |-> TRUE, wait |-> 0]
            /\ caller' = "inserted" /\ forceOwed' = "queued"
        BY <2>2, <3>1 DEF InsertForced
      <4>2. job' \in Jobs
        BY <4>1 DEF Jobs
      <4>. QED  BY <2>2, <4>1, <4>2 DEF InsertForced
    <3>2. CASE job.status # "none"
      BY <2>2, <3>2 DEF InsertForced, Jobs
    <3>. QED  BY <3>1, <3>2
  <2>3. CASE UpgradeForced
    <3>1. job' \in Jobs
      BY <2>3 DEF UpgradeForced, Upgraded, Jobs
    <3>. QED  BY <2>3, <3>1 DEF UpgradeForced
  <2>. QED  BY <1>8, <2>1, <2>2, <2>3 DEF Request
<1>9. CASE CronTick
  <2>1. gen' \in Generations
    BY <1>9 DEF CronTick, Requested, Generations
  <2>2. job' \in Jobs
    BY <1>9 DEF CronTick, NoJob, Jobs
  <2>. QED  BY <1>9, <2>1, <2>2 DEF CronTick
<1>10. CASE Reload
  <2>1. PICK with \in SUBSET Collections, without \in SUBSET Collections :
          SyncCollections(with, without)
    BY <1>10 DEF Reload
  <2>2. gen' \in Generations /\ job' \in Jobs /\ health' \in Healths
    <3>1. CASE with = {}
      <4>1. gen' = NoGeneration /\ health' = "absent"
            /\ job' = IF job.status = "queued" THEN NoJob ELSE job
        BY <2>1, <3>1 DEF SyncCollections
      <4>2. NoJob \in Jobs
        BY DEF NoJob, Jobs
      <4>. QED  BY <4>1, <4>2, NoGenerationType DEF Healths
    <3>2. CASE with # {}
      BY <2>1, <3>2 DEF SyncCollections, Healths
    <3>. QED  BY <3>1, <3>2
  <2>3. link' \in [Collections -> {"active", "inactive", "absent"}]
    BY <2>1 DEF SyncCollections
  <2>4. forceOwed' \in {"no", "queued", "running"} /\ tickOwed' \in {"no", "early", "late"}
    <3>1. CASE with = {}
      BY <2>1, <3>1 DEF SyncCollections
    <3>2. CASE with # {}
      BY <2>1, <3>2 DEF SyncCollections
    <3>. QED  BY <3>1, <3>2
  <2>. QED  BY <2>1, <2>2, <2>3, <2>4 DEF SyncCollections
<1>11. CASE DelayElapses
  BY <1>11 DEF DelayElapses, Jobs
<1>12. CASE AgeGeneration
  BY <1>12 DEF AgeGeneration
<1>13. CASE GitHubChanges
  BY <1>13, MaxVersionAssumption DEF GitHubChanges, OpenOrClose, Push, Versions
<1>14. CASE UNCHANGED vars
  BY <1>14 DEF vars
<1>. QED
  BY <1>1, <1>2, <1>3, <1>4, <1>5, <1>6, <1>7, <1>8, <1>9, <1>10, <1>11, <1>12,
     <1>13, <1>14 DEF Next, GitHubAnswers

\* Every variable keeps its type.
THEOREM TypeCorrect == Spec => []TypeOK
BY InitType, TypeStep, PTL DEF Spec

-----------------------------------------------------------------------------
(* The inductive invariant *)

Busy == Labels \ {"stopped", "idle", "exited"}

\* A worker in the middle of a step holds the running job, an idle one has no
\* running job (a stopped one may leave it behind); what it read of forced at
\* the claim can only be overtaken by an upgrade.
WorkerOwnsJob ==
  /\ pc \in Busy => job.status = "running" /\ (claimed => job.forced)
  /\ pc = "idle" => job.status # "running"

\* Without a generation nothing is staged.
NothingStaged == gen.phase = "none" => gen = NoGeneration

Dispatched == {"batching", "hydrating", "hydrated", "hydrated-all", "collecting",
               "collected", "staging", "replacing"}

\* What the worker's locals say of the generation, unless a reload has deleted
\* it under the worker.
WorkerKnowsGeneration ==
  /\ pc \in {"discovering", "discovered"} /\ ~loaded.exists => gen.phase = "none"
  /\ pc = "discarding" /\ gen.phase # "none" => gen.forced # claimed
  /\ pc \in Dispatched /\ gen.phase # "none" => gen.forced = claimed
  /\ pc = "hydrated-all" /\ gen.phase = "hydrating" => Pending(gen) = {}
  /\ pc = "hydrated" =>
       /\ DOMAIN payloads = DOMAIN members
       /\ \A p \in DOMAIN payloads : payloads[p].outcome = "bypass" <=> claimed
  /\ pc \in {"staging", "replacing"} /\ gen.phase # "none" => gen.phase = "publishing"
  /\ pc = "replacing" /\ gen.phase # "none" => members = gen.ids /\ payloads = gen.done
  /\ pc = "replacing" /\ claimed =>
       \A p \in DOMAIN payloads : payloads[p].outcome = "bypass"

\* A forced request that is owed to a queued job is known to the worker that
\* claims it, and is settled before the job completes.
ForceIsKnown ==
  forceOwed = "queued" =>
    /\ job.status \in Active /\ job.forced
    /\ pc \in Busy => claimed
    /\ pc \notin {"recording", "completing", "abandoning"}

\* A tick that came early is pending in the job's row or the generation's flag,
\* and no unit that would end the job has begun.
TickIsPending ==
  tickOwed = "early" =>
    /\ RediscoveryIsDue
    /\ pc \notin {"staging", "replacing", "recording", "completing", "abandoning"}

IInv ==
  /\ TypeOK
  /\ WorkerOwnsJob
  /\ NothingStaged
  /\ GenerationDiscipline
  /\ WorkerKnowsGeneration
  /\ StagedContentIsVisible
  /\ ForceIsKnown
  /\ TickIsPending

-----------------------------------------------------------------------------
(* Every step preserves the invariant, one lemma per part of it *)

\* The actions that write refresh_generations or its items.
GenerationStep ==
  \/ DiscardGeneration \/ StartGeneration \/ ReconcileGeneration \/ AdvanceToProgress
  \/ PublishBatch \/ AdvanceToPublishing \/ CompleteJob \/ RecordRetry
  \/ AbandonGeneration \/ CronTick \/ Reload

\* Every other action leaves the generation alone.
LEMMA GenerationFrame == [Next]_vars => UNCHANGED gen \/ GenerationStep
<1>. SUFFICES ASSUME [Next]_vars, ~GenerationStep PROVE UNCHANGED gen
  OBVIOUS
<1>. USE DEF tables
<1>1. CASE StartWorker \/ StopWorker \/ DelayElapses \/ AgeGeneration \/ UNCHANGED vars
  BY <1>1 DEF StartWorker, StopWorker, DelayElapses, AgeGeneration, vars
<1>2. CASE WorkerStep
  BY <1>2 DEF GenerationStep, WorkerStep, Claim, RecordRunning, LoadGeneration, LoadBatch,
      LoadStaged, SkipSnapshot, ReplaceSnapshot, RecordProgress, RequeueJob,
      RecordFailure, StorageError
<1>3. CASE GitHubAnswers \/ GitHubFails \/ GitHubChanges
  BY <1>3 DEF GitHubAnswers, DiscoveryReturns, HydrationReturns, ProgressReturns,
      GitHubFails, DiscoveryRetry, GenerationRetry, RetriesExhausted, TerminalFailure,
      GitHubChanges, OpenOrClose, Push
<1>4. CASE Request
  BY <1>4 DEF Request, RequestForced, InsertForced, UpgradeForced
<1>. QED
  BY <1>1, <1>2, <1>3, <1>4 DEF Next, GenerationStep

\* A reload leaves the worker alone; it either keeps the job, its generation and
\* the promises, or removes the repository: the generation, the job if it is
\* queued, and with them the promises.
LEMMA ReloadEffect ==
  Reload =>
    /\ UNCHANGED worker /\ UNCHANGED row
    /\ \/ UNCHANGED job /\ UNCHANGED gen /\ UNCHANGED promises
       \/ /\ gen' = NoGeneration /\ forceOwed' = "no" /\ tickOwed' = "no"
          /\ \/ job.status # "queued" /\ UNCHANGED job
             \/ job.status = "queued" /\ job' = NoJob
<1>. SUFFICES ASSUME NEW with, NEW without, SyncCollections(with, without)
     PROVE /\ UNCHANGED worker /\ UNCHANGED row
           /\ \/ UNCHANGED job /\ UNCHANGED gen /\ UNCHANGED promises
              \/ /\ gen' = NoGeneration /\ forceOwed' = "no" /\ tickOwed' = "no"
                 /\ \/ job.status # "queued" /\ UNCHANGED job
                    \/ job.status = "queued" /\ job' = NoJob
  BY DEF Reload
<1>1. UNCHANGED worker /\ UNCHANGED row
  BY DEF SyncCollections
<1>2. CASE with = {}
  <2>1. /\ job' = IF job.status = "queued" THEN NoJob ELSE job
        /\ gen' = NoGeneration /\ forceOwed' = "no" /\ tickOwed' = "no"
    BY <1>2 DEF SyncCollections
  <2>. QED  BY <1>1, <2>1
<1>3. CASE with # {}
  <2>1. UNCHANGED job /\ UNCHANGED gen /\ UNCHANGED promises
    BY <1>3 DEF SyncCollections
  <2>. QED  BY <1>1, <2>1
<1>. QED  BY <1>2, <1>3

\* A loaded generation selects its unit.
LEMMA NextUnitLabels ==
  TypeOK => NextUnit \in {"discovering", "discarding", "batching", "collecting", "staging"}
BY DEF TypeOK, Generations, Phases, NextUnit, UnitOf

\* The worker's hold on the job: Claim takes it, RequeueJob and CompleteJob give
\* it back, StopWorker leaves it running for RecoverRefreshJobs.
LEMMA OwnsStep == TypeOK /\ WorkerOwnsJob /\ [Next]_vars => WorkerOwnsJob'
<1>. SUFFICES ASSUME TypeOK, WorkerOwnsJob, [Next]_vars PROVE WorkerOwnsJob'
  OBVIOUS
<1>0. job \in Jobs /\ pc \in Labels /\ claimed \in BOOLEAN
  BY DEF TypeOK
<1>. USE DEF WorkerOwnsJob, Busy, tables, worker, GoTo, Forget
<1>1. CASE StartWorker
  BY <1>0, <1>1 DEF StartWorker, Recovered, Jobs, Labels
<1>2. CASE Claim
  BY <1>0, <1>2 DEF Claim, Jobs, Labels
<1>3. CASE RecordRunning \/ DiscardGeneration \/ StartGeneration
           \/ ReconcileGeneration \/ LoadBatch \/ AdvanceToProgress \/ PublishBatch
           \/ AdvanceToPublishing \/ LoadStaged \/ SkipSnapshot \/ ReplaceSnapshot
           \/ RecordProgress \/ RecordRetry \/ RecordFailure \/ AbandonGeneration
  <2>1. pc \in Busy /\ UNCHANGED <<job, claimed>>
    BY <1>3 DEF RecordRunning, DiscardGeneration, StartGeneration,
      ReconcileGeneration, LoadBatch, AdvanceToProgress, PublishBatch,
      AdvanceToPublishing, LoadStaged, SkipSnapshot, ReplaceSnapshot,
      RecordProgress, RecordRetry, RecordFailure, AbandonGeneration, Labels
  <2>2. pc' # "idle"
    BY <1>3 DEF RecordRunning, DiscardGeneration, StartGeneration,
      ReconcileGeneration, LoadBatch, AdvanceToProgress, PublishBatch,
      AdvanceToPublishing, LoadStaged, SkipSnapshot, ReplaceSnapshot,
      RecordProgress, RecordRetry, RecordFailure, AbandonGeneration
  <2>. QED  BY <2>1, <2>2
<1>12. CASE LoadGeneration
  BY <1>12, NextUnitLabels DEF LoadGeneration, Labels
<1>4. CASE CompleteJob
  BY <1>4 DEF CompleteJob, NoJob
<1>13. CASE RequeueJob
  BY <1>0, <1>13 DEF RequeueJob, Jobs
<1>14. CASE StorageError
  BY <1>14 DEF StorageError
<1>5. CASE GitHubAnswers \/ GitHubFails
  BY <1>5 DEF GitHubAnswers, DiscoveryReturns, HydrationReturns, ProgressReturns,
      GitHubFails, DiscoveryRetry, GenerationRetry, RetriesExhausted, TerminalFailure,
      InGitHubCall, Labels
<1>6. CASE StopWorker
  BY <1>6 DEF StopWorker
<1>7. CASE Request
  BY <1>0, <1>7 DEF Request, RequestForced, InsertForced, UpgradeForced, Upgraded,
                    Active, Jobs
<1>8. CASE CronTick
  BY <1>0, <1>8 DEF CronTick, NoJob, Jobs
<1>9. CASE Reload
  BY <1>9, ReloadEffect DEF NoJob, Labels
<1>10. CASE DelayElapses
  BY <1>0, <1>10 DEF DelayElapses, Jobs
<1>11. CASE AgeGeneration \/ GitHubChanges \/ UNCHANGED vars
  BY <1>11 DEF AgeGeneration, GitHubChanges, OpenOrClose, Push, vars
<1>. QED
  BY <1>1, <1>2, <1>3, <1>4, <1>5, <1>6, <1>7, <1>8, <1>9, <1>10, <1>11,
     <1>12, <1>13, <1>14 DEF Next, WorkerStep

\* An action either leaves the generation alone, starts it, deletes it, or keeps
\* it and updates it in one of the listed ways.
LEMMA NothingStagedStep == TypeOK /\ NothingStaged /\ [Next]_vars => NothingStaged'
<1>. SUFFICES ASSUME TypeOK, NothingStaged, [Next]_vars PROVE NothingStaged'
  OBVIOUS
<1>0. gen \in Generations
  BY DEF TypeOK
<1>. USE DEF NothingStaged
<1>1. CASE DiscardGeneration \/ CompleteJob \/ AbandonGeneration
  BY <1>1 DEF DiscardGeneration, CompleteJob, AbandonGeneration
<1>2. CASE StartGeneration \/ AdvanceToProgress \/ AdvanceToPublishing \/ PublishBatch
           \/ RecordRetry \/ ReconcileGeneration
  BY <1>0, <1>2 DEF StartGeneration, AdvanceToProgress, AdvanceToPublishing, PublishBatch,
      BatchPublishable, RecordRetry, ReconcileGeneration, Reconciled, Generations, NoGeneration
<1>3. CASE CronTick
  BY <1>0, <1>3 DEF CronTick, Requested, Generations
<1>4. CASE Reload
  BY <1>4, ReloadEffect
<1>5. CASE UNCHANGED gen
  BY <1>5
<1>. QED
  BY <1>1, <1>2, <1>3, <1>4, <1>5, GenerationFrame DEF GenerationStep

\* An active job stays active and keeps its forced flag until it completes or a
\* reload removes it.
LEMMA JobStays ==
  TypeOK /\ [Next]_vars /\ job.status \in Active =>
    \/ CompleteJob \/ Reload
    \/ job'.status \in Active /\ (job.forced => job'.forced)
<1>. SUFFICES ASSUME TypeOK, [Next]_vars, job.status \in Active, ~CompleteJob, ~Reload
     PROVE  job'.status \in Active /\ (job.forced => job'.forced)
  OBVIOUS
<1>0. job \in Jobs
  BY DEF TypeOK
<1>. USE DEF tables, Active
<1>1. CASE StartWorker
  BY <1>0, <1>1 DEF StartWorker, Recovered, Jobs
<1>2. CASE Claim \/ RequeueJob \/ DelayElapses
  BY <1>0, <1>2 DEF Claim, RequeueJob, DelayElapses, Jobs
<1>3. CASE Request
  BY <1>0, <1>3 DEF Request, RequestForced, InsertForced, UpgradeForced, Upgraded, Jobs
<1>4. CASE CronTick
  BY <1>4 DEF CronTick
<1>5. CASE WorkerStep /\ ~(Claim \/ RequeueJob)
  BY <1>5 DEF WorkerStep, RecordRunning, LoadGeneration, DiscardGeneration,
      StartGeneration, ReconcileGeneration, LoadBatch, AdvanceToProgress, PublishBatch,
      AdvanceToPublishing, LoadStaged, SkipSnapshot, ReplaceSnapshot, RecordProgress,
      RecordRetry, RecordFailure, AbandonGeneration, StorageError
<1>6. CASE GitHubAnswers \/ GitHubFails \/ GitHubChanges
  BY <1>6 DEF GitHubAnswers, DiscoveryReturns, HydrationReturns, ProgressReturns,
      GitHubFails, DiscoveryRetry, GenerationRetry, RetriesExhausted, TerminalFailure,
      GitHubChanges, OpenOrClose, Push
<1>7. CASE StopWorker \/ AgeGeneration \/ UNCHANGED vars
  BY <1>7 DEF StopWorker, AgeGeneration, vars
<1>. QED
  BY <1>1, <1>2, <1>3, <1>4, <1>5, <1>6, <1>7 DEF Next

\* The generation stays consistent with itself and with its job.
LEMMA DisciplineStep == IInv /\ [Next]_vars => GenerationDiscipline'
<1>. SUFFICES ASSUME IInv, [Next]_vars, gen'.phase # "none"
     PROVE  /\ job'.status \in Active
            /\ DOMAIN gen'.done \subseteq DOMAIN gen'.ids
            /\ gen'.phase \in {"progress", "publishing"} => Pending(gen') = {}
            /\ gen'.forced => job'.forced
            /\ \A p \in DOMAIN gen'.done : gen'.done[p].outcome = "bypass" <=> gen'.forced
  BY DEF GenerationDiscipline, Pending
<1>0. TypeOK /\ GenerationDiscipline /\ gen \in Generations /\ job \in Jobs
  BY DEF IInv, TypeOK
<1>1. CASE DiscardGeneration \/ CompleteJob \/ AbandonGeneration
  BY <1>1 DEF DiscardGeneration, CompleteJob, AbandonGeneration, NoGeneration
<1>2. CASE Reload
  <2>1. UNCHANGED job /\ UNCHANGED gen
    BY <1>2, ReloadEffect DEF NoGeneration
  <2>. QED  BY <1>0, <2>1 DEF GenerationDiscipline
<1>3. CASE StartGeneration
  BY <1>0, <1>3 DEF StartGeneration, NoGeneration, Empty, Active, Jobs, tables
<1>. SUFFICES ASSUME ~CompleteJob, ~Reload, ~StartGeneration, ~DiscardGeneration,
                     ~AbandonGeneration
     PROVE  /\ job'.status \in Active
            /\ DOMAIN gen'.done \subseteq DOMAIN gen'.ids
            /\ gen'.phase \in {"progress", "publishing"} => Pending(gen') = {}
            /\ gen'.forced => job'.forced
            /\ \A p \in DOMAIN gen'.done : gen'.done[p].outcome = "bypass" <=> gen'.forced
  BY <1>1, <1>2, <1>3
<1>4. gen.phase # "none" /\ gen'.forced = gen.forced
  <2>1. CASE ReconcileGeneration \/ AdvanceToProgress \/ AdvanceToPublishing \/ RecordRetry
    BY <1>0, <2>1 DEF ReconcileGeneration, Reconciled, AdvanceToProgress,
        AdvanceToPublishing, RecordRetry, Generations
  <2>2. CASE PublishBatch
    BY <1>0, <2>2 DEF PublishBatch, BatchPublishable, Generations
  <2>3. CASE CronTick
    BY <1>0, <2>3 DEF CronTick, Requested, Generations
  <2>. QED  BY <2>1, <2>2, <2>3, GenerationFrame DEF GenerationStep
<1>5. job'.status \in Active /\ (gen'.forced => job'.forced)
  BY <1>0, <1>4, JobStays DEF GenerationDiscipline
<1>6. CASE UNCHANGED gen \/ CronTick
  <2>1. gen'.phase = gen.phase /\ gen'.ids = gen.ids /\ gen'.done = gen.done
    BY <1>0, <1>6 DEF CronTick, Requested, Generations
  <2>. QED  BY <1>0, <1>4, <1>5, <2>1 DEF GenerationDiscipline, Pending
<1>7. CASE ReconcileGeneration
  <2>. DEFINE D == DOMAIN gen.done \cap DOMAIN members
  <2>1. gen'.phase = "hydrating" /\ gen'.ids = members /\ gen'.done = Restrict(gen.done, D)
    BY <1>0, <1>7 DEF ReconcileGeneration, Reconciled, Generations
  <2>2. DOMAIN gen'.done = D /\ \A p \in D : gen'.done[p] = gen.done[p]
    BY <2>1, <1>0, GenerationDomains, RestrictType DEF PayloadSets
  <2>. QED  BY <1>0, <1>4, <1>5, <2>1, <2>2 DEF GenerationDiscipline
<1>8. CASE AdvanceToProgress
  <2>1. Pending(gen) = {}
    BY <1>8 DEF IInv, WorkerKnowsGeneration, AdvanceToProgress
  <2>2. gen'.ids = gen.ids /\ gen'.done = gen.done
    BY <1>0, <1>8 DEF AdvanceToProgress, Generations
  <2>. QED  BY <1>0, <1>4, <1>5, <2>1, <2>2 DEF GenerationDiscipline, Pending
<1>9. CASE AdvanceToPublishing
  <2>1. gen.phase = "progress" /\ gen'.ids = gen.ids /\ gen'.done = gen.done
    BY <1>0, <1>9 DEF AdvanceToPublishing, Generations
  <2>. QED  BY <1>0, <1>4, <1>5, <2>1 DEF GenerationDiscipline, Pending
<1>10. CASE RecordRetry
  <2>1. gen'.phase = gen.phase /\ gen'.ids = gen.ids /\ gen'.done = gen.done
    BY <1>0, <1>10 DEF RecordRetry, Generations
  <2>. QED  BY <1>0, <1>4, <1>5, <2>1 DEF GenerationDiscipline, Pending
<1>11. CASE PublishBatch
  <2>1. /\ DOMAIN payloads = DOMAIN members
        /\ \A p \in DOMAIN payloads : payloads[p].outcome = "bypass" <=> gen.forced
    BY <1>4, <1>11 DEF IInv, WorkerKnowsGeneration, PublishBatch, Dispatched
  <2>2. DOMAIN members \subseteq DOMAIN gen.ids /\ gen'.phase = "hydrating"
    BY <1>0, <1>11 DEF PublishBatch, BatchPublishable, Pending, Generations
  <2>3. /\ gen'.ids = gen.ids
        /\ gen'.done = [p \in DOMAIN gen.done \cup DOMAIN payloads |->
                          IF p \in DOMAIN payloads THEN payloads[p] ELSE gen.done[p]]
    BY <1>0, <1>11 DEF PublishBatch, Generations
  <2>. QED  BY <1>0, <1>4, <1>5, <2>1, <2>2, <2>3 DEF GenerationDiscipline
<1>. QED
  BY <1>6, <1>7, <1>8, <1>9, <1>10, <1>11, GenerationFrame DEF GenerationStep

\* The steps of the worker that lead to a label at which it knows something of
\* the generation.
KnowingStep ==
  \/ LoadGeneration \/ DiscardGeneration \/ DiscoveryReturns \/ LoadBatch
  \/ HydrationReturns \/ ProgressReturns \/ LoadStaged

\* The worker's knowledge of the generation changes only where it calls out or loads.
LEMMA KnowingFrame ==
  [Next]_vars =>
    \/ KnowingStep
    \/ UNCHANGED worker /\ (UNCHANGED gen \/ CronTick \/ Reload)
    \/ pc' \notin Dispatched \cup {"discovering", "discovered", "discarding"}
<1>. SUFFICES ASSUME [Next]_vars, ~KnowingStep
     PROVE  \/ UNCHANGED worker /\ (UNCHANGED gen \/ CronTick \/ Reload)
            \/ pc' \notin Dispatched \cup {"discovering", "discovered", "discarding"}
  OBVIOUS
<1>. USE DEF Dispatched, GoTo, KnowingStep
<1>1. CASE StartWorker \/ StopWorker
  BY <1>1 DEF StartWorker, StopWorker
<1>2. CASE WorkerStep
  BY <1>2 DEF WorkerStep, Claim, RecordRunning, StartGeneration, ReconcileGeneration,
      AdvanceToProgress, PublishBatch, AdvanceToPublishing, SkipSnapshot,
      ReplaceSnapshot, RecordProgress, CompleteJob, RequeueJob, RecordRetry,
      RecordFailure, AbandonGeneration, StorageError
<1>3. CASE GitHubAnswers \/ GitHubFails
  BY <1>3 DEF GitHubAnswers, GitHubFails, DiscoveryRetry, GenerationRetry,
      RetriesExhausted, TerminalFailure
<1>4. CASE Request
  BY <1>4 DEF Request, RequestForced, InsertForced, UpgradeForced, tables
<1>5. CASE CronTick
  BY <1>5 DEF CronTick
<1>6. CASE Reload
  BY <1>6, ReloadEffect
<1>7. CASE DelayElapses \/ AgeGeneration \/ GitHubChanges \/ UNCHANGED vars
  BY <1>7 DEF DelayElapses, AgeGeneration, GitHubChanges, OpenOrClose, Push, vars, tables
<1>. QED  BY <1>1, <1>2, <1>3, <1>4, <1>5, <1>6, <1>7 DEF Next

\* The worker's locals keep agreeing with the generation: no unit begins before
\* the generation was compared with the claim, and nothing else moves it on.
LEMMA KnowsStep == IInv /\ [Next]_vars => WorkerKnowsGeneration'
<1>. SUFFICES ASSUME IInv, [Next]_vars PROVE WorkerKnowsGeneration'
  OBVIOUS
<1>0. /\ TypeOK /\ NothingStaged /\ GenerationDiscipline /\ WorkerKnowsGeneration
      /\ gen \in Generations /\ claimed \in BOOLEAN
  BY DEF IInv, TypeOK
<1>1. CASE pc' \notin Dispatched \cup {"discovering", "discovered", "discarding"}
  BY <1>1 DEF WorkerKnowsGeneration, Dispatched
<1>2. CASE UNCHANGED worker /\ UNCHANGED gen
  BY <1>0, <1>2 DEF worker, WorkerKnowsGeneration, Pending
<1>3. CASE UNCHANGED worker /\ CronTick
  <2>1. /\ gen'.phase = gen.phase /\ gen'.forced = gen.forced
        /\ gen'.ids = gen.ids /\ gen'.done = gen.done
    BY <1>0, <1>3 DEF CronTick, Requested, Generations
  <2>. QED  BY <1>0, <1>3, <2>1 DEF worker, WorkerKnowsGeneration, Pending
<1>4. CASE UNCHANGED worker /\ Reload
  <2>1. gen'.phase = "none" \/ UNCHANGED gen
    BY <1>4, ReloadEffect DEF NoGeneration
  <2>. QED  BY <1>0, <1>2, <1>4, <2>1 DEF worker, WorkerKnowsGeneration
<1>5. CASE LoadGeneration
  <2>1. UNCHANGED gen /\ UNCHANGED claimed /\ pc' = NextUnit
        /\ loaded' = IF gen.phase = "none" THEN NotLoaded ELSE Loaded(gen)
    BY <1>5 DEF LoadGeneration, tables
  <2>2. pc' \notin {"discovered", "hydrated-all", "hydrated", "replacing"}
    BY <1>0, <2>1, NextUnitLabels
  <2>3. pc' = "discovering" /\ ~loaded'.exists => gen.phase = "none"
    BY <2>1 DEF Loaded
  <2>4. pc' = "discarding" /\ gen.phase # "none" => gen.forced # claimed
    BY <1>0, <2>1, NextUnitLabels DEF NextUnit, UnitOf, Generations, Phases
  <2>5. pc' \in Dispatched /\ gen.phase # "none" => gen.forced = claimed
    BY <1>0, <2>1 DEF NextUnit, Dispatched
  <2>6. pc' = "staging" /\ gen.phase # "none" => gen.phase = "publishing"
    BY <1>0, <2>1 DEF NextUnit, UnitOf, Generations, Phases
  <2>. QED
    BY <2>1, <2>2, <2>3, <2>4, <2>5, <2>6 DEF WorkerKnowsGeneration
<1>6. CASE DiscardGeneration
  BY <1>6 DEF DiscardGeneration, NoGeneration, WorkerKnowsGeneration, Dispatched
<1>7. CASE DiscoveryReturns
  BY <1>0, <1>7 DEF DiscoveryReturns, tables, WorkerKnowsGeneration, Dispatched
<1>8. CASE LoadBatch
  <2>1. PICK batch \in Batches(gen) :
          pc' = IF batch = {} THEN "hydrated-all" ELSE "hydrating"
    BY <1>8 DEF LoadBatch
  <2>2. UNCHANGED <<gen, claimed>> /\ (gen.phase # "none" => gen.forced = claimed)
    BY <1>0, <1>8 DEF LoadBatch, tables, WorkerKnowsGeneration, Dispatched
  <2>3. pc' = "hydrated-all" /\ gen.phase = "hydrating" => Pending(gen) = {}
    BY <1>0, <2>1, EmptyBatch
  <2>4. pc' \in {"hydrating", "hydrated-all"}
    BY <2>1
  <2>. QED  BY <2>2, <2>3, <2>4 DEF WorkerKnowsGeneration, Pending
<1>9. CASE HydrationReturns
  <2>1. /\ DOMAIN payloads' = DOMAIN members' /\ UNCHANGED <<gen, claimed, members>>
        /\ \A p \in DOMAIN payloads' : payloads'[p].outcome = "bypass" <=> claimed
    BY <1>0, <1>9 DEF HydrationReturns, tables
  <2>2. pc = "hydrating" /\ pc' = "hydrated"
    BY <1>9 DEF HydrationReturns
  <2>. QED  BY <1>0, <2>1, <2>2 DEF WorkerKnowsGeneration, Dispatched
<1>10. CASE ProgressReturns
  BY <1>0, <1>10 DEF ProgressReturns, GoTo, tables, WorkerKnowsGeneration, Dispatched
<1>11. CASE LoadStaged
  <2>1. /\ pc = "staging" /\ pc' = "replacing" /\ UNCHANGED <<gen, claimed>>
        /\ members' = Restrict(gen.ids, Completed(gen))
        /\ payloads' = Restrict(gen.done, Completed(gen))
    BY <1>11 DEF LoadStaged, tables
  <2>2. gen.phase # "none" => gen.phase = "publishing" /\ gen.forced = claimed
    BY <1>0, <2>1 DEF WorkerKnowsGeneration, Dispatched
  <2>3. gen.phase = "none" => gen.ids = Empty /\ gen.done = Empty
    BY <1>0 DEF NothingStaged, NoGeneration
  <2>4. DOMAIN Empty = {}
    BY DEF Empty
  <2>5. Completed(gen) \subseteq DOMAIN gen.done /\ DOMAIN payloads' = Completed(gen)
        /\ \A p \in Completed(gen) : payloads'[p] = gen.done[p]
    BY <2>1 DEF Completed, Restrict
  <2>6. claimed => \A p \in DOMAIN payloads' : payloads'[p].outcome = "bypass"
    BY <1>0, <2>2, <2>3, <2>4, <2>5 DEF GenerationDiscipline
  <2>7. ASSUME gen.phase # "none" PROVE members' = gen.ids /\ payloads' = gen.done
    <3>1. Completed(gen) = DOMAIN gen.ids /\ Completed(gen) = DOMAIN gen.done
      BY <1>0, <2>2, <2>7 DEF GenerationDiscipline, Completed, Pending
    <3>2. /\ gen.ids \in [DOMAIN gen.ids -> SUBSET Collections]
          /\ gen.done \in [DOMAIN gen.done -> Payload]
      BY <1>0, GenerationDomains
    <3>. QED  BY <2>1, <3>1, <3>2 DEF Restrict
  <2>. QED  BY <2>1, <2>2, <2>6, <2>7 DEF WorkerKnowsGeneration
<1>. QED
  BY <1>1, <1>2, <1>3, <1>4, <1>5, <1>6, <1>7, <1>8, <1>9, <1>10, <1>11, KnowingFrame
  DEF KnowingStep

-----------------------------------------------------------------------------
(* Frames of the variables the rest of the invariant reads *)

\* Only a batch and a snapshot write pull request rows.
LEMMA RowFrame == [Next]_vars => UNCHANGED row \/ PublishBatch \/ ReplaceSnapshot
<1>. SUFFICES ASSUME [Next]_vars, ~PublishBatch, ~ReplaceSnapshot PROVE UNCHANGED row
  OBVIOUS
<1>. USE DEF tables
<1>1. CASE StartWorker \/ StopWorker \/ DelayElapses \/ AgeGeneration \/ CronTick
           \/ UNCHANGED vars
  BY <1>1 DEF StartWorker, StopWorker, DelayElapses, AgeGeneration, CronTick, vars
<1>2. CASE WorkerStep
  BY <1>2 DEF WorkerStep, Claim, RecordRunning, LoadGeneration, DiscardGeneration,
      StartGeneration, ReconcileGeneration, LoadBatch, AdvanceToProgress,
      AdvanceToPublishing, LoadStaged, SkipSnapshot, RecordProgress, CompleteJob,
      RequeueJob, RecordRetry, RecordFailure, AbandonGeneration, StorageError
<1>3. CASE GitHubAnswers \/ GitHubFails \/ GitHubChanges
  BY <1>3 DEF GitHubAnswers, DiscoveryReturns, HydrationReturns, ProgressReturns,
      GitHubFails, DiscoveryRetry, GenerationRetry, RetriesExhausted, TerminalFailure,
      GitHubChanges, OpenOrClose, Push
<1>4. CASE Request
  BY <1>4 DEF Request, RequestForced, InsertForced, UpgradeForced
<1>5. CASE Reload
  BY <1>5, ReloadEffect
<1>. QED  BY <1>1, <1>2, <1>3, <1>4, <1>5 DEF Next

\* Only requests promise a forced refresh to a queued job.
LEMMA ForceFrame ==
  [Next]_vars /\ ~InsertForced /\ ~UpgradeForced =>
    UNCHANGED forceOwed \/ forceOwed' = "no"
<1>. SUFFICES ASSUME [Next]_vars, ~InsertForced, ~UpgradeForced
     PROVE  UNCHANGED forceOwed \/ forceOwed' = "no"
  OBVIOUS
<1>. USE DEF promises
<1>1. CASE StartWorker \/ StopWorker \/ DelayElapses \/ AgeGeneration \/ CronTick
           \/ UNCHANGED vars \/ RequestForced
  BY <1>1 DEF StartWorker, StopWorker, DelayElapses, AgeGeneration, CronTick, vars,
      RequestForced
<1>2. CASE WorkerStep
  BY <1>2 DEF WorkerStep, Claim, RecordRunning, LoadGeneration, DiscardGeneration,
      StartGeneration, ReconcileGeneration, LoadBatch, AdvanceToProgress, PublishBatch,
      AdvanceToPublishing, LoadStaged, SkipSnapshot, ReplaceSnapshot, RecordProgress,
      CompleteJob, RequeueJob, RecordRetry, RecordFailure, AbandonGeneration, StorageError
<1>3. CASE GitHubAnswers \/ GitHubFails \/ GitHubChanges
  BY <1>3 DEF GitHubAnswers, DiscoveryReturns, HydrationReturns, ProgressReturns,
      GitHubFails, DiscoveryRetry, GenerationRetry, RetriesExhausted, TerminalFailure,
      GitHubChanges, OpenOrClose, Push
<1>4. CASE Reload
  BY <1>4, ReloadEffect
<1>. QED  BY <1>1, <1>2, <1>3, <1>4 DEF Next, Request

\* What the worker read of forced changes only between claims.
LEMMA ClaimFrame ==
  [Next]_vars =>
    \/ claimed' = claimed /\ (pc' \in Busy => pc \in Busy)
    \/ pc' \notin Busy
    \/ Claim /\ claimed' = job.forced
<1>. SUFFICES ASSUME [Next]_vars
     PROVE  \/ claimed' = claimed /\ (pc' \in Busy => pc \in Busy)
            \/ pc' \notin Busy
            \/ Claim /\ claimed' = job.forced
  OBVIOUS
<1>. USE DEF Busy, worker, GoTo
<1>1. CASE StartWorker \/ StopWorker
  BY <1>1 DEF StartWorker, StopWorker
<1>2. CASE Claim \/ CompleteJob \/ RequeueJob \/ StorageError
  BY <1>2 DEF Claim, CompleteJob, RequeueJob, StorageError
<1>3. CASE WorkerStep /\ ~(Claim \/ CompleteJob \/ RequeueJob \/ StorageError)
  BY <1>3 DEF WorkerStep, RecordRunning, LoadGeneration, DiscardGeneration,
      StartGeneration, ReconcileGeneration, LoadBatch, AdvanceToProgress, PublishBatch,
      AdvanceToPublishing, LoadStaged, SkipSnapshot, ReplaceSnapshot, RecordProgress,
      RecordRetry, RecordFailure, AbandonGeneration, Labels
<1>4. CASE GitHubAnswers \/ GitHubFails
  BY <1>4 DEF GitHubAnswers, DiscoveryReturns, HydrationReturns, ProgressReturns,
      GitHubFails, DiscoveryRetry, GenerationRetry, RetriesExhausted, TerminalFailure,
      InGitHubCall, Labels
<1>5. CASE Request \/ CronTick \/ DelayElapses \/ AgeGeneration \/ GitHubChanges
           \/ UNCHANGED vars
  BY <1>5 DEF Request, RequestForced, InsertForced, UpgradeForced, CronTick,
      DelayElapses, AgeGeneration, GitHubChanges, OpenOrClose, Push, vars
<1>6. CASE Reload
  BY <1>6, ReloadEffect
<1>. QED  BY <1>1, <1>2, <1>3, <1>4, <1>5, <1>6 DEF Next

\* The labels from which a job completes are entered only where the promises
\* are settled.
LEMMA SettlingFrame ==
  TypeOK /\ [Next]_vars =>
    \/ pc' \notin {"recording", "completing", "abandoning"}
    \/ pc \in {"recording", "completing", "abandoning"}
    \/ SkipSnapshot \/ ReplaceSnapshot \/ RecordFailure
<1>. SUFFICES ASSUME TypeOK, [Next]_vars, pc \notin {"recording", "completing", "abandoning"},
                     ~SkipSnapshot, ~ReplaceSnapshot, ~RecordFailure
     PROVE  pc' \notin {"recording", "completing", "abandoning"}
  OBVIOUS
<1>. USE DEF worker, GoTo
<1>1. CASE StartWorker \/ StopWorker
  BY <1>1 DEF StartWorker, StopWorker
<1>2. CASE LoadGeneration
  BY <1>2, NextUnitLabels DEF LoadGeneration
<1>3. CASE WorkerStep /\ ~LoadGeneration
  BY <1>3 DEF WorkerStep, Claim, RecordRunning, DiscardGeneration,
      StartGeneration, ReconcileGeneration, LoadBatch, AdvanceToProgress, PublishBatch,
      AdvanceToPublishing, LoadStaged, RecordProgress, CompleteJob, RequeueJob,
      RecordRetry, AbandonGeneration, StorageError
<1>4. CASE GitHubAnswers \/ GitHubFails
  BY <1>4 DEF GitHubAnswers, DiscoveryReturns, HydrationReturns, ProgressReturns,
      GitHubFails, DiscoveryRetry, GenerationRetry, RetriesExhausted, TerminalFailure
<1>5. CASE Request \/ CronTick \/ DelayElapses \/ AgeGeneration \/ GitHubChanges
           \/ UNCHANGED vars
  BY <1>5 DEF Request, RequestForced, InsertForced, UpgradeForced, CronTick,
      DelayElapses, AgeGeneration, GitHubChanges, OpenOrClose, Push, vars
<1>6. CASE Reload
  BY <1>6, ReloadEffect
<1>. QED  BY <1>1, <1>2, <1>3, <1>4, <1>5, <1>6 DEF Next


\* What a generation has completed is what the repository shows: only a batch
\* and a snapshot write pull request rows, and both write the staged payloads.
LEMMA VisibleStep == IInv /\ [Next]_vars => StagedContentIsVisible'
<1>. SUFFICES ASSUME IInv, [Next]_vars, NEW p \in DOMAIN gen'.done
     PROVE  row'[p] = gen'.done[p].version
  BY DEF StagedContentIsVisible
<1>0. /\ TypeOK /\ NothingStaged /\ GenerationDiscipline /\ WorkerKnowsGeneration
      /\ StagedContentIsVisible /\ gen \in Generations
  BY DEF IInv, TypeOK
<1>1. CASE gen' = NoGeneration
  BY <1>1 DEF NoGeneration, Empty
<1>2. CASE PublishBatch
  <2>1. /\ row' = [q \in PRs |-> IF q \in DOMAIN payloads THEN payloads[q].version ELSE row[q]]
        /\ gen'.done = [q \in DOMAIN gen.done \cup DOMAIN payloads |->
                          IF q \in DOMAIN payloads THEN payloads[q] ELSE gen.done[q]]
    BY <1>0, <1>2 DEF PublishBatch, UpsertedRows, Generations
  <2>2. p \in PRs
    BY <2>1, <1>0, MembersDomains, GenerationDomains
  <2>. QED  BY <1>0, <2>1, <2>2 DEF StagedContentIsVisible
<1>3. CASE ReplaceSnapshot
  <2>1. gen' = gen /\ pc = "replacing"
        /\ row' = [q \in PRs |-> IF q \in DOMAIN payloads THEN payloads[q].version ELSE 0]
    BY <1>3 DEF ReplaceSnapshot
  <2>2. gen.phase # "none"
    BY <1>0, <2>1 DEF NothingStaged, NoGeneration, Empty
  <2>3. payloads = gen.done
    BY <1>0, <2>1, <2>2 DEF WorkerKnowsGeneration
  <2>4. p \in PRs
    BY <1>0, <2>1, GenerationDomains
  <2>. QED  BY <2>1, <2>3, <2>4
<1>. SUFFICES ASSUME ~PublishBatch, ~ReplaceSnapshot, gen' # NoGeneration
     PROVE  p \in DOMAIN gen.done /\ gen'.done[p] = gen.done[p] /\ row' = row
  BY <1>0, <1>1, <1>2, <1>3 DEF StagedContentIsVisible
<1>4. UNCHANGED row
  BY RowFrame
<1>5. CASE ReconcileGeneration
  <2>. DEFINE D == DOMAIN gen.done \cap DOMAIN members
  <2>1. gen'.done = Restrict(gen.done, D)
    BY <1>0, <1>5 DEF ReconcileGeneration, Reconciled, Generations
  <2>. QED  BY <1>0, <1>4, <2>1, GenerationDomains, RestrictType DEF PayloadSets
<1>6. CASE StartGeneration
  BY <1>6 DEF StartGeneration, NoGeneration, Empty
<1>7. CASE DiscardGeneration \/ AbandonGeneration \/ CompleteJob
  BY <1>7 DEF DiscardGeneration, AbandonGeneration, CompleteJob
<1>8. CASE AdvanceToProgress \/ AdvanceToPublishing \/ RecordRetry
  BY <1>0, <1>4, <1>8 DEF AdvanceToProgress, AdvanceToPublishing, RecordRetry, Generations
<1>9. CASE CronTick
  BY <1>0, <1>4, <1>9 DEF CronTick, Requested, Generations
<1>10. CASE Reload \/ UNCHANGED gen
  BY <1>4, <1>10, ReloadEffect
<1>. QED
  BY <1>5, <1>6, <1>7, <1>8, <1>9, <1>10, GenerationFrame DEF GenerationStep

\* No claim, discard, retry or restart loses a forced request that is owed to a
\* queued job.
LEMMA ForceStep == IInv /\ [Next]_vars => ForceIsKnown'
<1>. SUFFICES ASSUME IInv, [Next]_vars, forceOwed' = "queued" PROVE ForceIsKnown'
  BY DEF ForceIsKnown
<1>0. TypeOK /\ WorkerOwnsJob /\ ForceIsKnown /\ job \in Jobs /\ pc \in Labels
      /\ claimed \in BOOLEAN
  BY DEF IInv, TypeOK
<1>1. CASE InsertForced
  <2>1. CASE job.status = "none"
    <3>1. job'.status = "queued" /\ job'.forced /\ UNCHANGED pc
      BY <1>1, <2>1 DEF InsertForced, worker
    <3>2. pc \notin Busy
      BY <1>0, <2>1 DEF WorkerOwnsJob
    <3>. QED  BY <1>0, <3>1, <3>2 DEF ForceIsKnown, Active, Busy, Labels
  <2>2. CASE job.status # "none"
    <3>1. UNCHANGED job /\ UNCHANGED pc /\ UNCHANGED claimed /\ UNCHANGED forceOwed
      BY <1>1, <2>2 DEF InsertForced, worker
    <3>. QED  BY <1>0, <3>1 DEF ForceIsKnown, Busy
  <2>. QED  BY <2>1, <2>2
<1>2. CASE UpgradeForced
  <2>1. UNCHANGED pc /\ UNCHANGED claimed /\ job' = Upgraded(job)
    BY <1>2 DEF UpgradeForced, worker
  <2>2. job.status \in Active => job'.status = job.status /\ job'.forced
    BY <1>0, <2>1 DEF Upgraded, Jobs
  <2>3. CASE forceOwed = "queued"
    BY <1>0, <2>1, <2>2, <2>3 DEF ForceIsKnown, Busy
  <2>4. CASE forceOwed # "queued"
    <3>1. job.status = "queued"
      BY <1>2, <2>4 DEF UpgradeForced
    <3>2. pc \notin Busy
      BY <1>0, <3>1 DEF WorkerOwnsJob
    <3>. QED  BY <1>0, <2>1, <2>2, <3>1, <3>2 DEF ForceIsKnown, Active, Busy, Labels
  <2>. QED  BY <2>3, <2>4
<1>. SUFFICES ASSUME ~InsertForced, ~UpgradeForced PROVE ForceIsKnown'
  BY <1>1, <1>2
<1>3. forceOwed = "queued"
  BY ForceFrame
<1>4. job.status \in Active /\ job.forced /\ (pc \in Busy => claimed)
      /\ pc \notin {"recording", "completing", "abandoning"}
  BY <1>0, <1>3 DEF ForceIsKnown
<1>5. CASE Reload
  <2>1. UNCHANGED worker /\ UNCHANGED job
    BY <1>5, ReloadEffect
  <2>. QED  BY <1>4, <2>1 DEF ForceIsKnown, worker, Busy
<1>6. ~CompleteJob
  BY <1>4 DEF CompleteJob
<1>7. CASE ~Reload
  <2>1. job'.status \in Active /\ job'.forced
    BY <1>0, <1>4, <1>6, <1>7, JobStays
  <2>2. pc' \in Busy => claimed'
    BY <1>0, <1>4, ClaimFrame DEF Claim
  <2>3. pc' \notin {"recording", "completing", "abandoning"}
    <3>1. ~SkipSnapshot /\ ~RecordFailure
      BY DEF SkipSnapshot, RecordFailure
    <3>2. ~ReplaceSnapshot
      BY <1>4 DEF ReplaceSnapshot, Busy, Labels
    <3>. QED  BY <1>0, <1>4, <3>1, <3>2, SettlingFrame
  <2>. QED  BY <2>1, <2>2, <2>3 DEF ForceIsKnown, Busy
<1>. QED  BY <1>5, <1>7

\* Only a cron tick promises a discovery.
LEMMA TickFrame ==
  [Next]_vars /\ ~CronTick => UNCHANGED tickOwed \/ tickOwed' = "no"
<1>. SUFFICES ASSUME [Next]_vars, ~CronTick PROVE UNCHANGED tickOwed \/ tickOwed' = "no"
  OBVIOUS
<1>. USE DEF promises
<1>1. CASE StartWorker \/ StopWorker \/ DelayElapses \/ AgeGeneration \/ Request
           \/ UNCHANGED vars
  BY <1>1 DEF StartWorker, StopWorker, DelayElapses, AgeGeneration, vars,
      Request, RequestForced, InsertForced, UpgradeForced
<1>2. CASE WorkerStep
  BY <1>2 DEF WorkerStep, Claim, RecordRunning, LoadGeneration, DiscardGeneration,
      StartGeneration, ReconcileGeneration, LoadBatch, AdvanceToProgress, PublishBatch,
      AdvanceToPublishing, LoadStaged, SkipSnapshot, ReplaceSnapshot, RecordProgress,
      CompleteJob, RequeueJob, RecordRetry, RecordFailure, AbandonGeneration, StorageError
<1>3. CASE GitHubAnswers \/ GitHubFails \/ GitHubChanges
  BY <1>3 DEF GitHubAnswers, DiscoveryReturns, HydrationReturns, ProgressReturns,
      GitHubFails, DiscoveryRetry, GenerationRetry, RetriesExhausted, TerminalFailure,
      GitHubChanges, OpenOrClose, Push
<1>4. CASE Reload
  BY <1>4, ReloadEffect
<1>. QED  BY <1>1, <1>2, <1>3, <1>4 DEF Next

\* A tick that came early stays pending until a discovery is recorded.
LEMMA TickStep == IInv /\ [Next]_vars => TickIsPending'
<1>. SUFFICES ASSUME IInv, [Next]_vars, tickOwed' = "early"
     PROVE  /\ job'.status \in Active
            /\ gen'.phase # "none" => gen'.rediscover
            /\ pc' \notin {"staging", "replacing", "recording", "completing", "abandoning"}
  BY DEF TickIsPending, RediscoveryIsDue
<1>0. TypeOK /\ WorkerOwnsJob /\ TickIsPending /\ job \in Jobs /\ gen \in Generations
  BY DEF IInv, TypeOK
<1>1. CASE CronTick
  <2>1. UNCHANGED pc /\ gen' = Requested(gen)
    BY <1>1 DEF CronTick, worker
  <2>2. gen'.phase # "none" => gen'.rediscover
    BY <1>0, <2>1 DEF Requested, Generations
  <2>3. CASE tickOwed = "early"
    <3>1. job.status \in Active /\ UNCHANGED job
      BY <1>0, <1>1, <2>3 DEF TickIsPending, RediscoveryIsDue, CronTick, Active
    <3>. QED  BY <1>0, <2>1, <2>2, <2>3, <3>1 DEF TickIsPending
  <2>4. CASE tickOwed # "early"
    <3>1. health # "absent" /\ pc \notin PastDiscovery
      BY <1>1, <2>4 DEF CronTick
    <3>2. job'.status \in Active
      BY <1>0, <1>1, <3>1 DEF CronTick, Jobs, NoJob, Active
    <3>. QED  BY <2>1, <2>2, <3>1, <3>2 DEF PastDiscovery
  <2>. QED  BY <2>3, <2>4
<1>2. CASE ~CronTick
  <2>1. tickOwed = "early"
    BY <1>2, TickFrame
  <2>2. /\ job.status \in Active /\ (gen.phase # "none" => gen.rediscover)
        /\ pc \notin {"staging", "replacing", "recording", "completing", "abandoning"}
    BY <1>0, <2>1 DEF TickIsPending, RediscoveryIsDue
  <2>3. CASE Reload
    <3>1. UNCHANGED worker /\ UNCHANGED job /\ UNCHANGED gen
      BY <2>3, ReloadEffect
    <3>. QED  BY <2>2, <3>1 DEF worker
  <2>4. CASE ~Reload
    <3>1. ~CompleteJob /\ ~AbandonGeneration /\ ~SkipSnapshot /\ ~ReplaceSnapshot
          /\ ~LoadStaged /\ ~RecordFailure /\ ~StartGeneration /\ ~ReconcileGeneration
      BY <2>2 DEF CompleteJob, AbandonGeneration, SkipSnapshot, ReplaceSnapshot,
          LoadStaged, RecordFailure, StartGeneration, ReconcileGeneration
    <3>2. job'.status \in Active
      BY <1>0, <2>2, <2>4, <3>1, JobStays
    <3>3. gen'.phase # "none" => gen'.rediscover
      <4>1. CASE UNCHANGED gen
        BY <2>2, <4>1
      <4>2. CASE DiscardGeneration
        BY <4>2 DEF DiscardGeneration, NoGeneration
      <4>3. CASE AdvanceToProgress \/ AdvanceToPublishing \/ RecordRetry
        BY <1>0, <2>2, <4>3 DEF AdvanceToProgress, AdvanceToPublishing, RecordRetry, Generations
      <4>4. CASE PublishBatch
        BY <1>0, <2>2, <4>4 DEF PublishBatch, BatchPublishable, Generations
      <4>. QED
        BY <1>2, <2>4, <3>1, <4>1, <4>2, <4>3, <4>4, GenerationFrame DEF GenerationStep
    <3>4. pc' \notin {"recording", "completing", "abandoning"}
      BY <1>0, <2>2, <3>1, SettlingFrame
    <3>5. pc' \notin {"staging", "replacing"}
      <4>1. CASE LoadGeneration
        BY <1>0, <2>2, <4>1 DEF LoadGeneration, NextUnit, UnitOf, Generations, Phases
      <4>2. CASE DiscardGeneration \/ DiscoveryReturns \/ LoadBatch \/ HydrationReturns
                 \/ ProgressReturns
        BY <4>2 DEF DiscardGeneration, DiscoveryReturns, LoadBatch, HydrationReturns,
            ProgressReturns, GoTo
      <4>3. CASE UNCHANGED worker
        BY <2>2, <4>3 DEF worker
      <4>. QED  BY <3>1, <4>1, <4>2, <4>3, KnowingFrame DEF KnowingStep, Dispatched
    <3>. QED  BY <3>2, <3>3, <3>4, <3>5
  <2>. QED  BY <2>3, <2>4
<1>. QED  BY <1>1, <1>2

-----------------------------------------------------------------------------
(* The theorems *)

\* The invariant is inductive.
LEMMA InvariantInit == Init => IInv
<1>. SUFFICES ASSUME Init PROVE IInv
  OBVIOUS
<1>1. TypeOK
  BY InitType
<1>2. gen = NoGeneration /\ job = NoJob /\ pc = "stopped" /\ forceOwed = "no" /\ tickOwed = "no"
  BY DEF Init
<1>3. gen.phase = "none" /\ DOMAIN gen.done = {}
  BY <1>2 DEF NoGeneration, Empty
<1>. QED
  BY <1>1, <1>2, <1>3
  DEF IInv, WorkerOwnsJob, NothingStaged, GenerationDiscipline, WorkerKnowsGeneration,
      StagedContentIsVisible, ForceIsKnown, TickIsPending, Busy, Dispatched

\* Every step keeps the invariant.
LEMMA InvariantStep == IInv /\ [Next]_vars => IInv'
<1>1. IInv => TypeOK /\ WorkerOwnsJob /\ NothingStaged
  BY DEF IInv
<1>. QED
  BY <1>1, TypeStep, OwnsStep, NothingStagedStep, DisciplineStep, KnowsStep, VisibleStep,
     ForceStep, TickStep DEF IInv

\* Whatever ticks, requests, reloads, failures and restarts come between the
\* units of the worker, the strengthened invariant of the refresh tables holds.
THEOREM InvariantHolds == Spec => []IInv
BY InvariantInit, InvariantStep, PTL DEF Spec

\* Whatever ticks, requests, reloads, failures and restarts come between its
\* units: a generation belongs to an active job, is not published while an item
\* is pending, and mixes no cached with uncached payloads.
THEOREM GenerationIsDisciplined == Spec => []GenerationDiscipline
<1>1. IInv => GenerationDiscipline
  BY DEF IInv
<1>. QED  BY <1>1, InvariantHolds, PTL

\* An upgrade to forced in the middle of a generation never lets a cached
\* payload into the snapshot that the forced claim publishes.
THEOREM ForcedSnapshots == Spec => []ForcedSnapshotIsUncached
<1>1. IInv => ForcedSnapshotIsUncached
  BY DEF IInv, WorkerKnowsGeneration, ForcedSnapshotIsUncached
<1>. QED  BY <1>1, InvariantHolds, PTL

\* A snapshot holds a payload for each pull request of the last discovery.
THEOREM SnapshotsCover == Spec => []SnapshotCoversDiscovery
<1>1. IInv => SnapshotCoversDiscovery
  <2>. SUFFICES ASSUME IInv, pc = "replacing", gen.phase # "none"
       PROVE  DOMAIN payloads = DOMAIN gen.ids
    BY DEF SnapshotCoversDiscovery
  <2>1. gen.phase = "publishing" /\ payloads = gen.done
    BY DEF IInv, WorkerKnowsGeneration
  <2>2. DOMAIN gen.done \subseteq DOMAIN gen.ids /\ Pending(gen) = {}
    BY <2>1 DEF IInv, GenerationDiscipline
  <2>. QED  BY <2>1, <2>2 DEF Pending
<1>. QED  BY <1>1, InvariantHolds, PTL

\* The repository shows exactly the completed payloads of the generation.
THEOREM StagedIsVisible == Spec => []StagedContentIsVisible
<1>1. IInv => StagedContentIsVisible
  BY DEF IInv
<1>. QED  BY <1>1, InvariantHolds, PTL

\* A forced request that found the job queued is never lost.
THEOREM QueuedForce == Spec => []QueuedForceIsHonoured
<1>1. IInv => QueuedForceIsHonoured
  BY DEF IInv, ForceIsKnown, QueuedForceIsHonoured
<1>. QED  BY <1>1, InvariantHolds, PTL

\* A cron tick that came before the worker listed the pull requests is never
\* lost.
THEOREM EarlyTick == Spec => []EarlyTickIsServed
<1>1. IInv => EarlyTickIsServed
  BY DEF IInv, TickIsPending, EarlyTickIsServed
<1>. QED  BY <1>1, InvariantHolds, PTL

\* No step discards completed work without one of the four reasons.
THEOREM CompletedWork == Spec => CompletedItemsSurvive
<1>1. IInv /\ [Next]_vars =>
        [\A p \in DOMAIN gen.done \ DOMAIN gen'.done :
           \/ pc = "discovered" /\ p \notin DOMAIN gen'.ids
           \/ pc = "discarding" /\ job.forced
           \/ pc \in {"abandoning", "completing"}
           \/ \A c \in Collections : link'[c] # "active"]_vars
  <2>. SUFFICES ASSUME IInv, [Next]_vars, NEW p \in DOMAIN gen.done, p \notin DOMAIN gen'.done
       PROVE  \/ pc = "discovered" /\ p \notin DOMAIN gen'.ids
              \/ pc = "discarding" /\ job.forced
              \/ pc \in {"abandoning", "completing"}
              \/ \A c \in Collections : link'[c] # "active"
    OBVIOUS
  <2>0. /\ TypeOK /\ WorkerOwnsJob /\ NothingStaged /\ GenerationDiscipline
        /\ WorkerKnowsGeneration /\ gen \in Generations /\ claimed \in BOOLEAN
    BY DEF IInv, TypeOK
  <2>1. gen.phase # "none"
    BY <2>0 DEF NothingStaged, NoGeneration, Empty
  <2>2. CASE DiscardGeneration
    <3>1. pc = "discarding" /\ pc \in Busy
      BY <2>2 DEF DiscardGeneration, Busy, Labels
    <3>2. gen.forced \/ claimed
      BY <2>0, <2>1, <3>1 DEF WorkerKnowsGeneration, Generations
    <3>. QED  BY <2>0, <2>1, <3>1, <3>2 DEF WorkerOwnsJob, GenerationDiscipline
  <2>3. CASE CompleteJob \/ AbandonGeneration
    BY <2>3 DEF CompleteJob, AbandonGeneration
  <2>4. ~StartGeneration
    BY <2>0, <2>1 DEF StartGeneration, WorkerKnowsGeneration
  <2>5. CASE ReconcileGeneration
    <3>. DEFINE D == DOMAIN gen.done \cap DOMAIN members
    <3>1. pc = "discovered" /\ gen'.ids = members /\ gen'.done = Restrict(gen.done, D)
      BY <2>0, <2>5 DEF ReconcileGeneration, Reconciled, Generations
    <3>2. DOMAIN gen'.done = D
      BY <3>1 DEF Restrict
    <3>. QED  BY <3>1, <3>2
  <2>6. CASE PublishBatch
    BY <2>0, <2>6 DEF PublishBatch, Generations
  <2>7. CASE AdvanceToProgress \/ AdvanceToPublishing \/ RecordRetry
    BY <2>0, <2>7 DEF AdvanceToProgress, AdvanceToPublishing, RecordRetry, Generations
  <2>8. CASE CronTick
    BY <2>0, <2>8 DEF CronTick, Requested, Generations
  <2>9. CASE Reload
    <3>1. PICK with, without : SyncCollections(with, without)
      BY <2>9 DEF Reload
    <3>2. CASE with = {}
      <4>1. \A c \in Collections : link'[c] =
              CASE c \in with -> "active"
                [] c \in without -> "absent"
                [] OTHER -> IF link[c] = "absent" THEN "absent" ELSE "inactive"
        BY <3>1 DEF SyncCollections
      <4>. QED  BY <3>2, <4>1
    <3>3. CASE with # {}
      BY <3>1, <3>3 DEF SyncCollections
    <3>. QED  BY <3>2, <3>3
  <2>. QED
    BY <2>2, <2>3, <2>4, <2>5, <2>6, <2>7, <2>8, <2>9, GenerationFrame DEF GenerationStep
<1>. QED  BY <1>1, InvariantHolds, PTL DEF Spec, CompletedItemsSurvive

\* Only a batch, a snapshot and a reload write memberships.
LEMMA MembershipFrame ==
  [Next]_vars => UNCHANGED pub \/ PublishBatch \/ ReplaceSnapshot \/ Reload
<1>. SUFFICES ASSUME [Next]_vars, ~PublishBatch, ~ReplaceSnapshot, ~Reload PROVE UNCHANGED pub
  OBVIOUS
<1>. USE DEF tables
<1>1. CASE StartWorker \/ StopWorker \/ DelayElapses \/ AgeGeneration \/ CronTick
           \/ UNCHANGED vars
  BY <1>1 DEF StartWorker, StopWorker, DelayElapses, AgeGeneration, CronTick, vars
<1>2. CASE WorkerStep
  BY <1>2 DEF WorkerStep, Claim, RecordRunning, LoadGeneration, DiscardGeneration,
      StartGeneration, ReconcileGeneration, LoadBatch, AdvanceToProgress,
      AdvanceToPublishing, LoadStaged, SkipSnapshot, RecordProgress, CompleteJob,
      RequeueJob, RecordRetry, RecordFailure, AbandonGeneration, StorageError
<1>3. CASE GitHubAnswers \/ GitHubFails \/ GitHubChanges
  BY <1>3 DEF GitHubAnswers, DiscoveryReturns, HydrationReturns, ProgressReturns,
      GitHubFails, DiscoveryRetry, GenerationRetry, RetriesExhausted, TerminalFailure,
      GitHubChanges, OpenOrClose, Push
<1>4. CASE Request
  BY <1>4 DEF Request, RequestForced, InsertForced, UpgradeForced
<1>. QED  BY <1>1, <1>2, <1>3, <1>4 DEF Next

\* A batch removes nothing from the view, and a snapshot removes only what its
\* discovery did not list.
THEOREM RemovalsWait == Spec => RemovalsWaitForSnapshot
<1>1. IInv /\ [Next]_vars =>
        [\A m \in pub \ pub' :
           \/ link'[m[1]] = "absent"
           \/ pc = "replacing" /\ pc' = "recording"
              /\ (gen.phase # "none" => m[2] \notin DOMAIN gen.ids
                                        \/ m[1] \notin gen.ids[m[2]])]_vars
  <2>. SUFFICES ASSUME IInv, [Next]_vars, NEW m \in pub, m \notin pub'
       PROVE  \/ link'[m[1]] = "absent"
              \/ pc = "replacing" /\ pc' = "recording"
                 /\ (gen.phase # "none" => m[2] \notin DOMAIN gen.ids
                                           \/ m[1] \notin gen.ids[m[2]])
    OBVIOUS
  <2>0. TypeOK /\ WorkerKnowsGeneration /\ m \in Collections \X PRs
    BY DEF IInv, TypeOK
  <2>1. ~PublishBatch
    BY DEF PublishBatch, PublishedWith
  <2>2. CASE ReplaceSnapshot
    <3>1. /\ pc = "replacing" /\ pc' = "recording"
          /\ pub' = {n \in Collections \X DOMAIN members : n[1] \in Destinations(n[2])}
      BY <2>2 DEF ReplaceSnapshot, SnapshotMemberships, GoTo
    <3>2. ASSUME gen.phase # "none", m[2] \in DOMAIN gen.ids, m[1] \in gen.ids[m[2]]
          PROVE  FALSE
      <4>1. members = gen.ids
        BY <2>0, <3>1, <3>2 DEF WorkerKnowsGeneration
      <4>2. m[1] \in Destinations(m[2]) /\ m \in Collections \X DOMAIN members
        BY <2>0, <3>2, <4>1 DEF Destinations
      <4>. QED  BY <3>1, <4>2
    <3>. QED  BY <3>1, <3>2
  <2>3. CASE Reload
    <3>1. PICK with, without \in SUBSET Collections :
            SyncCollections(with, without)
      BY <2>3 DEF Reload
    <3>2. m[1] \in without /\ m[1] \notin with /\ m[1] \in Collections
      BY <2>0, <3>1 DEF SyncCollections
    <3>3. link'[m[1]] = CASE m[1] \in with -> "active"
                          [] m[1] \in without -> "absent"
                          [] OTHER -> IF link[m[1]] = "absent" THEN "absent" ELSE "inactive"
      BY <3>1, <3>2 DEF SyncCollections
    <3>. QED  BY <3>2, <3>3
  <2>. QED  BY <2>1, <2>2, <2>3, MembershipFrame
<1>. QED  BY <1>1, InvariantHolds, PTL DEF Spec, RemovalsWaitForSnapshot


-----------------------------------------------------------------------------
(* While no reload has taken the repository out of a collection *)

\* Whatever a worker, its batch or the generation assigns to a collection is
\* still configured: a widening reload only adds collections.
AssignmentsAreConfigured ==
  /\ targets \subseteq Configured
  /\ \A p \in DOMAIN gen.ids : gen.ids[p] \subseteq Configured
  /\ \A p \in DOMAIN members : members[p] \subseteq Configured

\* A job, a health row and a request exist for configured repositories only, so
\* no reload finds one to remove.
ActivityIsConfigured ==
  job.status \in Active \/ health # "absent" \/ caller # "none" => Configured # {}

\* The generation is in the phase whose unit the worker does, as it loaded it,
\* until the unit itself changes it.
UnitAgrees ==
  /\ pc \in {"discovering", "discovered"} /\ loaded.exists => gen.phase # "none"
  /\ pc \in {"batching", "hydrated-all", "hydrating", "hydrated"} =>
       loaded.exists /\ gen.phase = "hydrating"
  /\ pc \in {"hydrating", "hydrated"} => DOMAIN members \subseteq Pending(gen)
  /\ pc \in {"collecting", "collected"} => loaded.exists /\ gen.phase = "progress"
  /\ pc = "staging" =>
       gen.phase = "publishing" /\ loaded.completed = Completed(gen) /\ loaded.pending = {}
  /\ pc = "retrying" => gen.phase # "none"

NoExitInv ==
  ~narrowed =>
    AssignmentsAreConfigured /\ ActivityIsConfigured /\ UnitAgrees /\ pc # "exited"

\* Only a reload changes which collections configure the repository.
LEMMA ConfigFrame == [Next]_vars => Reload \/ UNCHANGED <<link, narrowed>>
<1>. SUFFICES ASSUME [Next]_vars, ~Reload PROVE UNCHANGED <<link, narrowed>>
  OBVIOUS
<1>. USE DEF config
<1>1. CASE StartWorker \/ StopWorker \/ DelayElapses \/ AgeGeneration \/ CronTick
           \/ UNCHANGED vars
  BY <1>1 DEF StartWorker, StopWorker, DelayElapses, AgeGeneration, CronTick, vars
<1>2. CASE WorkerStep
  BY <1>2 DEF WorkerStep, Claim, RecordRunning, LoadGeneration, DiscardGeneration,
      StartGeneration, ReconcileGeneration, LoadBatch, AdvanceToProgress, PublishBatch,
      AdvanceToPublishing, LoadStaged, SkipSnapshot, ReplaceSnapshot, RecordProgress,
      CompleteJob, RequeueJob, RecordRetry, RecordFailure, AbandonGeneration, StorageError
<1>3. CASE GitHubAnswers \/ GitHubFails \/ GitHubChanges
  BY <1>3 DEF GitHubAnswers, DiscoveryReturns, HydrationReturns, ProgressReturns,
      GitHubFails, DiscoveryRetry, GenerationRetry, RetriesExhausted, TerminalFailure,
      GitHubChanges, OpenOrClose, Push
<1>4. CASE Request
  BY <1>4 DEF Request, RequestForced, InsertForced, UpgradeForced
<1>. QED  BY <1>1, <1>2, <1>3, <1>4 DEF Next

\* A client's plan is what was configured when its worker was built.
LEMMA TargetsFrame == [Next]_vars => StartWorker \/ UNCHANGED targets
<1>. SUFFICES ASSUME [Next]_vars, ~StartWorker PROVE UNCHANGED targets
  OBVIOUS
<1>. USE DEF config
<1>1. CASE StopWorker \/ DelayElapses \/ AgeGeneration \/ CronTick \/ Reload \/ UNCHANGED vars
  BY <1>1 DEF StopWorker, DelayElapses, AgeGeneration, CronTick, Reload, SyncCollections, vars
<1>2. CASE WorkerStep
  BY <1>2 DEF WorkerStep, Claim, RecordRunning, LoadGeneration, DiscardGeneration,
      StartGeneration, ReconcileGeneration, LoadBatch, AdvanceToProgress, PublishBatch,
      AdvanceToPublishing, LoadStaged, SkipSnapshot, ReplaceSnapshot, RecordProgress,
      CompleteJob, RequeueJob, RecordRetry, RecordFailure, AbandonGeneration, StorageError
<1>3. CASE GitHubAnswers \/ GitHubFails \/ GitHubChanges
  BY <1>3 DEF GitHubAnswers, DiscoveryReturns, HydrationReturns, ProgressReturns,
      GitHubFails, DiscoveryRetry, GenerationRetry, RetriesExhausted, TerminalFailure,
      GitHubChanges, OpenOrClose, Push
<1>4. CASE Request
  BY <1>4 DEF Request, RequestForced, InsertForced, UpgradeForced
<1>. QED  BY <1>1, <1>2, <1>3, <1>4 DEF Next

\* The worker's pull requests come from a discovery, a batch or the staged items.
LEMMA MembersFrame ==
  [Next]_vars =>
    DiscoveryReturns \/ LoadBatch \/ LoadStaged \/ members' = Empty \/ UNCHANGED members
<1>. SUFFICES ASSUME [Next]_vars, ~DiscoveryReturns, ~LoadBatch, ~LoadStaged
     PROVE  members' = Empty \/ UNCHANGED members
  OBVIOUS
<1>. USE DEF worker, GoTo, Forget
<1>1. CASE StartWorker \/ StopWorker \/ DelayElapses \/ AgeGeneration \/ CronTick
           \/ UNCHANGED vars
  BY <1>1 DEF StartWorker, StopWorker, DelayElapses, AgeGeneration, CronTick, vars
<1>2. CASE WorkerStep
  BY <1>2 DEF WorkerStep, Claim, RecordRunning, LoadGeneration, DiscardGeneration,
      StartGeneration, ReconcileGeneration, AdvanceToProgress, PublishBatch,
      AdvanceToPublishing, SkipSnapshot, ReplaceSnapshot, RecordProgress,
      CompleteJob, RequeueJob, RecordRetry, RecordFailure, AbandonGeneration, StorageError
<1>3. CASE GitHubAnswers \/ GitHubFails \/ GitHubChanges
  BY <1>3 DEF GitHubAnswers, HydrationReturns, ProgressReturns,
      GitHubFails, DiscoveryRetry, GenerationRetry, RetriesExhausted, TerminalFailure,
      GitHubChanges, OpenOrClose, Push
<1>4. CASE Request
  BY <1>4 DEF Request, RequestForced, InsertForced, UpgradeForced
<1>5. CASE Reload
  BY <1>5, ReloadEffect
<1>. QED  BY <1>1, <1>2, <1>3, <1>4, <1>5 DEF Next

\* A retry is recorded for a call that failed, and only an error of the store
\* ends the process.
LEMMA FailureFrame ==
  TypeOK /\ [Next]_vars =>
    /\ pc' = "retrying" => GenerationRetry \/ UNCHANGED pc
    /\ pc' = "exited" => StorageError \/ UNCHANGED pc
<1>. SUFFICES ASSUME TypeOK, [Next]_vars, ~GenerationRetry, ~StorageError, pc' # pc
     PROVE  pc' \notin {"retrying", "exited"}
  BY DEF StorageError, GenerationRetry, GoTo
<1>. USE DEF worker, GoTo
<1>1. CASE StartWorker \/ StopWorker \/ DelayElapses \/ AgeGeneration \/ CronTick
           \/ UNCHANGED vars
  BY <1>1 DEF StartWorker, StopWorker, DelayElapses, AgeGeneration, CronTick, vars
<1>2. CASE WorkerStep /\ ~LoadGeneration
  BY <1>2 DEF WorkerStep, Claim, RecordRunning, DiscardGeneration,
      StartGeneration, ReconcileGeneration, LoadBatch, AdvanceToProgress, PublishBatch,
      AdvanceToPublishing, LoadStaged, SkipSnapshot, ReplaceSnapshot, RecordProgress,
      CompleteJob, RequeueJob, RecordRetry, RecordFailure, AbandonGeneration
<1>3. CASE LoadGeneration
  BY <1>3, NextUnitLabels DEF LoadGeneration
<1>4. CASE GitHubAnswers \/ GitHubFails \/ GitHubChanges
  BY <1>4 DEF GitHubAnswers, DiscoveryReturns, HydrationReturns, ProgressReturns,
      GitHubFails, DiscoveryRetry, RetriesExhausted, TerminalFailure,
      GitHubChanges, OpenOrClose, Push
<1>5. CASE Request
  BY <1>5 DEF Request, RequestForced, InsertForced, UpgradeForced
<1>6. CASE Reload
  BY <1>6, ReloadEffect
<1>. QED  BY <1>1, <1>2, <1>3, <1>4, <1>5, <1>6 DEF Next

\* While nothing is narrowed, a reload adds collections and removes nothing.
LEMMA WideningReload ==
  ASSUME IInv, NoExitInv, Reload, ~narrowed'
  PROVE  /\ ~narrowed /\ Configured \subseteq Configured'
         /\ UNCHANGED worker /\ UNCHANGED gen
         /\ ActivityIsConfigured'
<1>. PICK with, without \in SUBSET Collections : SyncCollections(with, without)
  BY DEF Reload
<1>1. /\ with \cap without = {}
      /\ link' = [c \in Collections |->
           CASE c \in with -> "active"
             [] c \in without -> "absent"
             [] OTHER -> IF link[c] = "absent" THEN "absent" ELSE "inactive"]
      /\ narrowed' = (narrowed \/ ~(Configured \subseteq with))
      /\ UNCHANGED worker /\ UNCHANGED caller
  BY DEF SyncCollections
<1>2. ~narrowed /\ Configured \subseteq with
  BY <1>1
<1>3. \A c \in with : link'[c] = "active"
  BY <1>1
<1>4. with \subseteq Configured'
  BY <1>3 DEF Configured
<1>5. CASE with # {}
  <2>1. UNCHANGED gen
    BY <1>5 DEF SyncCollections
  <2>. QED  BY <1>1, <1>2, <1>4, <1>5, <2>1 DEF ActivityIsConfigured
<1>6. CASE with = {}
  <2>1. Configured = {} /\ job.status \notin Active /\ health = "absent" /\ caller = "none"
    BY <1>2, <1>6 DEF NoExitInv, ActivityIsConfigured
  <2>2. gen = NoGeneration
    BY <2>1 DEF IInv, GenerationDiscipline, NothingStaged
  <2>3. gen' = NoGeneration /\ health' = "absent" /\ UNCHANGED job
    BY <1>6, <2>1 DEF SyncCollections, Active
  <2>. QED  BY <1>1, <1>2, <2>1, <2>2, <2>3 DEF ActivityIsConfigured
<1>. QED  BY <1>5, <1>6

\* Every step keeps what is configured while nothing is narrowed.
LEMMA ConfiguredGrows ==
  ASSUME IInv, NoExitInv, [Next]_vars, ~narrowed'
  PROVE  ~narrowed /\ Configured \subseteq Configured'
<1>1. CASE Reload
  BY <1>1, WideningReload
<1>2. CASE UNCHANGED <<link, narrowed>>
  BY <1>2 DEF Configured
<1>. QED  BY <1>1, <1>2, ConfigFrame

\* A discovery assigns to the collections of the plan only, and what is staged
\* or loaded was assigned by a discovery.
LEMMA AssignmentsStep ==
  ASSUME IInv, NoExitInv, [Next]_vars, ~narrowed'
  PROVE  AssignmentsAreConfigured'
<1>0. /\ TypeOK /\ gen \in Generations /\ AssignmentsAreConfigured
      /\ Configured \subseteq Configured' /\ DOMAIN Empty = {}
  BY ConfiguredGrows DEF IInv, TypeOK, NoExitInv, Empty
<1>1. targets' \subseteq Configured'
  <2>1. CASE StartWorker
    <3>1. targets' = Configured
      BY <2>1 DEF StartWorker
    <3>. QED  BY <1>0, <3>1
  <2>2. CASE UNCHANGED targets
    BY <1>0, <2>2 DEF AssignmentsAreConfigured
  <2>. QED  BY <2>1, <2>2, TargetsFrame
<1>2. \A p \in DOMAIN gen'.ids : gen'.ids[p] \subseteq Configured'
  <2>1. CASE gen'.ids = gen.ids \/ gen'.ids = members
    BY <1>0, <2>1 DEF AssignmentsAreConfigured
  <2>2. CASE gen' = NoGeneration
    BY <1>0, <2>2 DEF NoGeneration
  <2>3. CASE DiscardGeneration \/ CompleteJob \/ AbandonGeneration
    BY <2>2, <2>3 DEF DiscardGeneration, CompleteJob, AbandonGeneration
  <2>4. CASE Reload
    BY <2>1, <2>4, WideningReload
  <2>5. CASE StartGeneration \/ ReconcileGeneration
    <3>1. gen'.ids = members
      BY <1>0, <2>5 DEF StartGeneration, NoGeneration, ReconcileGeneration, Reconciled, Generations
    <3>. QED  BY <2>1, <3>1
  <2>6. CASE AdvanceToProgress \/ PublishBatch \/ AdvanceToPublishing \/ RecordRetry \/ CronTick
    <3>1. gen'.ids = gen.ids
      BY <1>0, <2>6 DEF AdvanceToProgress, PublishBatch, AdvanceToPublishing, RecordRetry,
          CronTick, Requested, Generations
    <3>. QED  BY <2>1, <3>1
  <2>7. CASE UNCHANGED gen
    BY <2>1, <2>7
  <2>. QED  BY <2>3, <2>4, <2>5, <2>6, <2>7, GenerationFrame DEF GenerationStep
<1>3. \A p \in DOMAIN members' : members'[p] \subseteq Configured'
  <2>1. CASE DiscoveryReturns
    <3>1. members' = Discovery
      BY <2>1 DEF DiscoveryReturns
    <3>2. \A p \in DOMAIN members' : members'[p] \subseteq targets
      BY <3>1 DEF Discovery, Matching
    <3>. QED  BY <1>0, <3>2 DEF AssignmentsAreConfigured
  <2>2. CASE LoadBatch
    <3>1. PICK batch \in Batches(gen) : members' = Restrict(gen.ids, batch)
      BY <2>2 DEF LoadBatch
    <3>2. batch \subseteq DOMAIN gen.ids
      BY <1>0, BatchesPending DEF Pending
    <3>. QED  BY <1>0, <3>1, <3>2 DEF Restrict, AssignmentsAreConfigured
  <2>3. CASE LoadStaged
    <3>1. members' = Restrict(gen.ids, Completed(gen))
      BY <2>3 DEF LoadStaged
    <3>. QED  BY <1>0, <3>1 DEF Completed, Restrict, AssignmentsAreConfigured
  <2>4. CASE members' = Empty
    BY <1>0, <2>4
  <2>5. CASE UNCHANGED members
    BY <1>0, <2>5 DEF AssignmentsAreConfigured
  <2>. QED  BY <2>1, <2>2, <2>3, <2>4, <2>5, MembersFrame
<1>. QED  BY <1>1, <1>2, <1>3 DEF AssignmentsAreConfigured

\* Nothing begins for a repository that no collection configures.
LEMMA ActivityStep ==
  ASSUME IInv, NoExitInv, [Next]_vars, ~narrowed'
  PROVE  ActivityIsConfigured'
<1>0. TypeOK /\ job \in Jobs /\ ActivityIsConfigured /\ Configured \subseteq Configured'
  BY ConfiguredGrows DEF IInv, TypeOK, NoExitInv
<1>1. CASE Configured # {}
  BY <1>0, <1>1 DEF ActivityIsConfigured
<1>2. CASE Reload
  BY <1>2, WideningReload
<1>. SUFFICES ASSUME Configured = {}, ~Reload
     PROVE  job'.status \notin Active /\ health' = "absent" /\ caller' = "none"
  BY <1>1, <1>2 DEF ActivityIsConfigured
<1>3. job.status = "none" /\ health = "absent" /\ caller = "none" /\ pc \notin Busy
  BY <1>0 DEF IInv, WorkerOwnsJob, ActivityIsConfigured, Active, Jobs
<1>4. UNCHANGED <<job, health, caller>>
  <2>. USE DEF tables
  <2>1. CASE StartWorker
    BY <1>3, <2>1 DEF StartWorker, Recovered
  <2>2. CASE WorkerStep
    <3>1. CASE Claim
      BY <1>3, <3>1 DEF Claim
    <3>2. CASE ~Claim
      BY <1>3, <2>2, <3>2 DEF WorkerStep, RecordRunning, LoadGeneration, DiscardGeneration,
        StartGeneration, ReconcileGeneration, LoadBatch, AdvanceToProgress, PublishBatch,
        AdvanceToPublishing, LoadStaged, SkipSnapshot, ReplaceSnapshot, RecordProgress,
        CompleteJob, RequeueJob, RecordRetry, RecordFailure, AbandonGeneration, StorageError,
        Busy, Labels
    <3>. QED  BY <3>1, <3>2
  <2>3. CASE GitHubAnswers \/ GitHubFails \/ GitHubChanges
    BY <2>3 DEF GitHubAnswers, DiscoveryReturns, HydrationReturns, ProgressReturns,
        GitHubFails, DiscoveryRetry, GenerationRetry, RetriesExhausted, TerminalFailure,
        GitHubChanges, OpenOrClose, Push
  <2>4. CASE Request
    BY <1>3, <2>4 DEF Request, RequestForced, InsertForced, UpgradeForced
  <2>5. CASE CronTick
    BY <1>3, <2>5 DEF CronTick
  <2>6. CASE DelayElapses
    BY <1>3, <2>6 DEF DelayElapses
  <2>7. CASE StopWorker \/ AgeGeneration \/ UNCHANGED vars
    BY <2>7 DEF StopWorker, AgeGeneration, vars
  <2>. QED  BY <2>1, <2>2, <2>3, <2>4, <2>5, <2>6, <2>7 DEF Next
<1>. QED  BY <1>3, <1>4 DEF Active

\* The unit the worker does stays the one the generation asked for.
LEMMA UnitStep ==
  ASSUME IInv, NoExitInv, [Next]_vars, ~narrowed'
  PROVE  UnitAgrees'
<1>0. /\ TypeOK /\ gen \in Generations /\ GenerationDiscipline /\ UnitAgrees /\ ~narrowed
      /\ pc \in Labels
  BY ConfiguredGrows DEF IInv, TypeOK, NoExitInv
<1>. USE DEF Dispatched
<1>1. CASE UNCHANGED worker /\ UNCHANGED gen
  BY <1>0, <1>1 DEF worker, UnitAgrees, Pending, Completed
<1>2. CASE UNCHANGED worker /\ CronTick
  <2>1. gen'.phase = gen.phase /\ gen'.ids = gen.ids /\ gen'.done = gen.done
    BY <1>0, <1>2 DEF CronTick, Requested, Generations
  <2>. QED  BY <1>0, <1>2, <2>1 DEF worker, UnitAgrees, Pending, Completed
<1>3. CASE UNCHANGED worker /\ Reload
  BY <1>1, <1>3, WideningReload
<1>4. CASE pc' \notin Dispatched \cup {"discovering", "discovered", "discarding"}
  <2>1. pc' = "retrying" => gen'.phase # "none"
    <3>1. CASE GenerationRetry
      <4>1. UNCHANGED gen /\ pc \in InGitHubCall /\ loaded.exists
        BY <3>1 DEF GenerationRetry, RetryAllowed, tables
      <4>. QED  BY <1>0, <4>1 DEF UnitAgrees, InGitHubCall
    <3>2. CASE pc = "retrying" /\ pc' = pc
      <4>1. gen'.phase = gen.phase
        <5>1. CASE UNCHANGED gen
          BY <5>1
        <5>2. CASE CronTick
          BY <1>0, <5>2 DEF CronTick, Requested, Generations
        <5>3. CASE Reload
          BY <5>3, WideningReload
        <5>. QED
          BY <3>2, <5>1, <5>2, <5>3, GenerationFrame DEF GenerationStep, DiscardGeneration,
             StartGeneration, ReconcileGeneration, AdvanceToProgress, PublishBatch,
             AdvanceToPublishing, CompleteJob, RecordRetry, AbandonGeneration
      <4>. QED  BY <1>0, <3>2, <4>1 DEF UnitAgrees
    <3>. QED  BY <1>0, <3>1, <3>2, FailureFrame
  <2>. QED  BY <1>4, <2>1 DEF UnitAgrees
<1>5. CASE LoadGeneration
  <2>1. UNCHANGED gen /\ pc' = NextUnit
        /\ loaded' = IF gen.phase = "none" THEN NotLoaded ELSE Loaded(gen)
    BY <1>5 DEF LoadGeneration, tables
  <2>2. pc' \in {"discovering", "discarding", "batching", "collecting", "staging"}
    BY <1>0, <2>1, NextUnitLabels
  <2>3. gen.phase = "none" => pc' = "discovering" /\ ~loaded'.exists
    BY <2>1 DEF NextUnit, NotLoaded
  <2>4. gen.phase # "none" =>
          loaded'.exists /\ loaded'.completed = Completed(gen) /\ loaded'.pending = Pending(gen)
    BY <2>1 DEF Loaded
  <2>5. /\ pc' = "batching" => gen.phase = "hydrating"
        /\ pc' = "collecting" => gen.phase = "progress"
        /\ pc' = "staging" => gen.phase = "publishing"
    BY <1>0, <2>1 DEF NextUnit, UnitOf, Generations, Phases
  <2>6. gen.phase = "publishing" => Pending(gen) = {}
    BY <1>0 DEF GenerationDiscipline
  <2>. QED  BY <2>1, <2>2, <2>3, <2>4, <2>5, <2>6 DEF UnitAgrees, Completed
<1>6. CASE DiscardGeneration
  BY <1>6 DEF DiscardGeneration, NotLoaded, UnitAgrees
<1>7. CASE DiscoveryReturns
  BY <1>0, <1>7 DEF DiscoveryReturns, tables, UnitAgrees
<1>8. CASE LoadBatch
  <2>1. PICK batch \in Batches(gen) :
          /\ members' = Restrict(gen.ids, batch)
          /\ pc' = IF batch = {} THEN "hydrated-all" ELSE "hydrating"
    BY <1>8 DEF LoadBatch
  <2>2. UNCHANGED <<gen, loaded>> /\ loaded.exists /\ gen.phase = "hydrating"
    BY <1>0, <1>8 DEF LoadBatch, tables, UnitAgrees
  <2>3. DOMAIN members' = batch /\ batch \subseteq Pending(gen)
    BY <1>0, <2>1, BatchesPending DEF Restrict
  <2>4. pc' \in {"hydrating", "hydrated-all"}
    BY <2>1
  <2>. QED  BY <2>2, <2>3, <2>4 DEF UnitAgrees, Pending
<1>9. CASE HydrationReturns
  <2>1. pc = "hydrating" /\ pc' = "hydrated" /\ UNCHANGED <<gen, loaded, members>>
    BY <1>9 DEF HydrationReturns, tables
  <2>. QED  BY <1>0, <2>1 DEF UnitAgrees, Pending
<1>10. CASE ProgressReturns
  BY <1>0, <1>10 DEF ProgressReturns, GoTo, tables, UnitAgrees
<1>11. CASE LoadStaged
  BY <1>11 DEF LoadStaged, UnitAgrees
<1>. QED
  BY <1>1, <1>2, <1>3, <1>4, <1>5, <1>6, <1>7, <1>8, <1>9, <1>10, <1>11, KnowingFrame
  DEF KnowingStep

\* While nothing is narrowed every check of the store holds, so no error ends
\* the process.
LEMMA NoStorageError == IInv /\ NoExitInv /\ ~narrowed => ~StorageError
<1>. SUFFICES ASSUME IInv, NoExitInv, ~narrowed PROVE ~StorageError
  OBVIOUS
<1>0. AssignmentsAreConfigured /\ UnitAgrees
  BY DEF NoExitInv
<1>1. \A c \in Configured : link[c] = "active"
  BY DEF Configured
<1>2. pc = "hydrated" => BatchPublishable
  BY <1>0, <1>1 DEF UnitAgrees, AssignmentsAreConfigured, BatchPublishable
<1>3. pc = "staging" => StagedComplete
  BY <1>0 DEF UnitAgrees, StagedComplete
<1>4. SnapshotPublishable
  BY <1>0 DEF AssignmentsAreConfigured, SnapshotPublishable
<1>. QED  BY <1>0, <1>2, <1>3, <1>4 DEF StorageError, UnitAgrees

\* Initially only configured collections have anything, and nothing runs.
LEMMA NoExitInit == Init => NoExitInv
<1>. SUFFICES ASSUME Init PROVE NoExitInv
  OBVIOUS
<1>1. /\ DOMAIN gen.ids = {} /\ DOMAIN members = {} /\ targets = {} /\ pc = "stopped"
      /\ job.status = "none" /\ caller = "none"
  BY DEF Init, NoGeneration, Empty, NoJob
<1>2. health # "absent" => Configured # {}
  BY InitiallyInAssumption DEF Init, Configured
<1>. QED
  BY <1>1, <1>2 DEF NoExitInv, AssignmentsAreConfigured, ActivityIsConfigured, UnitAgrees, Active

\* Every step keeps it, with the invariant of the refresh tables.
LEMMA NoExitStep == IInv /\ NoExitInv /\ [Next]_vars => NoExitInv'
<1>. SUFFICES ASSUME IInv, NoExitInv, [Next]_vars, ~narrowed'
     PROVE  /\ AssignmentsAreConfigured' /\ ActivityIsConfigured' /\ UnitAgrees'
            /\ pc' # "exited"
  BY DEF NoExitInv
<1>1. ~narrowed /\ TypeOK
  BY ConfiguredGrows DEF IInv
<1>2. pc' # "exited"
  BY <1>1, NoStorageError, FailureFrame DEF NoExitInv
<1>. QED  BY <1>2, AssignmentsStep, ActivityStep, UnitStep

\* Under any order of ticks, requests, restarts and widening reloads, no check
\* of the store fails and ends the process: only a reload that takes the
\* repository out of a collection can make one fail.
THEOREM OnlyNarrowing == Spec => []OnlyNarrowingExits
<1>1. Spec => []NoExitInv
  BY NoExitInit, NoExitStep, InvariantHolds, PTL DEF Spec
<1>2. NoExitInv => OnlyNarrowingExits
  BY DEF NoExitInv, OnlyNarrowingExits
<1>. QED  BY <1>1, <1>2, PTL
=============================================================================
