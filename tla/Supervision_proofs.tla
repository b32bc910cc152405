------------------------- MODULE Supervision_proofs -------------------------
(***************************************************************************)
(* Machine-checked proofs about Correlation and Supervision, for every set *)
(* of collections and pull requests, every size of a chunk, every set of   *)
(* configurations and any number of reloads at a time.                     *)
(***************************************************************************)
EXTENDS Supervision, FiniteSetTheorems, TLAPS

-----------------------------------------------------------------------------
(* The inductive invariant *)

\* From a claim to the completion of its job the worker has a collection.
Busy == {"claimed", "asking", "answered", "failed", "finish", "stale", "enqueue"}
WorkerClaims ==
  /\ worker.pc \in Busy => worker.c \in Collections
  /\ worker.pc = "claimed" => worker.response = {}

\* What the worker is about to record was validated for what it has read.
AnswerIsValid ==
  worker.pc = "answered" =>
    worker.response \in Responses(worker.input) /\ ~Collides(worker.response)

\* A process that is down left nothing in memory.
DownIsClean ==
  process = "down" =>
    /\ worker = Down /\ errors = {} /\ schedules = NoSchedules /\ reloaded = FALSE
    /\ \A t \in Threads : thread[t].pc = "idle"

\* Until a reload begins, what runs is about collections that want correlation.
BeforeReload ==
  ~reloaded =>
    /\ errors = {}
    /\ \A t \in Reloaders : thread[t].pc = "idle"
    /\ thread["main"].pc \in {"idle", "initializing"}
    /\ thread["main"].pc = "initializing" => schedules = NoSchedules /\ thread["main"].next = mode
    /\ schedules.entries \subseteq On /\ schedules.due \subseteq On
    /\ worker.pc \in Busy => worker.c \in On

IInv == TypeOK /\ WorkerClaims /\ AnswerIsValid /\ DownIsClean /\ BeforeReload

-----------------------------------------------------------------------------
(* Lemmas about responses *)

\* A response groups pull requests.
LEMMA ResponseType ==
  ASSUME NEW input \in Inputs \cup {{}}, NEW response \in Responses(input)
  PROVE  response \in SUBSET ((SUBSET PRs) \X (SUBSET PRs))
<1>1. SUFFICES ASSUME NEW g \in response
               PROVE  g \in (SUBSET PRs) \X (SUBSET PRs)
  OBVIOUS
<1>2. PICK chunk \in Chunks(input) : g \in Grouping(chunk)
  BY DEF Responses
<1>3. input \subseteq PRs
  BY InputsAssumption
<1>4. chunk \in SUBSET PRs
  BY <1>2, <1>3 DEF Chunks, Chunk
<1>5. Members(chunk) \in SUBSET PRs
  BY <1>4, CitesAssumption DEF Members
<1>6. PICK members \in SUBSET Members(chunk) : g = <<chunk, members>>
  BY <1>2 DEF Grouping
<1>7. members \in SUBSET PRs
  BY <1>5, <1>6
<1> QED BY <1>4, <1>6, <1>7

\* Without pull requests the answer is that there are no groups.
LEMMA EmptyResponse == {} \in Responses({}) /\ ~Collides({})
BY DEF Responses, Chunks, Collides

\* A valid response violates no key: within a chunk there is one group, and no
\* group is in two chunks.
LEMMA ValidResponseHasKeys ==
  ASSUME NEW input \in Inputs \cup {{}}, NEW response \in Responses(input), ~Collides(response)
  PROVE  ~KeyViolated(response)
<1>1. SUFFICES ASSUME NEW g \in response, NEW h \in response, g # h, g[2] = h[2]
               PROVE  FALSE
  BY DEF KeyViolated
<1>2. g[1] = h[1]
  BY <1>1 DEF Collides
<1>3. PICK chunk \in Chunks(input) : g \in Grouping(chunk)
  BY DEF Responses
<1> DEFINE Same == {x \in response : x[1] = chunk}
<1>4. g \in Same /\ h \in Same
  <2>1. g[1] = chunk
    BY <1>3 DEF Grouping
  <2> QED BY <2>1, <1>2
<1>5. IsFiniteSet(Same)
  <2>1. IsFiniteSet((SUBSET PRs) \X (SUBSET PRs))
    BY PRsAssumption, FS_SUBSET, FS_Product
  <2>2. Same \in SUBSET ((SUBSET PRs) \X (SUBSET PRs))
    BY ResponseType
  <2> HIDE DEF Same
  <2> QED BY <2>1, <2>2, FS_Subset
<1>6. Cardinality(Same) <= 1
  BY DEF Responses
<1>7. Cardinality({g, h}) = 2
  <2>1. IsFiniteSet({g}) /\ Cardinality({g}) = 1
    BY FS_Singleton
  <2>2. Cardinality({g} \cup {h}) = 2
    <3>1. h \notin {g}
      BY <1>1
    <3>2. Cardinality({g} \cup {h}) = Cardinality({g}) + 1
      BY <2>1, <3>1, FS_AddElement, Zenon
    <3> QED BY <2>1, <3>2
  <2>3. {g, h} = {g} \cup {h}
    OBVIOUS
  <2> QED BY <2>2, <2>3
<1>8. {g, h} \in SUBSET Same
  BY <1>4
<1> HIDE DEF Same
<1>9. Cardinality({g, h}) <= Cardinality(Same)
  BY <1>5, <1>8, FS_Subset
<1>10. Cardinality(Same) \in Nat
  BY <1>5, FS_CardinalityType
<1> QED BY <1>6, <1>7, <1>9, <1>10

\* The worker between two jobs.
LEMMA AtTypes ==
  /\ \A pc \in {"starting", "idle", "claimed", "ended"} : At(pc) \in WorkerStates
  /\ \A pc \in {"starting", "idle", "ended"} : At(pc).pc = pc
  /\ Down \in WorkerStates /\ Down.pc = "down"
BY DEF At, Down, WorkerStates

\* A thread without a reload.
LEMMA IdleTypes == Idle \in ThreadStates /\ Idle.pc = "idle" /\ Idle.next = [c \in Collections |-> "off"]
BY DEF Idle, ThreadStates

-----------------------------------------------------------------------------
(* IInv is inductive *)

\* The process is down and nothing was configured.
LEMMA InvariantInit == Init => IInv
<1> SUFFICES ASSUME Init PROVE IInv
  OBVIOUS
<1> USE AtTypes, IdleTypes DEF Init, CorrelationInit
<1>1. TypeOK
  BY DEF TypeOK, NoSchedules
<1>2. WorkerClaims /\ AnswerIsValid
  BY DEF WorkerClaims, AnswerIsValid, Busy
<1>3. DownIsClean
  BY DEF DownIsClean
<1>4. BeforeReload
  BY DEF BeforeReload, NoSchedules, Busy, Threads
<1> QED BY <1>1, <1>2, <1>3, <1>4 DEF IInv

\* What the worker does, and nobody else.
LEMMA InvariantWorkerStep == IInv /\ WorkerStep => IInv'
<1> SUFFICES ASSUME IInv, WorkerStep PROVE IInv'
  OBVIOUS
<1> USE AtTypes DEF IInv, supervision, history
<1>a. UNCHANGED <<mode, shown, refreshing>> /\ UNCHANGED supervision
  BY DEF WorkerStep, RunWorker, BuildRequests, Answers, Correlate, ProviderFails, Writes,
         RecordSuccess, DiscardStale, RecordFailure, CompleteJob, EnqueueAgain
<1>b. process # "down"
  BY DEF DownIsClean, WorkerStep, RunWorker, BuildRequests, Answers, Correlate, ProviderFails,
         Writes, RecordSuccess, DiscardStale, RecordFailure, CompleteJob, EnqueueAgain
<1>c. DownIsClean'
  BY <1>a, <1>b DEF DownIsClean
<1>1. CASE RunWorker
  <2>1. TypeOK'
    BY <1>1, <1>a DEF RunWorker, TypeOK, Recovered
  <2>2. (WorkerClaims /\ AnswerIsValid /\ BeforeReload)'
    BY <1>1, <1>a DEF RunWorker, WorkerClaims, AnswerIsValid, BeforeReload, Busy, On
  <2> QED BY <2>1, <2>2, <1>c
<1>2. CASE BuildRequests
  <2>1. worker.c \in Collections /\ shown[worker.c] \in Inputs /\ worker.response = {}
    BY <1>2 DEF BuildRequests, WorkerClaims, Busy, TypeOK
  <2>2. /\ worker' \in WorkerStates /\ worker'.c = worker.c /\ worker'.response = {}
        /\ worker'.pc \in {"answered", "asking"}
        /\ worker'.pc = "answered" => worker'.input = {}
    BY <1>2, <2>1 DEF BuildRequests, TypeOK, WorkerStates
  <2>3. TypeOK'
    BY <1>2, <2>2, <1>a DEF BuildRequests, TypeOK, tables
  <2>4. (WorkerClaims /\ AnswerIsValid)'
    BY <2>1, <2>2, EmptyResponse DEF WorkerClaims, AnswerIsValid
  <2>5. BeforeReload'
    BY <1>2, <2>2, <1>a DEF BuildRequests, BeforeReload, Busy, On, tables
  <2> QED BY <2>3, <2>4, <2>5, <1>c
<1>3. CASE Correlate
  <2>1. PICK response \in Responses(worker.input) :
          /\ ~Collides(response)
          /\ worker' = [worker EXCEPT !.pc = "answered", !.response = response]
    BY <1>3 DEF Correlate
  <2>2. worker.input \in Inputs \cup {{}} /\ worker.pc = "asking" /\ worker.c \in Collections
    BY <1>3 DEF Correlate, TypeOK, WorkerStates, WorkerClaims, Busy
  <2>3. /\ worker' \in WorkerStates /\ worker'.c = worker.c /\ worker'.response = response
        /\ worker'.pc = "answered" /\ worker'.input = worker.input
    BY <2>1, <2>2, ResponseType DEF TypeOK, WorkerStates
  <2>4. TypeOK'
    BY <1>3, <2>3, <1>a DEF Correlate, TypeOK, tables
  <2>5. (WorkerClaims /\ AnswerIsValid)'
    BY <2>1, <2>2, <2>3 DEF WorkerClaims, AnswerIsValid
  <2>6. BeforeReload'
    BY <1>3, <2>2, <2>3, <1>a DEF Correlate, BeforeReload, Busy, On, tables
  <2> QED BY <2>4, <2>5, <2>6, <1>c
<1>4. CASE ProviderFails
  <2>1. worker.pc = "asking" /\ worker.c \in Collections
    BY <1>4 DEF ProviderFails, WorkerClaims, Busy
  <2>2. /\ worker' \in WorkerStates /\ worker'.c = worker.c
        /\ worker'.pc \in {"asking", "failed"}
    BY <1>4, <2>1 DEF ProviderFails, GoTo, TypeOK, WorkerStates
  <2>3. TypeOK'
    BY <1>4, <2>2, <1>a DEF ProviderFails, TypeOK, tables
  <2>4. (WorkerClaims /\ AnswerIsValid)'
    BY <2>1, <2>2 DEF WorkerClaims, AnswerIsValid
  <2>5. BeforeReload'
    BY <1>4, <2>1, <2>2, <1>a DEF ProviderFails, BeforeReload, Busy, On, tables
  <2> QED BY <2>3, <2>4, <2>5, <1>c
<1>5. CASE RecordSuccess
  <2>1. /\ worker.pc = "answered" /\ worker.c \in Collections
        /\ worker.input = shown[worker.c] /\ worker.input \in Inputs
        /\ worker.response \in SUBSET ((SUBSET PRs) \X (SUBSET PRs))
    BY <1>5 DEF RecordSuccess, InputsChanged, TypeOK, WorkerStates, WorkerClaims, Busy
  <2>2. ~KeyViolated(worker.response)
    BY <2>1, ValidResponseHasKeys DEF AnswerIsValid
  <2>3. /\ groups' = [groups EXCEPT ![worker.c] = Rows(worker.response)]
        /\ state' = [state EXCEPT ![worker.c] = [status |-> "complete", about |-> worker.input]]
        /\ worker' = [worker EXCEPT !.pc = "finish"]
        /\ UNCHANGED <<errors, job>>
    BY <1>5, <2>2 DEF RecordSuccess, GoTo
  <2>4. worker' \in WorkerStates /\ worker'.c = worker.c /\ worker'.pc = "finish"
    BY <2>3 DEF TypeOK, WorkerStates
  <2>5. Rows(worker.response) \in SUBSET [id : SUBSET PRs, about : Inputs]
    BY <2>1 DEF Rows
  <2>6. TypeOK'
    BY <2>1, <2>3, <2>4, <2>5, <1>a DEF TypeOK
  <2>7. (WorkerClaims /\ AnswerIsValid)'
    BY <2>1, <2>4 DEF WorkerClaims, AnswerIsValid
  <2>8. BeforeReload'
    BY <2>1, <2>3, <2>4, <1>a DEF BeforeReload, Busy, On
  <2> QED BY <2>6, <2>7, <2>8, <1>c
<1>6. CASE DiscardStale
  <2>1. worker.pc = "answered" /\ worker.c \in Collections
    BY <1>6 DEF DiscardStale, WorkerClaims, Busy
  <2>2. worker' \in WorkerStates /\ worker'.c = worker.c /\ worker'.pc = "stale"
    BY <1>6 DEF DiscardStale, GoTo, TypeOK, WorkerStates
  <2>3. TypeOK'
    BY <1>6, <2>2, <1>a DEF DiscardStale, TypeOK, tables
  <2>4. (WorkerClaims /\ AnswerIsValid)'
    BY <2>1, <2>2 DEF WorkerClaims, AnswerIsValid
  <2>5. BeforeReload'
    BY <1>6, <2>1, <2>2, <1>a DEF DiscardStale, BeforeReload, Busy, On, tables
  <2> QED BY <2>3, <2>4, <2>5, <1>c
<1>7. CASE RecordFailure
  <2>1. worker.pc = "failed" /\ worker.c \in Collections
    BY <1>7 DEF RecordFailure, WorkerClaims, Busy
  <2>2. worker' \in WorkerStates /\ worker'.c = worker.c /\ worker'.pc = "finish"
    BY <1>7 DEF RecordFailure, GoTo, TypeOK, WorkerStates
  <2>3. TypeOK'
    BY <1>7, <2>1, <2>2, <1>a DEF RecordFailure, TypeOK
  <2>4. (WorkerClaims /\ AnswerIsValid)'
    BY <2>1, <2>2 DEF WorkerClaims, AnswerIsValid
  <2>5. BeforeReload'
    BY <1>7, <2>1, <2>2, <1>a DEF RecordFailure, BeforeReload, Busy, On
  <2> QED BY <2>3, <2>4, <2>5, <1>c
<1>8. CASE CompleteJob
  <2>1. worker.pc \in {"finish", "stale"} /\ worker.c \in Collections
    BY <1>8 DEF CompleteJob, WorkerClaims, Busy
  <2>2. \/ worker' = At("idle")
        \/ worker' \in WorkerStates /\ worker'.c = worker.c /\ worker'.pc = "enqueue"
    BY <1>8 DEF CompleteJob, TypeOK, WorkerStates
  <2>3. TypeOK'
    BY <1>8, <2>1, <2>2, <1>a DEF CompleteJob, TypeOK
  <2>4. (WorkerClaims /\ AnswerIsValid)'
    BY <2>1, <2>2 DEF WorkerClaims, AnswerIsValid, Busy
  <2>5. BeforeReload'
    BY <1>8, <2>1, <2>2, <1>a DEF CompleteJob, BeforeReload, Busy, On
  <2> QED BY <2>3, <2>4, <2>5, <1>c
<1>9. CASE EnqueueAgain
  <2>1. worker.pc = "enqueue" /\ worker.c \in Collections
    BY <1>9 DEF EnqueueAgain, WorkerClaims, Busy
  <2>2. /\ worker' \in {At("idle"), At("ended")}
        /\ job' \in [Collections -> {"none", "queued", "running"}]
        /\ errors' \subseteq {"correlation", "periodic"}
        /\ worker.c \in On => UNCHANGED errors
    BY <1>9, <2>1 DEF EnqueueAgain, Enqueued, Fail, TypeOK
  <2>3. TypeOK'
    BY <1>9, <2>2, <1>a DEF EnqueueAgain, TypeOK
  <2>4. (WorkerClaims /\ AnswerIsValid)'
    BY <2>2 DEF WorkerClaims, AnswerIsValid, Busy
  <2>5. BeforeReload'
    BY <2>1, <2>2, <1>a DEF BeforeReload, Busy, On
  <2> QED BY <2>3, <2>4, <2>5, <1>c
<1> QED
  BY <1>1, <1>2, <1>3, <1>4, <1>5, <1>6, <1>7, <1>8, <1>9 DEF WorkerStep, Answers, Writes

\* Claims, refreshes, requests and cron matches.
LEMMA InvariantQueueStep ==
  ASSUME IInv, NEW c \in Collections,
         Claim(c) \/ Refreshes(c) \/ FinishRefresh(c) \/ RequestCorrelation(c)
           \/ Match(c) \/ DispatchDue(c)
  PROVE  IInv'
<1> USE DEF IInv, supervision, history
<1>1. CASE Claim(c)
  <2>1. /\ worker.pc = "idle" /\ c \in On
        /\ worker' \in WorkerStates /\ worker'.c = c /\ worker'.pc = "claimed"
        /\ worker'.response = {}
    BY <1>1, AtTypes DEF Claim, ClaimCorrelation, At, Down, WorkerStates
  <2>2. TypeOK'
    BY <1>1, <2>1 DEF Claim, ClaimCorrelation, TypeOK
  <2>3. (WorkerClaims /\ AnswerIsValid)'
    BY <2>1 DEF WorkerClaims, AnswerIsValid
  <2>4. DownIsClean'
    BY <1>1, <2>1, AtTypes DEF Claim, ClaimCorrelation, DownIsClean
  <2>5. BeforeReload'
    BY <1>1, <2>1 DEF Claim, ClaimCorrelation, BeforeReload, On
  <2> QED BY <2>2, <2>3, <2>4, <2>5
<1>2. CASE Refreshes(c) \/ FinishRefresh(c)
  <2>1. /\ UNCHANGED <<mode, tables, worker, errors>> /\ UNCHANGED supervision
        /\ shown' \in [Collections -> Inputs] /\ refreshing' \subseteq Collections
    BY <1>2 DEF Refreshes, FinishRefresh, BeginRefresh, PublishPullRequests, EndRefresh, TypeOK
  <2>2. TypeOK'
    BY <2>1 DEF TypeOK, tables
  <2>3. (WorkerClaims /\ AnswerIsValid)'
    BY <2>1 DEF WorkerClaims, AnswerIsValid
  <2>4. (DownIsClean /\ BeforeReload)'
    BY <2>1 DEF DownIsClean, BeforeReload, On
  <2> QED BY <2>2, <2>3, <2>4
<1>3. CASE RequestCorrelation(c)
  <2>1. TypeOK'
    BY <1>3 DEF RequestCorrelation, Enqueued, TypeOK
  <2>2. (WorkerClaims /\ AnswerIsValid)'
    BY <1>3 DEF RequestCorrelation, WorkerClaims, AnswerIsValid
  <2>3. (DownIsClean /\ BeforeReload)'
    BY <1>3 DEF RequestCorrelation, DownIsClean, BeforeReload, On
  <2> QED BY <2>1, <2>2, <2>3
<1>4. CASE Match(c)
  <2>1. /\ c \in schedules.entries
        /\ schedules' \in [running : BOOLEAN, entries : SUBSET Collections, due : SUBSET Collections]
        /\ schedules'.entries = schedules.entries /\ schedules'.due = schedules.due \cup {c}
    BY <1>4 DEF Match, TypeOK
  <2>2. TypeOK'
    BY <1>4, <2>1 DEF Match, store, tables, TypeOK
  <2>3. (WorkerClaims /\ AnswerIsValid)'
    BY <1>4 DEF Match, WorkerClaims, AnswerIsValid
  <2>4. DownIsClean'
    BY <1>4, <2>1 DEF Match, DownIsClean, NoSchedules
  <2>5. BeforeReload'
    BY <1>4, <2>1 DEF Match, store, BeforeReload, On, NoSchedules
  <2> QED BY <2>2, <2>3, <2>4, <2>5
<1>5. CASE DispatchDue(c)
  <2>1. /\ c \in schedules.due
        /\ UNCHANGED <<mode, shown, refreshing, groups, state, worker, process, loaded, thread, history>>
        /\ dispatched' = dispatched \cup {c}
        /\ job' \in [Collections -> {"none", "queued", "running"}]
        /\ errors' \subseteq {"correlation", "periodic"}
        /\ schedules' \in [running : BOOLEAN, entries : SUBSET Collections, due : SUBSET Collections]
        /\ schedules'.entries \subseteq schedules.entries /\ schedules'.due \subseteq schedules.due
        /\ c \in On => UNCHANGED errors
    <3>1. /\ c \in schedules.due
          /\ UNCHANGED <<mode, shown, refreshing, groups, state, worker, process, loaded, thread, history>>
          /\ dispatched' = dispatched \cup {c}
      BY <1>5 DEF DispatchDue
    <3>2. CASE c \in On
      <4>1. /\ UNCHANGED errors /\ job' = Enqueued(c)
            /\ schedules' = [schedules EXCEPT !.due = @ \ {c}]
        BY <1>5, <3>2 DEF DispatchDue
      <4> QED BY <3>1, <4>1 DEF Enqueued, TypeOK
    <3>3. CASE c \notin On
      <4>1. /\ UNCHANGED job /\ schedules' = NoSchedules
            /\ errors' = errors \cup {"periodic"}
        BY <1>5, <3>3 DEF DispatchDue
      <4> QED BY <3>1, <3>3, <4>1 DEF NoSchedules, TypeOK
    <3> QED BY <3>2, <3>3
  <2>2. TypeOK'
    BY <2>1 DEF TypeOK
  <2>3. (WorkerClaims /\ AnswerIsValid)'
    BY <2>1 DEF WorkerClaims, AnswerIsValid
  <2>4. DownIsClean'
    BY <2>1 DEF DownIsClean, NoSchedules
  <2>5. BeforeReload'
    BY <2>1 DEF BeforeReload, On, NoSchedules
  <2> QED BY <2>2, <2>3, <2>4, <2>5
<1> QED BY <1>1, <1>2, <1>3, <1>4, <1>5

\* The process starts, reloads its tables, exits and crashes.
LEMMA InvariantProcessStep ==
  ASSUME IInv,
         \/ \E modes \in Configs : Start(modes)
         \/ \E t \in Reloaders, next \in Configs : ApplyConfig(t, next)
         \/ ProcessExits \/ Crash
  PROVE  IInv'
<1> USE AtTypes, IdleTypes DEF IInv, history
<1>1. ASSUME NEW modes \in Configs, Start(modes) PROVE IInv'
  <2> DEFINE first == [Idle EXCEPT !.pc = "initializing", !.next = modes, !.todo = Entries(modes)]
  <2>1. modes \in [Collections -> {"on", "off", "removed"}]
    BY ConfigsAssumption
  <2>2. first \in ThreadStates /\ first.pc = "initializing" /\ first.next = modes
    BY <2>1 DEF Idle, ThreadStates, Entries
  <2>3. thread' = [thread EXCEPT !["main"] = first] /\ "main" \in Threads
    BY <1>1 DEF Start, Threads
  <2> HIDE DEF first
  <2>4. TypeOK'
    <3>1. thread' \in [Threads -> ThreadStates]
      BY <2>2, <2>3 DEF TypeOK
    <3>2. mode' \in [Collections -> {"on", "off", "removed"}]
      BY <1>1, <2>1 DEF Start, SyncCollections
    <3>3. job' \in [Collections -> {"none", "queued", "running"}]
      BY <1>1 DEF Start, SyncCollections, TypeOK
    <3>4. groups' \in [Collections -> SUBSET [id : SUBSET PRs, about : Inputs]]
      BY <1>1 DEF Start, SyncCollections, TypeOK
    <3>5. worker' \in WorkerStates /\ process' = "booting" /\ loaded' = modes
      BY <1>1 DEF Start
    <3>6. UNCHANGED <<shown, refreshing, state, errors, dispatched, schedules, reloaded, mixed>>
      BY <1>1 DEF Start, SyncCollections
    <3> QED BY <2>1, <3>1, <3>2, <3>3, <3>4, <3>5, <3>6 DEF TypeOK
  <2>5. (WorkerClaims /\ AnswerIsValid /\ DownIsClean)'
    BY <1>1 DEF Start, WorkerClaims, AnswerIsValid, DownIsClean, Busy
  <2>6. BeforeReload'
    <3>1. /\ errors = {} /\ schedules = NoSchedules /\ \A t \in Threads : thread[t].pc = "idle"
      BY <1>1 DEF Start, DownIsClean
    <3>2. \A t \in Reloaders : thread'[t] = thread[t]
      BY <2>3, ReloadersAssumption DEF TypeOK, Threads
    <3>3. thread'["main"] = first
      BY <2>3 DEF TypeOK
    <3> QED BY <1>1, <2>2, <3>1, <3>2, <3>3 DEF Start, SyncCollections, BeforeReload, Busy, NoSchedules, Threads
  <2> QED BY <2>4, <2>5, <2>6
<1>2. ASSUME NEW t \in Reloaders, NEW next \in Configs, ApplyConfig(t, next) PROVE IInv'
  <2>1. next \in [Collections -> {"on", "off", "removed"}]
    BY ConfigsAssumption
  <2>2. thread' \in [Threads -> ThreadStates]
    <3>1. [Idle EXCEPT !.pc = "applied", !.next = next, !.alone = UnderWay = {}] \in ThreadStates
      BY <2>1 DEF Idle, ThreadStates
    <3>2. \A s \in ThreadStates : [s EXCEPT !.alone = FALSE] \in ThreadStates
      BY DEF ThreadStates
    <3>3. \A u \in Threads : thread[u] \in ThreadStates
      BY DEF TypeOK
    <3> QED BY <1>2, <3>1, <3>2, <3>3 DEF ApplyConfig
  <2>3. TypeOK'
    BY <1>2, <2>1, <2>2 DEF ApplyConfig, SyncCollections, TypeOK
  <2>4. (WorkerClaims /\ AnswerIsValid /\ DownIsClean /\ BeforeReload)'
    BY <1>2 DEF ApplyConfig, WorkerClaims, AnswerIsValid, DownIsClean, BeforeReload
  <2> QED BY <2>3, <2>4
<1>3. CASE ProcessExits \/ Crash
  <2>1. Halt
    BY <1>3 DEF ProcessExits, Crash
  <2>2. TypeOK'
    BY <2>1 DEF Halt, store, tables, TypeOK, NoSchedules
  <2>3. (WorkerClaims /\ AnswerIsValid /\ DownIsClean /\ BeforeReload)'
    BY <2>1 DEF Halt, WorkerClaims, AnswerIsValid, DownIsClean, BeforeReload, NoSchedules, Busy, Threads
  <2> QED BY <2>2, <2>3
<1> QED BY <1>1, <1>2, <1>3

\* A thread that moves on.
LEMMA ThreadEffect ==
  ASSUME TypeOK, NEW t \in Threads, NEW new \in ThreadStates, thread' = [thread EXCEPT ![t] = new]
  PROVE  /\ thread' \in [Threads -> ThreadStates] /\ thread'[t] = new
         /\ \A u \in Threads \ {t} : thread'[u] = thread[u]
BY DEF TypeOK

\* The steps of a reload up to the replacement of the worker: the thread is not
\* the start of the process, so a reload has begun.
LEMMA InvariantReloadStep ==
  ASSUME IInv, NEW t \in Threads,
         StopSchedules(t) \/ Reconcile(t) \/ ReconcileFails(t) \/ ReplaceWorker(t)
  PROVE  IInv'
<1> USE AtTypes, IdleTypes DEF IInv, history
<1>0. thread[t] \in ThreadStates
  BY DEF TypeOK
<1>1. thread[t].pc \in {"applied", "stopped", "reconciled"}
  BY DEF StopSchedules, Reconcile, ReconcileFails, ReplaceWorker
<1>2. reloaded = TRUE
  BY <1>1 DEF BeforeReload, Threads, TypeOK
<1>3. process # "down"
  BY <1>2 DEF DownIsClean
<1>4. UNCHANGED <<reloaded, process>>
  BY DEF StopSchedules, Reconcile, ReconcileFails, ReplaceWorker
<1>5. (DownIsClean /\ BeforeReload)'
  BY <1>2, <1>3, <1>4 DEF DownIsClean, BeforeReload
<1>6. CASE StopSchedules(t)
  <2> DEFINE new == [thread[t] EXCEPT !.pc = "stopped"]
  <2>1. new \in ThreadStates
    BY <1>0 DEF ThreadStates
  <2>2. thread' = [thread EXCEPT ![t] = new]
    BY <1>6 DEF StopSchedules, Advance, TypeOK
  <2> HIDE DEF new
  <2>3. thread' \in [Threads -> ThreadStates]
    BY <2>1, <2>2, ThreadEffect
  <2>4. TypeOK'
    BY <1>6, <2>3 DEF StopSchedules, MayReport, NoSchedules, store, tables, TypeOK
  <2>5. (WorkerClaims /\ AnswerIsValid)'
    BY <1>6 DEF StopSchedules, WorkerClaims, AnswerIsValid
  <2> QED BY <1>5, <2>4, <2>5
<1>7. CASE Reconcile(t)
  <2> DEFINE new == [thread[t] EXCEPT !.pc = "reconciled"]
  <2>1. new \in ThreadStates
    BY <1>0 DEF ThreadStates
  <2>2. thread' = [thread EXCEPT ![t] = new]
    BY <1>7 DEF Reconcile, Advance, TypeOK
  <2> HIDE DEF new
  <2>3. thread' \in [Threads -> ThreadStates]
    BY <2>1, <2>2, ThreadEffect
  <2>4. TypeOK'
    BY <1>7, <2>3 DEF Reconcile, tables, TypeOK
  <2>5. (WorkerClaims /\ AnswerIsValid)'
    BY <1>7 DEF Reconcile, WorkerClaims, AnswerIsValid
  <2> QED BY <1>5, <2>4, <2>5
<1>8. CASE ReconcileFails(t)
  <2>1. thread' \in [Threads -> ThreadStates]
    BY <1>8, ThreadEffect DEF ReconcileFails, Abort
  <2>2. TypeOK'
    BY <1>8, <2>1 DEF ReconcileFails, Abort, tables, TypeOK
  <2>3. (WorkerClaims /\ AnswerIsValid)'
    BY <1>8 DEF ReconcileFails, WorkerClaims, AnswerIsValid
  <2> QED BY <1>5, <2>2, <2>3
<1>9. CASE ReplaceWorker(t)
  <2> DEFINE new == [thread[t] EXCEPT !.pc = "initializing", !.todo = Entries(thread[t].next)]
  <2>1. new \in ThreadStates
    BY <1>0 DEF ThreadStates, Entries
  <2>2. thread' = [thread EXCEPT ![t] = new]
    BY <1>9 DEF ReplaceWorker, TypeOK
  <2> HIDE DEF new
  <2>3. thread' \in [Threads -> ThreadStates]
    BY <2>1, <2>2, ThreadEffect
  <2>4. TypeOK'
    BY <1>9, <2>3 DEF ReplaceWorker, MayReport, store, tables, TypeOK
  <2>5. (WorkerClaims /\ AnswerIsValid)'
    BY <1>9 DEF ReplaceWorker, WorkerClaims, AnswerIsValid, Busy
  <2> QED BY <1>5, <2>4, <2>5
<1> QED BY <1>6, <1>7, <1>8, <1>9

\* The schedules are initialized and started, by serve or by a reload.
LEMMA InvariantScheduleStep ==
  ASSUME IInv, NEW t \in Threads,
         \/ \E c \in Collections : InitializeSchedule(t, c)
         \/ DispatchFirst(t) \/ DispatchFirstFails(t) \/ StartSchedules(t)
  PROVE  IInv'
<1> USE AtTypes, IdleTypes DEF IInv, history
<1>0. thread[t] \in ThreadStates
  BY DEF TypeOK
<1>1. thread[t].pc = "initializing" \/ thread[t].first \in Collections
  BY DEF InitializeSchedule, DispatchFirst, DispatchFirstFails, StartSchedules, On
<1>2. UNCHANGED <<mode, worker, reloaded>>
  BY DEF InitializeSchedule, DispatchFirst, DispatchFirstFails, StartSchedules, store
<1>3. (WorkerClaims /\ AnswerIsValid)'
  BY <1>2 DEF WorkerClaims, AnswerIsValid
<1>4. ASSUME NEW c \in Collections, InitializeSchedule(t, c) PROVE IInv'
  <2> DEFINE new == [thread[t] EXCEPT !.todo = @ \ {c},
                                      !.first = IF c \in dispatched THEN NoCollection ELSE c]
  <2>1. new \in ThreadStates /\ new.pc = thread[t].pc /\ new.next = thread[t].next
    BY <1>0 DEF ThreadStates
  <2>2. thread' = [thread EXCEPT ![t] = new]
    BY <1>4 DEF InitializeSchedule, TypeOK
  <2> HIDE DEF new
  <2>3. /\ thread' \in [Threads -> ThreadStates] /\ thread'[t] = new
        /\ \A u \in Threads \ {t} : thread'[u] = thread[u]
    BY <2>1, <2>2, ThreadEffect
  <2>4. TypeOK'
    BY <1>4, <2>3 DEF InitializeSchedule, tables, TypeOK
  <2>5. (DownIsClean /\ BeforeReload)'
    BY <1>4, <2>1, <2>3 DEF InitializeSchedule, DownIsClean, BeforeReload, On, Threads
  <2> QED BY <1>3, <2>4, <2>5
<1>5. CASE DispatchFirst(t)
  <2> DEFINE new == [thread[t] EXCEPT !.first = NoCollection]
  <2>1. new \in ThreadStates /\ new.pc = thread[t].pc /\ new.next = thread[t].next
    BY <1>0 DEF ThreadStates
  <2>2. thread' = [thread EXCEPT ![t] = new]
    BY <1>5 DEF DispatchFirst, TypeOK
  <2> HIDE DEF new
  <2>3. /\ thread' \in [Threads -> ThreadStates] /\ thread'[t] = new
        /\ \A u \in Threads \ {t} : thread'[u] = thread[u]
    BY <2>1, <2>2, ThreadEffect
  <2>4. TypeOK'
    BY <1>5, <2>3 DEF DispatchFirst, Enqueued, On, TypeOK
  <2>5. (DownIsClean /\ BeforeReload)'
    BY <1>5, <2>1, <2>3 DEF DispatchFirst, DownIsClean, BeforeReload, On, Threads
  <2> QED BY <1>3, <2>4, <2>5
<1>6. CASE DispatchFirstFails(t)
  <2>1. /\ thread' \in [Threads -> ThreadStates] /\ thread'[t] = Idle
        /\ \A u \in Threads \ {t} : thread'[u] = thread[u]
    BY <1>6, ThreadEffect DEF DispatchFirstFails, Abort
  <2>2. TypeOK'
    BY <1>6, <2>1 DEF DispatchFirstFails, Abort, store, tables, TypeOK
  <2>3. (DownIsClean /\ BeforeReload)'
    BY <1>6, <2>1 DEF DispatchFirstFails, Abort, store, DownIsClean, BeforeReload, On, Threads
  <2> QED BY <1>3, <2>2, <2>3
<1>7. CASE StartSchedules(t)
  <2>1. /\ thread' \in [Threads -> ThreadStates] /\ thread'[t] = Idle
        /\ \A u \in Threads \ {t} : thread'[u] = thread[u]
    BY <1>7, ThreadEffect DEF StartSchedules
  <2>2. /\ schedules' \in [running : BOOLEAN, entries : SUBSET Collections, due : SUBSET Collections]
        /\ schedules'.entries = Entries(thread[t].next) /\ schedules'.due = {}
    BY <1>7 DEF StartSchedules, NoSchedules, Entries
  <2>3. loaded' \in [Collections -> {"on", "off", "removed"}] /\ mixed' \in BOOLEAN
    BY <1>0, <1>7 DEF StartSchedules, ThreadStates
  <2>4. errors' \subseteq {"correlation", "periodic"} /\ process' = "up"
    BY <1>7 DEF StartSchedules, MayReport, TypeOK
  <2>5. TypeOK'
    BY <1>7, <2>1, <2>2, <2>3, <2>4 DEF StartSchedules, store, tables, TypeOK
  <2>6. DownIsClean'
    BY <2>4 DEF DownIsClean
  <2>7. BeforeReload'
    <3>1. CASE reloaded
      BY <1>2, <3>1 DEF BeforeReload
    <3>2. CASE ~reloaded
      <4>1. thread[t].pc = "initializing" /\ t = "main"
        BY <1>7, <3>2 DEF StartSchedules, BeforeReload, Threads
      <4>2. schedules = NoSchedules /\ thread[t].next = mode
        BY <3>2, <4>1 DEF BeforeReload
      <4>3. UNCHANGED errors /\ schedules'.entries = On
        BY <1>7, <2>2, <4>2 DEF StartSchedules, NoSchedules, Entries, On
      <4> QED BY <1>2, <2>1, <2>2, <3>2, <4>1, <4>3, ReloadersAssumption DEF BeforeReload, On, Threads
    <3> QED BY <3>1, <3>2
  <2> QED BY <1>3, <2>5, <2>6, <2>7
<1> QED BY <1>4, <1>5, <1>6, <1>7

\* Nothing changes.
LEMMA InvariantStutter == IInv /\ UNCHANGED vars => IInv'
BY DEF IInv, vars, store, history, tables, TypeOK, WorkerClaims, AnswerIsValid, DownIsClean,
       BeforeReload, On

\* Every step of the server and of its environment.
LEMMA InvariantStep == IInv /\ [Next]_vars => IInv'
<1> SUFFICES ASSUME IInv, [Next]_vars PROVE IInv'
  OBVIOUS
<1>1. CASE ServerStep
  BY <1>1, InvariantProcessStep, InvariantReloadStep, InvariantScheduleStep, InvariantQueueStep,
     InvariantWorkerStep DEF ServerStep, ThreadStep
<1>2. CASE Environment
  BY <1>2, InvariantProcessStep, InvariantQueueStep DEF Environment
<1> QED BY <1>1, <1>2, InvariantStutter DEF Next

\* IInv holds in every state of the server and its database.
THEOREM Invariance == Spec => []IInv
<1>1. Init => IInv
  BY InvariantInit
<1>2. IInv /\ [Next]_vars => IInv'
  BY InvariantStep
<1> QED BY <1>1, <1>2, PTL DEF Spec

\* Every variable of Correlation and Supervision has its type.
THEOREM TypeCorrectness == Spec => []TypeOK
<1>1. IInv => TypeOK
  BY DEF IInv
<1> QED BY <1>1, Invariance, PTL

\* No answer of a provider, no publication and no dispatch makes a transaction
\* fail for good: the process exits with an error only after a reload has begun.
THEOREM OnlyReloadsExitHolds == Spec => []OnlyReloadsExit
<1>1. IInv => OnlyReloadsExit
  BY DEF IInv, BeforeReload, OnlyReloadsExit
<1> QED BY <1>1, Invariance, PTL

-----------------------------------------------------------------------------
(* Supervision implements PublishedGroups *)

\* No groups before the first answer.
LEMMA PromiseInit == Init => Promise!Init
BY DEF Init, CorrelationInit, Promise!Init

\* The worker records one valid answer about what the collection shows.
LEMMA PromiseRecord == IInv /\ RecordSuccess => Promise!Next
<1> SUFFICES ASSUME IInv, RecordSuccess PROVE Promise!Next
  OBVIOUS
<1> DEFINE c == worker.c
           answer == {g[2] : g \in worker.response}
<1>1. c \in Collections /\ worker.input = shown[c] /\ worker.input \in Inputs \cup {{}}
  BY DEF RecordSuccess, InputsChanged, IInv, TypeOK, WorkerStates, WorkerClaims, Busy
<1>2. worker.response \in Responses(worker.input) /\ ~Collides(worker.response)
  BY DEF RecordSuccess, IInv, AnswerIsValid
<1>3. groups' = [groups EXCEPT ![c] = Rows(worker.response)] /\ UNCHANGED shown
  BY <1>1, <1>2, ValidResponseHasKeys DEF RecordSuccess
<1>4. answer \in ValidGroups(shown[c])
  BY <1>1, <1>2 DEF ValidGroups
<1>5. Rows(worker.response) = {[id |-> id, about |-> shown[c]] : id \in answer}
  BY <1>1 DEF Rows
<1>6. Promise!Replace(c)
  BY <1>3, <1>4, <1>5 DEF Promise!Replace
<1> QED BY <1>1, <1>6 DEF Promise!Next

\* New tables withdraw the groups of the collections that do not ask for them.
LEMMA PromiseSync ==
  ASSUME NEW modes, SyncCollections(modes)
  PROVE  Promise!Next
<1>1. WithdrawnFrom(modes) \in SUBSET Collections
  BY DEF WithdrawnFrom
<1>2. Promise!Withdraw(WithdrawnFrom(modes))
  BY DEF SyncCollections, Promise!Withdraw
<1> QED BY <1>1, <1>2 DEF Promise!Next

\* A publication changes what one collection shows.
LEMMA PromiseRefresh ==
  ASSUME IInv, NEW c \in Collections, Refreshes(c)
  PROVE  [Promise!Next]_(Promise!vars)
<1>1. CASE PublishPullRequests(c)
  <2>1. Promise!Change(c)
    BY <1>1 DEF PublishPullRequests, Promise!Change, tables
  <2> QED BY <2>1 DEF Promise!Next
<1>2. CASE BeginRefresh(c) \/ EndRefresh(c)
  BY <1>2 DEF BeginRefresh, EndRefresh, tables, Promise!vars
<1> QED BY <1>1, <1>2 DEF Refreshes

\* Everything else leaves the groups and what is shown alone.
LEMMA PromiseStutter ==
  ASSUME \/ ProcessExits \/ Crash
         \/ \E t \in Threads : ThreadStep(t) \/ ReconcileFails(t)
         \/ \E c \in Collections : Match(c) \/ DispatchDue(c) \/ Claim(c) \/ RequestCorrelation(c)
         \/ UNCHANGED vars
         \/ RunWorker \/ BuildRequests \/ Correlate \/ ProviderFails \/ DiscardStale
         \/ RecordFailure \/ CompleteJob \/ EnqueueAgain
  PROVE  UNCHANGED <<shown, groups>>
<1> USE DEF store, tables
<1>1. CASE ProcessExits \/ Crash
  BY <1>1 DEF ProcessExits, Crash, Halt
<1>2. ASSUME NEW t \in Threads, ThreadStep(t) \/ ReconcileFails(t)
      PROVE  UNCHANGED <<shown, groups>>
  BY <1>2 DEF ThreadStep, StopSchedules, Reconcile, ReplaceWorker, InitializeSchedule,
              DispatchFirst, DispatchFirstFails, StartSchedules, ReconcileFails
<1>3. ASSUME NEW c \in Collections, Match(c) \/ DispatchDue(c) \/ Claim(c) \/ RequestCorrelation(c)
      PROVE  UNCHANGED <<shown, groups>>
  BY <1>3 DEF Match, DispatchDue, Claim, ClaimCorrelation, RequestCorrelation
<1>4. CASE UNCHANGED vars
  BY <1>4 DEF vars
<1>5. CASE \/ RunWorker \/ BuildRequests \/ Correlate \/ ProviderFails \/ DiscardStale
           \/ RecordFailure \/ CompleteJob \/ EnqueueAgain
  BY <1>5 DEF RunWorker, BuildRequests, Correlate, ProviderFails, DiscardStale, RecordFailure,
              CompleteJob, EnqueueAgain
<1> QED BY <1>1, <1>2, <1>3, <1>4, <1>5

\* Every step maps to a step of PublishedGroups or to a stutter.
LEMMA PromiseStep == IInv /\ [Next]_vars => [Promise!Next]_(Promise!vars)
<1> SUFFICES ASSUME IInv, [Next]_vars PROVE [Promise!Next]_(Promise!vars)
  OBVIOUS
<1>1. CASE \E modes \in Configs : Start(modes)
  BY <1>1, PromiseSync DEF Start
<1>2. CASE \E t \in Reloaders, next \in Configs : ApplyConfig(t, next)
  BY <1>2, PromiseSync DEF ApplyConfig
<1>3. CASE \E c \in Collections : Refreshes(c)
  BY <1>3, PromiseRefresh
<1>4. CASE RecordSuccess
  BY <1>4, PromiseRecord
<1>5. CASE \/ ProcessExits \/ Crash
           \/ \E t \in Threads : ThreadStep(t) \/ ReconcileFails(t)
           \/ \E c \in Collections : Match(c) \/ DispatchDue(c) \/ Claim(c) \/ RequestCorrelation(c)
           \/ UNCHANGED vars
           \/ RunWorker \/ BuildRequests \/ Correlate \/ ProviderFails \/ DiscardStale
           \/ RecordFailure \/ CompleteJob \/ EnqueueAgain
  BY <1>5, PromiseStutter DEF Promise!vars
<1> QED
  BY <1>1, <1>2, <1>3, <1>4, <1>5 DEF Next, ServerStep, Environment, WorkerStep, Answers, Writes

\* The server with its crashes, overlapping reloads and failing providers keeps
\* the promise to the reader of the groups.
THEOREM GroupsKeepPromiseHolds == Spec => GroupsKeepPromise
<1>1. Init => Promise!Init
  BY PromiseInit
<1>2. IInv /\ [Next]_vars => [Promise!Next]_(Promise!vars)
  BY PromiseStep
<1> QED BY <1>1, <1>2, Invariance, PTL DEF Spec, GroupsKeepPromise, Promise!Spec

-----------------------------------------------------------------------------
(* What a reload installs *)

\* The worker is about a collection that asks for groups.
WorkerIsOn == worker.pc \in Busy => worker.c \in On
WorkerRuns == worker.pc \notin {"down", "ended"} \/ errors # {}

\* A start or a reload that nothing overlapped is the only one, it installs what
\* the tables say, and from the replacement of the worker on it has one.
SoleReload ==
  \A t \in Threads : thread[t].pc # "idle" /\ thread[t].alone =>
    /\ \A u \in Threads \ {t} : thread[u].pc = "idle"
    /\ thread[t].next = mode
    /\ thread[t].pc = "initializing" =>
         /\ WorkerIsOn /\ WorkerRuns
         /\ On \ thread[t].todo \subseteq dispatched

\* Between reloads, the last of which succeeded alone, that is what runs.
Between == (\A t \in Threads : thread[t].pc = "idle") /\ ~mixed
BetweenReloads ==
  Between => /\ WorkerIsOn
             /\ process = "up" /\ errors = {} => RuntimeMatches

JInv == SoleReload /\ BetweenReloads

\* A step of the worker begins nothing new, and ends the worker only with an error.
LEMMA WorkerEffect ==
  ASSUME IInv, WorkerStep
  PROVE  /\ UNCHANGED <<mode, process, loaded, dispatched, schedules, thread, mixed>>
         /\ errors \subseteq errors'
         /\ worker'.pc \in Busy => worker.pc \in Busy /\ worker'.c = worker.c
         /\ worker'.pc \in {"down", "ended"} => errors' # {}
<1> USE AtTypes DEF IInv, TypeOK, supervision, history
<1>0. UNCHANGED <<mode, process, loaded, dispatched, schedules, thread, mixed>>
  BY DEF WorkerStep, RunWorker, BuildRequests, Answers, Correlate, ProviderFails, Writes,
         RecordSuccess, DiscardStale, RecordFailure, CompleteJob, EnqueueAgain
<1>1. CASE RunWorker
  BY <1>0, <1>1 DEF RunWorker, Busy
<1>w. worker \in WorkerStates
  OBVIOUS
<1>2. CASE \/ BuildRequests \/ Correlate \/ ProviderFails \/ DiscardStale \/ RecordFailure
  <2>1. worker.pc \in Busy /\ UNCHANGED errors
    BY <1>2 DEF BuildRequests, Correlate, ProviderFails, DiscardStale, RecordFailure, Busy
  <2>2. ASSUME NEW f \in WorkerStates
        PROVE  \A pc, input, p, r :
                 /\ [f EXCEPT !.pc = pc].c = f.c /\ [f EXCEPT !.pc = pc].pc = pc
                 /\ [f EXCEPT !.pc = pc, !.input = input].c = f.c
                 /\ [f EXCEPT !.pc = pc, !.input = input].pc = pc
                 /\ [f EXCEPT !.provider = p].c = f.c /\ [f EXCEPT !.provider = p].pc = f.pc
                 /\ [f EXCEPT !.pc = pc, !.response = r].c = f.c
                 /\ [f EXCEPT !.pc = pc, !.response = r].pc = pc
    BY DEF WorkerStates
  <2>3. worker'.c = worker.c /\ worker'.pc \notin {"down", "ended"}
    <3>1. CASE BuildRequests
      BY <1>w, <2>2, <3>1 DEF BuildRequests
    <3>2. CASE Correlate
      BY <1>w, <2>2, <3>2 DEF Correlate
    <3>g. ASSUME NEW pc, pc \notin {"down", "ended"}, GoTo(pc)
          PROVE  worker'.c = worker.c /\ worker'.pc \notin {"down", "ended"}
      BY <1>w, <2>2, <3>g DEF GoTo
    <3>3. CASE ProviderFails
      <4>1. \/ worker' = [worker EXCEPT !.provider = 2]
            \/ GoTo("failed")
        BY <3>3 DEF ProviderFails
      <4>2. worker.pc = "asking"
        BY <3>3 DEF ProviderFails
      <4>3. [worker EXCEPT !.provider = 2].c = worker.c /\ [worker EXCEPT !.provider = 2].pc = worker.pc
        BY <1>w, <2>2
      <4> QED BY <3>g, <4>1, <4>2, <4>3
    <3>4. CASE DiscardStale \/ RecordFailure
      <4>1. GoTo("stale") \/ GoTo("finish")
        BY <3>4 DEF DiscardStale, RecordFailure
      <4> QED BY <3>g, <4>1
    <3> QED BY <1>2, <3>1, <3>2, <3>3, <3>4
  <2> QED BY <1>0, <2>1, <2>3
<1>3. CASE CompleteJob
  <2>1. worker.pc \in Busy /\ UNCHANGED errors
    BY <1>3 DEF CompleteJob, Busy
  <2>2. \/ worker' = At("idle")
        \/ worker'.c = worker.c /\ worker'.pc = "enqueue"
    BY <1>w, <1>3 DEF CompleteJob, WorkerStates
  <2> QED BY <1>0, <2>1, <2>2 DEF Busy
<1>4. CASE EnqueueAgain
  BY <1>0, <1>4 DEF EnqueueAgain, Fail, Busy
<1>5. CASE RecordSuccess
  <2>1. worker.pc \in Busy
    BY <1>5 DEF RecordSuccess, Busy
  <2>2. \/ worker' = At("ended") /\ errors' = errors \cup {"correlation"}
        \/ worker'.c = worker.c /\ worker'.pc = "finish" /\ UNCHANGED errors
    BY <1>5 DEF RecordSuccess, Fail, GoTo, WorkerStates
  <2> QED BY <1>0, <2>1, <2>2 DEF Busy
<1> QED BY <1>1, <1>2, <1>3, <1>4, <1>5 DEF WorkerStep, Answers, Writes

\* No thread is under way and the process is down.
LEMMA InstalledInit == Init => JInv
<1> SUFFICES ASSUME Init PROVE JInv
  OBVIOUS
<1> QED BY AtTypes, IdleTypes DEF Init, CorrelationInit, JInv, SoleReload, BetweenReloads, Between,
           WorkerIsOn, Busy

\* The worker keeps to the collection it claimed.
LEMMA InstalledWorkerStep ==
  ASSUME IInv, JInv, WorkerStep
  PROVE  JInv'
<1>1. On' = On
  BY WorkerEffect DEF On
<1>2. (WorkerIsOn => WorkerIsOn') /\ (WorkerRuns => WorkerRuns')
  BY <1>1, WorkerEffect DEF WorkerIsOn, WorkerRuns
<1>3. SoleReload'
  BY <1>1, <1>2, WorkerEffect DEF JInv, SoleReload
<1>4. BetweenReloads'
  BY <1>1, <1>2, WorkerEffect DEF JInv, BetweenReloads, Between, RuntimeMatches
<1> QED BY <1>3, <1>4 DEF JInv

\* A claim is of a collection that is on; a dispatch that fails reports it.
LEMMA InstalledQueueStep ==
  ASSUME IInv, JInv, NEW c \in Collections,
         Claim(c) \/ Refreshes(c) \/ RequestCorrelation(c) \/ Match(c) \/ DispatchDue(c)
  PROVE  JInv'
<1> USE DEF supervision, history
<1>1. /\ UNCHANGED <<mode, process, loaded, thread, mixed>>
      /\ dispatched \subseteq dispatched' /\ errors \subseteq errors'
  BY DEF Claim, ClaimCorrelation, Refreshes, BeginRefresh, PublishPullRequests, EndRefresh,
         RequestCorrelation, Match, DispatchDue, store
<1>2. On' = On
  BY <1>1 DEF On
<1>3. \/ UNCHANGED worker
      \/ c \in On /\ worker'.c = c /\ worker'.pc = "claimed"
  BY DEF Claim, ClaimCorrelation, Refreshes, BeginRefresh, PublishPullRequests, EndRefresh,
         RequestCorrelation, Match, DispatchDue, store, At, Down
<1>4. (WorkerIsOn => WorkerIsOn') /\ (WorkerRuns => WorkerRuns')
  BY <1>1, <1>2, <1>3 DEF WorkerIsOn, WorkerRuns
<1>5. SoleReload'
  BY <1>1, <1>2, <1>4 DEF JInv, SoleReload
<1>6. \/ schedules'.running = schedules.running /\ schedules'.entries = schedules.entries
      \/ errors' # {}
  BY DEF Claim, ClaimCorrelation, Refreshes, BeginRefresh, PublishPullRequests, EndRefresh,
         RequestCorrelation, Match, DispatchDue, IInv, TypeOK
<1>7. BetweenReloads'
  BY <1>1, <1>2, <1>3, <1>4, <1>6 DEF JInv, BetweenReloads, Between, RuntimeMatches
<1> QED BY <1>5, <1>7 DEF JInv

\* A start is the only reload; a reload that begins takes that away from the others.
LEMMA InstalledProcessStep ==
  ASSUME IInv, JInv,
         \/ \E modes \in Configs : Start(modes)
         \/ \E t \in Reloaders, next \in Configs : ApplyConfig(t, next)
         \/ ProcessExits \/ Crash
  PROVE  JInv'
<1> USE AtTypes, IdleTypes DEF IInv, history
<1>1. ASSUME NEW modes \in Configs, Start(modes) PROVE JInv'
  <2> DEFINE first == [Idle EXCEPT !.pc = "initializing", !.next = modes, !.todo = Entries(modes)]
  <2>1. first.pc = "initializing" /\ first.next = modes /\ first.todo = Entries(modes)
    BY DEF Idle
  <2>2. thread'["main"] = first /\ \A u \in Threads \ {"main"} : thread'[u].pc = "idle"
    BY <1>1 DEF Start, DownIsClean, TypeOK, Threads
  <2> HIDE DEF first
  <2>3. worker' = At("starting") /\ mode' = modes /\ On' = Entries(modes) /\ "main" \in Threads
    BY <1>1 DEF Start, SyncCollections, On, Entries, Threads
  <2>4. SoleReload'
    BY <2>1, <2>2, <2>3 DEF SoleReload, WorkerIsOn, WorkerRuns, Busy
  <2>5. BetweenReloads'
    BY <2>1, <2>2, <2>3 DEF BetweenReloads, Between
  <2> QED BY <2>4, <2>5 DEF JInv
<1>2. ASSUME NEW t \in Reloaders, NEW next \in Configs, ApplyConfig(t, next) PROVE JInv'
  <2> DEFINE new == [Idle EXCEPT !.pc = "applied", !.next = next, !.alone = UnderWay = {}]
  <2>1. new.pc = "applied" /\ new.next = next /\ new.alone = (UnderWay = {})
    BY DEF Idle
  <2>2. t \in Threads /\ thread'[t] = new
    BY <1>2 DEF ApplyConfig, Threads
  <2> HIDE DEF new
  <2>3. ASSUME NEW u \in Threads \ {t}
        PROVE  IF u \in UnderWay THEN ~thread'[u].alone ELSE thread'[u] = thread[u]
    <3>1. thread[u] \in ThreadStates
      BY DEF TypeOK
    <3>2. [thread[u] EXCEPT !.alone = FALSE].alone = FALSE
      BY <3>1 DEF ThreadStates
    <3>3. CASE u \in UnderWay
      <4>1. thread'[u] = [thread[u] EXCEPT !.alone = FALSE]
        BY <1>2, <3>3 DEF ApplyConfig
      <4> QED BY <3>2, <3>3, <4>1
    <3>4. CASE u \notin UnderWay
      BY <1>2, <3>4 DEF ApplyConfig
    <3> QED BY <3>3, <3>4
  <2>4. mode' = next
    BY <1>2 DEF ApplyConfig, SyncCollections
  <2>5. SoleReload'
    <3>1. new.alone => \A u \in Threads \ {t} : thread'[u].pc = "idle"
      BY <2>1, <2>3 DEF UnderWay
    <3>2. \A u \in Threads \ {t} : thread'[u].pc # "idle" => ~thread'[u].alone
      BY <2>3 DEF UnderWay
    <3> QED BY <2>1, <2>2, <2>4, <3>1, <3>2 DEF SoleReload
  <2>6. BetweenReloads'
    BY <2>1, <2>2 DEF BetweenReloads, Between
  <2> QED BY <2>5, <2>6 DEF JInv
<1>3. CASE ProcessExits \/ Crash
  <2>1. Halt
    BY <1>3 DEF ProcessExits, Crash
  <2> QED BY <2>1 DEF Halt, JInv, SoleReload, BetweenReloads, Between, WorkerIsOn, Busy
<1> QED BY <1>1, <1>2, <1>3

\* The steps of a reload up to the replacement of the worker.
LEMMA InstalledReloadStep ==
  ASSUME IInv, JInv, NEW t \in Threads,
         StopSchedules(t) \/ Reconcile(t) \/ ReconcileFails(t) \/ ReplaceWorker(t)
  PROVE  JInv'
<1> USE AtTypes, IdleTypes DEF IInv, history
<1>0. thread[t] \in ThreadStates /\ thread \in [Threads -> ThreadStates]
  BY DEF TypeOK
<1>1. On' = On /\ mode' = mode
  BY DEF StopSchedules, Reconcile, ReconcileFails, ReplaceWorker, store, On
<1>2. thread[t].pc \in {"applied", "stopped", "reconciled"}
  BY DEF StopSchedules, Reconcile, ReconcileFails, ReplaceWorker
<1>3. \A u \in Threads \ {t} : thread'[u] = thread[u]
  BY <1>0 DEF StopSchedules, Reconcile, ReconcileFails, ReplaceWorker, Advance, Abort
<1>4. \A u \in Threads \ {t} : thread[u].pc # "idle" => ~thread[u].alone
  BY <1>2 DEF JInv, SoleReload
<1>5. CASE StopSchedules(t) \/ Reconcile(t)
  <2>1. /\ thread'[t].pc \in {"stopped", "reconciled"} /\ thread'[t].alone = thread[t].alone
        /\ thread'[t].next = thread[t].next
    BY <1>0, <1>5 DEF StopSchedules, Reconcile, Advance, ThreadStates
  <2>2. SoleReload'
    BY <1>1, <1>2, <1>3, <1>4, <2>1 DEF JInv, SoleReload
  <2> QED BY <2>1, <2>2 DEF JInv, BetweenReloads, Between
<1>6. CASE ReconcileFails(t)
  <2>1. thread'[t].pc = "idle" /\ mixed'
    BY <1>0, <1>6 DEF ReconcileFails, Abort
  <2>2. SoleReload'
    BY <1>3, <1>4, <2>1 DEF SoleReload
  <2> QED BY <2>1, <2>2 DEF JInv, BetweenReloads, Between
<1>7. CASE ReplaceWorker(t)
  <2>1. /\ thread'[t].pc = "initializing" /\ thread'[t].alone = thread[t].alone
        /\ thread'[t].next = thread[t].next /\ thread'[t].todo = Entries(thread[t].next)
        /\ worker' = At("starting")
    BY <1>0, <1>7 DEF ReplaceWorker, ThreadStates
  <2>2. thread[t].alone => On \ thread'[t].todo = {}
    BY <1>2, <2>1 DEF JInv, SoleReload, On, Entries
  <2>3. SoleReload'
    BY <1>1, <1>2, <1>3, <1>4, <2>1, <2>2 DEF JInv, SoleReload, WorkerIsOn, WorkerRuns, Busy
  <2> QED BY <2>1, <2>3 DEF JInv, BetweenReloads, Between
<1> QED BY <1>5, <1>6, <1>7

\* Initialization leaves out no entry, and only what a reload installed is mixed.
LEMMA InstalledScheduleStep ==
  ASSUME IInv, JInv, NEW t \in Threads,
         \/ \E c \in Collections : InitializeSchedule(t, c)
         \/ DispatchFirst(t) \/ DispatchFirstFails(t) \/ StartSchedules(t)
  PROVE  JInv'
<1> USE DEF IInv, history
<1>0. thread[t] \in ThreadStates /\ thread \in [Threads -> ThreadStates]
  BY DEF TypeOK
<1>1. On' = On /\ mode' = mode /\ worker' = worker /\ errors \subseteq errors'
  BY DEF InitializeSchedule, DispatchFirst, DispatchFirstFails, StartSchedules, MayReport, store, On
<1>2. \A u \in Threads \ {t} : thread'[u] = thread[u]
  BY <1>0 DEF InitializeSchedule, DispatchFirst, DispatchFirstFails, StartSchedules, Abort
<1>3. (WorkerIsOn => WorkerIsOn') /\ (WorkerRuns => WorkerRuns')
  BY <1>1 DEF WorkerIsOn, WorkerRuns
<1>4. ASSUME NEW c \in Collections, InitializeSchedule(t, c) PROVE JInv'
  <2>1. /\ thread'[t].pc = "initializing" /\ thread'[t].alone = thread[t].alone
        /\ thread'[t].next = thread[t].next /\ thread'[t].todo = thread[t].todo \ {c}
        /\ thread[t].pc = "initializing"
    BY <1>0, <1>4 DEF InitializeSchedule, ThreadStates
  <2>2. dispatched' = dispatched \cup {c}
    BY <1>4 DEF InitializeSchedule
  <2>3. SoleReload'
    BY <1>1, <1>2, <1>3, <2>1, <2>2 DEF JInv, SoleReload
  <2> QED BY <2>1, <2>3 DEF JInv, BetweenReloads, Between
<1>5. CASE DispatchFirst(t)
  <2>1. /\ thread'[t].pc = thread[t].pc /\ thread'[t].alone = thread[t].alone
        /\ thread'[t].next = thread[t].next /\ thread'[t].todo = thread[t].todo
    BY <1>0, <1>5 DEF DispatchFirst, ThreadStates
  <2>2. UNCHANGED <<dispatched, errors, process, loaded, schedules, mixed>>
    BY <1>5 DEF DispatchFirst
  <2>3. SoleReload'
    BY <1>1, <1>2, <1>3, <2>1, <2>2 DEF JInv, SoleReload
  <2>4. BetweenReloads'
    <3>1. Between' => Between
      BY <1>2, <2>1, <2>2 DEF Between
    <3> QED BY <1>1, <1>3, <2>2, <3>1 DEF JInv, BetweenReloads, RuntimeMatches
  <2> QED BY <2>3, <2>4 DEF JInv
<1>6. CASE DispatchFirstFails(t)
  <2>1. thread'[t].pc = "idle" /\ mixed' /\ dispatched' = dispatched
    BY <1>0, <1>6, IdleTypes DEF DispatchFirstFails, Abort, store
  <2>2. SoleReload'
    BY <1>1, <1>2, <1>3, <2>1 DEF JInv, SoleReload
  <2> QED BY <2>1, <2>2 DEF JInv, BetweenReloads, Between
<1>7. CASE StartSchedules(t)
  <2>1. /\ thread'[t].pc = "idle" /\ mixed' = ~thread[t].alone
        /\ dispatched' = dispatched /\ loaded' = thread[t].next
        /\ thread[t].pc = "initializing" /\ thread[t].todo = {}
    BY <1>0, <1>7, IdleTypes DEF StartSchedules, store
  <2>2. schedules'.running /\ schedules'.entries = Entries(thread[t].next)
    BY <1>7 DEF StartSchedules, NoSchedules
  <2>3. SoleReload'
    BY <1>1, <1>2, <1>3, <2>1 DEF JInv, SoleReload
  <2>4. ASSUME Between' PROVE WorkerIsOn' /\ (errors' = {} => RuntimeMatches')
    <3>1. thread[t].alone
      BY <2>1, <2>4, <1>0 DEF Between, ThreadStates
    <3>2. thread[t].next = mode /\ WorkerIsOn /\ WorkerRuns /\ On \subseteq dispatched
      BY <2>1, <3>1 DEF JInv, SoleReload
    <3>3. Entries(mode) = On
      BY DEF Entries, On
    <3> QED BY <1>1, <1>3, <2>1, <2>2, <3>2, <3>3 DEF RuntimeMatches, WorkerRuns
  <2> QED BY <2>3, <2>4 DEF JInv, BetweenReloads
<1> QED BY <1>4, <1>5, <1>6, <1>7

\* Every step.
LEMMA InstalledStep == IInv /\ JInv /\ [Next]_vars => JInv'
<1> SUFFICES ASSUME IInv, JInv, [Next]_vars PROVE JInv'
  OBVIOUS
<1>1. CASE \/ \E modes \in Configs : Start(modes)
           \/ \E t \in Reloaders, next \in Configs : ApplyConfig(t, next)
           \/ ProcessExits \/ Crash
  BY <1>1, InstalledProcessStep
<1>2. ASSUME NEW t \in Threads, ThreadStep(t) \/ ReconcileFails(t) PROVE JInv'
  BY <1>2, InstalledReloadStep, InstalledScheduleStep DEF ThreadStep
<1>3. ASSUME NEW c \in Collections,
             Claim(c) \/ Refreshes(c) \/ RequestCorrelation(c) \/ Match(c) \/ DispatchDue(c)
      PROVE  JInv'
  BY <1>3, InstalledQueueStep
<1>4. CASE WorkerStep
  BY <1>4, InstalledWorkerStep
<1>5. CASE UNCHANGED vars
  BY <1>5 DEF vars, store, history, JInv, SoleReload, BetweenReloads, Between, WorkerIsOn, WorkerRuns,
              RuntimeMatches, On
<1> QED BY <1>1, <1>2, <1>3, <1>4, <1>5 DEF Next, ServerStep, Environment

\* A start, and a reload that neither failed nor overlapped another, leaves the
\* schedules and the worker that the tables describe.
THEOREM InstalledHolds == Spec => []Installed
<1>1. JInv => Installed
  BY DEF JInv, BetweenReloads, Between, Installed, Settled, UnderWay
<1> QED BY <1>1, InstalledInit, InstalledStep, Invariance, PTL DEF Spec

\* Once such a reload has ended, no answer restores the groups of a collection
\* that it disabled.
THEOREM OnlyReloadRevivesHolds == Spec => OnlyReloadRevives
<1> DEFINE Revived == \A c \in Collections :
             groups'[c] \ groups[c] # {} /\ mode[c] # "on" => UnderWay # {} \/ mixed
<1>1. ASSUME IInv, JInv, [Next]_vars PROVE [Revived]_vars
  <2>1. CASE RecordSuccess
    <3>1. /\ worker.pc \in Busy
          /\ \A c \in Collections : c # worker.c => groups'[c] = groups[c]
      BY <1>1, <2>1 DEF RecordSuccess, IInv, TypeOK, Busy
    <3>2. UnderWay = {} /\ ~mixed => WorkerIsOn
      BY <1>1 DEF JInv, BetweenReloads, Between, UnderWay
    <3> QED BY <3>1, <3>2 DEF WorkerIsOn, On
  <2>2. CASE \E modes \in Configs : Start(modes)
    BY <2>2, <1>1 DEF Start, SyncCollections, IInv, TypeOK
  <2>3. CASE \E t \in Reloaders, next \in Configs : ApplyConfig(t, next)
    BY <2>3, <1>1 DEF ApplyConfig, SyncCollections, IInv, TypeOK
  <2>4. CASE \E c \in Collections : Refreshes(c)
    BY <2>4 DEF Refreshes, BeginRefresh, PublishPullRequests, EndRefresh, tables
  <2>5. CASE \/ ProcessExits \/ Crash
             \/ \E t \in Threads : ThreadStep(t) \/ ReconcileFails(t)
             \/ \E c \in Collections : Match(c) \/ DispatchDue(c) \/ Claim(c) \/ RequestCorrelation(c)
             \/ UNCHANGED vars
             \/ RunWorker \/ BuildRequests \/ Correlate \/ ProviderFails \/ DiscardStale
             \/ RecordFailure \/ CompleteJob \/ EnqueueAgain
    BY <2>5, PromiseStutter
  <2> QED
    BY <1>1, <2>1, <2>2, <2>3, <2>4, <2>5
    DEF Next, ServerStep, Environment, WorkerStep, Answers, Writes
<1> QED BY <1>1, InstalledInit, InstalledStep, Invariance, PTL DEF Spec, OnlyReloadRevives
=============================================================================
