----------------------------- MODULE Supervision -----------------------------
(***************************************************************************)
(* The server process around the correlation worker: start, reload by HTTP *)
(* and by SIGHUP, the cron coordinator, fatal worker errors and restarts.  *)
(*                                                                         *)
(* A reload is a sequence of steps that other threads see: the tables and  *)
(* the application configuration change first, then the schedules stop,    *)
(* disabled schedules are forgotten, the workers are replaced and the new  *)
(* schedules are initialized and started.  Two reloads may overlap: no     *)
(* lock covers reloadRuntime.                                              *)
(*                                                                         *)
(* Data.  Of the entries of the coordinator this module keeps the feature  *)
(* correlation schedules, and of the five workers the correlation worker;  *)
(* the others are replaced at the same point and in the same way.  Every   *)
(* configuration names a model provider, so that a worker is started.  A   *)
(* reload that fails before ApplyConfig changes nothing and is left out.   *)
(***************************************************************************)
EXTENDS Correlation

CONSTANT Reloaders          \* the request handler and the SIGHUP goroutine

Threads == Reloaders \cup {"main"}
ASSUME ReloadersAssumption == "main" \notin Reloaders /\ IsFiniteSet(Reloaders)

VARIABLES
  process,      \* "down", "booting", "up"
  loaded,       \* loadedConfig: the configuration of the last finished reload
  dispatched,   \* schedule_dispatches: the targets that were ever dispatched
  schedules,    \* the coordinator: [running, entries, due]
  thread,       \* serve (until it listens) and the reloads under way
  \* History
  reloaded,     \* a reload has begun since the process started
  mixed         \* a reload failed half-way, or overlapped another one

store == <<mode, shown, refreshing, tables, dispatched>>
history == <<reloaded, mixed>>
vars == <<store, worker, errors, process, loaded, schedules, thread, history>>

NoSchedules == [running |-> FALSE, entries |-> {}, due |-> {}]
supervision == <<process, loaded, dispatched, schedules, thread, history>>

\* A reload under way: the configuration it loaded, the entries it has yet to
\* initialize and the one it has to dispatch for the first time.
ThreadStates ==
  [pc : {"idle", "applied", "stopped", "reconciled", "initializing"},
   next : [Collections -> {"on", "off", "removed"}], todo : SUBSET Collections,
   first : Collections \cup {NoCollection}, alone : BOOLEAN]
Idle == [pc |-> "idle", next |-> [c \in Collections |-> "off"], todo |-> {},
         first |-> NoCollection, alone |-> TRUE]
UnderWay == {t \in Threads : thread[t].pc # "idle"}
Entries(modes) == {c \in Collections : modes[c] = "on"}

Init ==
  /\ CorrelationInit
  /\ process = "down"
  /\ loaded = Idle.next
  /\ dispatched = {}
  /\ schedules = NoSchedules
  /\ thread = [t \in Threads |-> Idle]
  /\ reloaded = FALSE
  /\ mixed = FALSE

-----------------------------------------------------------------------------
(* The process *)

\* serve: application.New synchronizes the tables, then the workers start.
Start(modes) ==
  /\ process = "down"
  /\ SyncCollections(modes)
  /\ worker' = At("starting")
  /\ process' = "booting"
  /\ loaded' = modes
  /\ thread' = [thread EXCEPT !["main"] =
                  [Idle EXCEPT !.pc = "initializing", !.next = modes, !.todo = Entries(modes)]]
  /\ UNCHANGED <<errors, dispatched, schedules, history>>

Halt ==
  /\ process' = "down"
  /\ worker' = Down
  /\ errors' = {}
  /\ schedules' = NoSchedules
  /\ thread' = [t \in Threads |-> Idle]
  /\ reloaded' = FALSE
  /\ mixed' = FALSE
  /\ loaded' = Idle.next
  /\ UNCHANGED store

\* serve returns the first error it receives, and supervision restarts it.
ProcessExits == process = "up" /\ errors # {} /\ Halt

Crash == process # "down" /\ Halt

-----------------------------------------------------------------------------
(* Reload *)

Advance(t, pc) == thread' = [thread EXCEPT ![t].pc = pc]

\* A goroutine that is cancelled in the middle of an operation returns an error,
\* and its select may send it although its context is done.
MayReport(who) == errors' \in {errors, errors \cup {who}}

\* ApplyConfig
ApplyConfig(t, next) ==
  /\ process = "up" /\ t \in Reloaders \ UnderWay
  /\ SyncCollections(next)
  /\ thread' = [u \in Threads |->
       CASE u = t -> [Idle EXCEPT !.pc = "applied", !.next = next, !.alone = UnderWay = {}]
         [] u \in UnderWay -> [thread[u] EXCEPT !.alone = FALSE]
         [] OTHER -> thread[u]]
  /\ reloaded' = TRUE
  /\ UNCHANGED <<worker, errors, process, loaded, dispatched, schedules, mixed>>

\* periodics.stop
StopSchedules(t) ==
  /\ thread[t].pc = "applied"
  /\ schedules' = NoSchedules
  /\ IF schedules.entries = {} THEN UNCHANGED errors ELSE MayReport("periodic")
  /\ Advance(t, "stopped")
  /\ UNCHANGED <<store, worker, process, loaded, history>>

\* reconcileDisabledSchedules: one statement for each schedule that is gone.
Gone(t) == Entries(loaded) \ Entries(thread[t].next)
Reconcile(t) ==
  /\ thread[t].pc = "stopped"
  /\ dispatched' = dispatched \ Gone(t)
  /\ Advance(t, "reconciled")
  /\ UNCHANGED <<mode, shown, refreshing, tables, worker, errors, process, loaded, schedules, history>>

\* It runs under the context of the request: when the client goes away, or a
\* statement fails, the reload returns an error.
Abort(t) == thread' = [thread EXCEPT ![t] = Idle] /\ mixed' = TRUE
ReconcileFails(t) ==
  /\ thread[t].pc = "stopped"
  /\ \E S \in SUBSET Gone(t) : dispatched' = dispatched \ S
  /\ Abort(t)
  /\ UNCHANGED <<mode, shown, refreshing, tables, worker, errors, process, loaded, schedules, reloaded>>

\* correlations.replace: cancel, wait, start another worker.
ReplaceWorkerNot(t) ==
  /\ thread[t].pc = "reconciled"
  /\ thread' = [thread EXCEPT ![t].pc = "initializing", ![t].todo = Entries(thread[t].next)]
  /\ UNCHANGED <<store, worker, errors, process, loaded, schedules, history>>
ReplaceWorkerPrevious(t) ==
  /\ thread[t].pc = "reconciled"
  /\ worker' = At("starting")
  /\ IF worker.pc = "ended" THEN UNCHANGED errors ELSE MayReport("correlation")
  /\ thread' = [thread EXCEPT ![t].pc = "initializing", ![t].todo = Entries(loaded)]
  /\ UNCHANGED <<store, process, loaded, schedules, history>>
ReplaceWorker(t) ==
  /\ thread[t].pc = "reconciled"
  /\ worker' = At("starting")
  /\ IF worker.pc = "ended" THEN UNCHANGED errors ELSE MayReport("correlation")
  /\ thread' = [thread EXCEPT ![t].pc = "initializing", ![t].todo = Entries(thread[t].next)]
  /\ UNCHANGED <<store, process, loaded, schedules, history>>

-----------------------------------------------------------------------------
(* periodics.replace and the coordinator *)

\* Initialize: the target is recorded in one transaction, and a new one is
\* dispatched in another.
InitializeSchedule(t, c) ==
  /\ thread[t].pc = "initializing" /\ thread[t].first = NoCollection /\ c \in thread[t].todo
  /\ dispatched' = dispatched \cup {c}
  /\ thread' = [thread EXCEPT ![t].todo = @ \ {c},
                              ![t].first = IF c \in dispatched THEN NoCollection ELSE c]
  /\ UNCHANGED <<mode, shown, refreshing, tables, worker, errors, process, loaded, schedules, history>>

DispatchFirst(t) ==
  /\ thread[t].first \in On
  /\ job' = Enqueued(thread[t].first)
  /\ thread' = [thread EXCEPT ![t].first = NoCollection]
  /\ UNCHANGED <<mode, shown, refreshing, groups, state, dispatched, worker, errors, process,
                 loaded, schedules, history>>

\* Another reload disabled the collection: this one returns an error.
DispatchFirstFails(t) ==
  /\ thread[t].first \in Collections \ On
  /\ Abort(t)
  /\ UNCHANGED <<store, worker, errors, process, loaded, schedules, reloaded>>

\* The coordinator of an overlapping reload is stopped here.
StartSchedules(t) ==
  /\ thread[t].pc = "initializing" /\ thread[t].first = NoCollection /\ thread[t].todo = {}
  /\ schedules' = [NoSchedules EXCEPT !.running = TRUE, !.entries = Entries(thread[t].next)]
  /\ IF schedules.entries = {} THEN UNCHANGED errors ELSE MayReport("periodic")
  /\ loaded' = thread[t].next
  /\ thread' = [thread EXCEPT ![t] = Idle]
  /\ process' = "up"
  /\ mixed' = ~thread[t].alone
  /\ UNCHANGED <<store, worker, reloaded>>

\* A cron match; matches that elapse before the dispatch coalesce.
Match(c) ==
  /\ c \in schedules.entries \ schedules.due
  /\ schedules' = [schedules EXCEPT !.due = @ \cup {c}]
  /\ UNCHANGED <<store, worker, errors, process, loaded, thread, history>>

\* RunDue: RecordScheduleDispatch, then the enqueue.
DispatchDue(c) ==
  /\ c \in schedules.due
  /\ dispatched' = dispatched \cup {c}
  /\ \/ c \in On
        /\ job' = Enqueued(c)
        /\ schedules' = [schedules EXCEPT !.due = @ \ {c}]
        /\ UNCHANGED errors
     \/ c \notin On
        /\ schedules' = NoSchedules
        /\ errors' = errors \cup {"periodic"}
        /\ UNCHANGED job
  /\ UNCHANGED <<mode, shown, refreshing, groups, state, worker, process, loaded, thread, history>>

\* The correlate command is another process.
RequestCorrelation(c) ==
  /\ c \in On
  /\ job' = Enqueued(c)
  /\ UNCHANGED <<mode, shown, refreshing, groups, state, dispatched, worker, errors, process,
                 loaded, schedules, thread, history>>
-----------------------------------------------------------------------------
(* Specification *)

Refreshes(c) ==
  /\ process # "down"
  /\ BeginRefresh(c) \/ PublishPullRequests(c) \/ EndRefresh(c)
  /\ UNCHANGED supervision
FinishRefresh(c) == process # "down" /\ EndRefresh(c) /\ UNCHANGED supervision

Claim(c) == ClaimCorrelation(c) /\ UNCHANGED supervision
WorkerStep == (RunWorker \/ BuildRequests \/ Answers \/ Writes) /\ UNCHANGED supervision

ThreadStep(t) ==
  \/ StopSchedules(t) \/ Reconcile(t) \/ ReplaceWorker(t)
  \/ \E c \in Collections : InitializeSchedule(t, c)
  \/ DispatchFirst(t) \/ DispatchFirstFails(t) \/ StartSchedules(t)

ServerStep ==
  \/ \E modes \in Configs : Start(modes)
  \/ ProcessExits
  \/ \E t \in Threads : ThreadStep(t) \/ ReconcileFails(t)
  \/ \E c \in Collections : Match(c) \/ DispatchDue(c) \/ Claim(c)
  \/ WorkerStep

Environment ==
  \/ Crash
  \/ \E t \in Reloaders, next \in Configs : ApplyConfig(t, next)
  \/ \E c \in Collections : Refreshes(c) \/ RequestCorrelation(c)

Next == ServerStep \/ Environment
Spec == Init /\ [][Next]_vars

-----------------------------------------------------------------------------
(* Properties *)

TypeOK ==
  /\ mode \in [Collections -> {"on", "off", "removed"}]
  /\ shown \in [Collections -> Inputs]
  /\ refreshing \subseteq Collections
  /\ job \in [Collections -> {"none", "queued", "running"}]
  /\ groups \in [Collections -> SUBSET [id : SUBSET PRs, about : Inputs]]
  /\ state \in [Collections -> [status : {"never", "complete", "failed"}, about : Inputs \cup {{}}]]
  /\ worker \in WorkerStates
  /\ errors \subseteq {"correlation", "periodic"}
  /\ process \in {"down", "booting", "up"}
  /\ loaded \in [Collections -> {"on", "off", "removed"}]
  /\ dispatched \subseteq Collections
  /\ schedules \in [running : BOOLEAN, entries : SUBSET Collections, due : SUBSET Collections]
  /\ thread \in [Threads -> ThreadStates]
  /\ reloaded \in BOOLEAN
  /\ mixed \in BOOLEAN

\* Only a reload can end the process by an error: whatever a provider answers
\* and whatever refreshes publish, no transaction of the correlation worker and
\* no dispatch fails for good.
OnlyReloadsExit == errors # {} => reloaded

\* What a server runs is what its tables say.
RuntimeMatches ==
  /\ schedules.running
  /\ schedules.entries = On
  /\ loaded = mode
  /\ worker.pc \notin {"down", "ended"}
  /\ On \subseteq dispatched
Settled == process = "up" /\ UnderWay = {} /\ errors = {}

\* After a start, and after each reload that neither failed nor overlapped
\* another, the schedules and the worker are those of the tables, whatever was
\* left behind by the reloads before it.
Installed == Settled /\ ~mixed => RuntimeMatches

\* The callback "atomically reloads all runtime dependencies": a reload that
\* fails leaves the tables and the runtime together, on one configuration.
ReloadIsAtomic == Settled => RuntimeMatches

\* Disabling correlation withdraws the groups.  A worker that holds an answer at
\* that moment may publish it once more, but no later than the end of the reload.
OnlyReloadRevives ==
  [][\A c \in Collections :
       groups'[c] \ groups[c] # {} /\ mode[c] # "on" => UnderWay # {} \/ mixed]_vars

\* The groups a reader sees change as PublishedGroups says: a whole answer about
\* what the collection shows at that moment, or a withdrawal.
GroupsKeepPromise == Promise!Spec
=============================================================================
