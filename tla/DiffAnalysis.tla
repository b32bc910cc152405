---------------------------- MODULE DiffAnalysis ----------------------------
(***************************************************************************)
(* What follows the publication of ONE pull request: the evidence worker   *)
(* collects the diff of its head from GitHub, and each completed           *)
(* collection releases an analysis of the pull request in every collection *)
(* that shows it and names a model provider.                               *)
(*                                                                         *)
(* The refresh that feeds the two queues is reduced here to the three      *)
(* steps they see: hydration reads the head, a batch publishes it, a       *)
(* snapshot settles the memberships and enqueues.  RefreshGeneration has   *)
(* those steps in full.                                                    *)
(*                                                                         *)
(* Granularity.  One Store transaction is one action, and so is one answer *)
(* of GitHub or of a model provider; anything may happen in between.  The  *)
(* empty head, which needs no diff, is left out.  "complete" and "partial" *)
(* evidence are both "usable".                                             *)
(***************************************************************************)
EXTENDS Naturals

CONSTANTS Heads,          \* head commits of the pull request
          NoHead,
          Collections,
          NoCollection,
          Concurrency     \* evidenceworker.Options.Concurrency

ASSUME NoHeadAssumption == NoHead \notin Heads
ASSUME NoCollectionAssumption == NoCollection \notin Collections
ASSUME ConcurrencyAssumption == Concurrency \in Nat \ {0}

VARIABLES
  ghHead,      \* the pull request's head on GitHub
  seen,        \* history: the heads it has had there
  returned,    \* history: the heads it was moved back to
  \* Configuration tables
  link,        \* link[c]: the collection_repositories row of c and whether c is active
  provider,    \* collections with a model_provider
  \* The refresh of the repository: what it hydrated for this pull request
  refresh,
  replacing,   \* workers a reload has still to replace
  \* Tables of the pull request
  row,         \* pull_requests.head_sha, NoHead without a row
  pub,         \* collection_pull_requests
  evidence,    \* pull_request_diff_evidence.completeness by head
  content,     \* pull_request_diff_sources by head: the head whose files were listed
  diff,        \* the active pull_request_diff_jobs row of each head
  job,         \* the active analysis_jobs row of each collection
  attempt,     \* analysis_attempt_state (and analysis_results) of each collection
  \* The evidence worker: whether it runs, and the work items of RunOnce
  collecting,
  slot,
  worker,      \* the analysis worker: program counter and the job it claimed
  owed         \* history: a forced request that reached a queued row, not served yet

github == <<ghHead, seen, returned>>
published == <<row, pub>>
config == <<link, provider>>
queues == <<diff, job>>
evidenceWorker == <<collecting, slot>>
vars == <<github, config, refresh, replacing, published, evidence, content, queues,
          attempt, evidenceWorker, worker, owed>>

-----------------------------------------------------------------------------
(* Data *)

Slots == 1..Concurrency
Active == {c \in Collections : link[c] = "active"}
NoRefresh == [phase |-> "idle", head |-> NoHead, ids |-> {}]
Terminal == {"unavailable", "usable"}

\* A work item of RunOnce; owns says that the row it claimed still exists.
Phases == {"claimed", "verify", "list", "recheck", "collected", "failed", "superseded"}
Slot == [phase : Phases \cup {"idle"}, head : Heads \cup {NoHead},
         listed : Heads \cup {NoHead}, owns : BOOLEAN]
IdleSlot == [phase |-> "idle", head |-> NoHead, listed |-> NoHead, owns |-> FALSE]

Jobs == [status : {"none", "queued", "running"}, head : Heads \cup {NoHead},
         forced : BOOLEAN]
NoJob == [status |-> "none", head |-> NoHead, forced |-> FALSE]

\* An attempt's input revision is the head and the completeness it was built
\* from; "none" is the empty revision of an input that could not be built.
Attempts == [status : {"none", "complete", "retryable"},
             head : Heads \cup {NoHead}, level : {"none"} \cup Terminal]
NoAttempt == [status |-> "none", head |-> NoHead, level |-> "none"]

Steps == {"down", "idle", "claimed", "checked", "unbuilt", "built", "answered",
          "finish", "requeue"}
Claims == [pc : Steps, c : Collections \cup {NoCollection},
           head : Heads \cup {NoHead}, forced : BOOLEAN, owns : BOOLEAN,
           level : {"none"} \cup Terminal, answer : {"none", "complete", "retryable"}]
Worker == {w \in Claims : w.pc \notin {"down", "idle"} =>
                          w.head \in Heads /\ w.c \in Collections}
At(pc) == [pc |-> pc, c |-> NoCollection, head |-> NoHead, forced |-> FALSE,
           owns |-> FALSE, level |-> "none", answer |-> "none"]

Init ==
  /\ ghHead \in Heads /\ seen = {ghHead} /\ returned = {}
  /\ link = [c \in Collections |-> "active"] /\ provider \in SUBSET Collections
  /\ refresh = NoRefresh /\ replacing = {}
  /\ row = NoHead /\ pub = {}
  /\ evidence = [h \in Heads |-> "none"] /\ content = [h \in Heads |-> NoHead]
  /\ diff = [h \in Heads |-> "none"]
  /\ job = [c \in Collections |-> NoJob]
  /\ attempt = [c \in Collections |-> NoAttempt]
  /\ collecting = FALSE /\ slot = [s \in Slots |-> IdleSlot]
  /\ worker = At("down")
  /\ owed = [c \in Collections |-> FALSE]

-----------------------------------------------------------------------------
(* The two queues as the transactions below change them *)

\* ON DELETE CASCADE from collection_pull_requests: rows of S stay.
Kept(table, S, none) == [c \in Collections |-> IF c \in S THEN table[c] ELSE none]

\* UPDATE analysis_jobs ... status = 'queued' AND head_sha != h
CancelOther(jobs, h) ==
  [c \in Collections |-> IF jobs[c].status = "queued" /\ jobs[c].head # h
                         THEN NoJob ELSE jobs[c]]

EnqueueOverForced(jobs, S, h, forced) ==
  [c \in Collections |->
     IF c \notin S \cap provider \/ jobs[c].status = "running" THEN jobs[c]
     ELSE [status |-> "queued", head |-> h, forced |-> forced]]

\* enqueueAnalysisForPRTx for the collections of S: a running row coalesces the
\* request and keeps its head and force.
Enqueue(jobs, S, h, forced) ==
  [c \in Collections |->
     IF c \notin S \cap provider \/ jobs[c].status = "running" THEN jobs[c]
     ELSE [status |-> "queued", head |-> h, forced |-> forced \/ jobs[c].forced]]

\* A promise lasts as long as the row it was marked on.
OwedOn(jobs) == [c \in Collections |-> owed[c] /\ jobs[c].status # "none"]

EnqueueTerminal(S, h) ==
  LET jobs == CancelOther(Kept(job, S, NoJob), h)
  IN /\ owed' = OwedOn(jobs)
     /\ \/ /\ evidence[h] \in Terminal
           /\ job' = Enqueue(jobs, S, h, FALSE)
           /\ UNCHANGED diff
        \/ /\ evidence[h] = "none"
           /\ job' = jobs
           /\ diff' = [diff EXCEPT ![h] = IF @ = "none" THEN "queued" ELSE @]

\* enqueuePullRequestDiffTx after the memberships of S were published.
EnqueuePullRequestDiff(S, h) ==
  LET jobs == CancelOther(Kept(job, S, NoJob), h)
  IN /\ owed' = OwedOn(jobs)
     /\ \/ /\ evidence[h] = "usable"
           /\ job' = Enqueue(jobs, S, h, FALSE)
           /\ UNCHANGED diff
        \/ /\ evidence[h] # "usable"
           /\ job' = jobs
           /\ diff' = [diff EXCEPT ![h] = IF @ = "none" THEN "queued" ELSE @]

-----------------------------------------------------------------------------
(* GitHub and the refresh *)

\* A force push may also move the head back to a commit it has left.
Push ==
  /\ ghHead' \in Heads \ {ghHead}
  /\ seen' = seen \cup {ghHead'}
  /\ returned' = IF ghHead' \in seen THEN returned \cup {ghHead'} ELSE returned
  /\ UNCHANGED <<config, refresh, replacing, published, evidence, content,
                 queues, attempt, evidenceWorker, worker, owed>>

\* A generation discovered the pull request for the collections of ids and its
\* batch was hydrated.
Hydrate ==
  /\ refresh.phase = "idle"
  /\ \E ids \in SUBSET Active \ {{}} :
       refresh' = [phase |-> "hydrated", head |-> ghHead, ids |-> ids]
  /\ UNCHANGED <<github, config, replacing, published, evidence, content,
                 queues, attempt, evidenceWorker, worker, owed>>

\* PublishRefreshGenerationBatch shows the new head and releases nothing.
PublishBatch ==
  /\ refresh.phase = "hydrated"
  /\ row' = refresh.head
  /\ pub' = pub \cup (refresh.ids \cap Active)
  /\ refresh' = [refresh EXCEPT !.phase = "staged"]
  /\ UNCHANGED <<github, config, replacing, evidence, content, queues, attempt,
                 evidenceWorker, worker, owed>>

FinishedInPhase == refresh' = [refresh EXCEPT !.head = NoHead]
Finished == refresh' = NoRefresh

\* A complete snapshot with the pull request in it.
PublishSnapshot ==
  /\ refresh.phase = "staged" /\ refresh.ids \subseteq Active
  /\ Finished
  /\ row' = refresh.head /\ pub' = refresh.ids
  /\ attempt' = Kept(attempt, pub', NoAttempt)
  /\ worker' = [worker EXCEPT !.owns = @ /\ worker.c \in pub']
  /\ EnqueuePullRequestDiff(pub', row')
  /\ UNCHANGED <<github, config, replacing, evidence, content, evidenceWorker>>

\* A complete snapshot without it: the row goes, and all that references it.
RemoveClosed ==
  /\ refresh.phase = "idle" /\ row # NoHead
  /\ row' = NoHead /\ pub' = {}
  /\ evidence' = [h \in Heads |-> "none"] /\ content' = [h \in Heads |-> NoHead]
  /\ diff' = [h \in Heads |-> "none"]
  /\ job' = Kept(job, {}, NoJob) /\ attempt' = Kept(attempt, {}, NoAttempt)
  /\ slot' = [s \in Slots |-> [slot[s] EXCEPT !.owns = FALSE]]
  /\ worker' = [worker EXCEPT !.owns = FALSE]
  /\ owed' = OwedOn(job')
  /\ UNCHANGED <<github, config, refresh, replacing, collecting>>

\* A staged collection does not configure the repository any more: the snapshot
\* is refused and the generation fails.
RefuseSnapshot ==
  /\ refresh.phase = "staged" /\ ~(refresh.ids \subseteq Active)
  /\ Finished
  /\ UNCHANGED <<github, config, replacing, published, evidence, content,
                 queues, attempt, evidenceWorker, worker, owed>>

\* The generation fails for a reason of its own.
Abandon ==
  /\ refresh.phase # "idle"
  /\ Finished
  /\ UNCHANGED <<github, config, replacing, published, evidence, content,
                 queues, attempt, evidenceWorker, worker, owed>>

-----------------------------------------------------------------------------
(* Configuration and requests *)

\* SyncCollections after the configuration of collection c changed, or not: rows
\* of a collection that lost the repository cascade, and every collection is
\* reconciled with the queue.
SyncCollections(c, state, model) ==
  LET links == [link EXCEPT ![c] = state]
      models == IF state = "inactive" THEN provider
                ELSE IF model THEN provider \cup {c} ELSE provider \ {c}
      kept == {d \in pub : links[d] # "absent"}
      jobs == Kept(job, kept, NoJob)
      Served(d) == links[d] # "inactive" /\ d \in models
      Queueing(d) == /\ d \in kept /\ Served(d) /\ jobs[d].status = "none"
                     /\ row # NoHead /\ evidence[row] = "usable"
  IN /\ state = "inactive" => link[c] # "absent"
     /\ link' = links /\ provider' = models
     /\ pub' = kept
     /\ job' = [d \in Collections |->
                  IF Queueing(d)
                  THEN [status |-> "queued", head |-> row, forced |-> FALSE]
                  ELSE IF jobs[d].status = "queued" /\ ~Served(d)
                       THEN NoJob ELSE jobs[d]]
     /\ attempt' = Kept(attempt, kept, NoAttempt)
     /\ owed' = OwedOn(job')

Synchronize ==
  \E c \in Collections, state \in {"active", "inactive", "absent"}, model \in BOOLEAN :
    SyncCollections(c, state, model)

\* A reload, accepted while everything runs; the workers are replaced next.
Reload ==
  /\ replacing = {}
  /\ Synchronize
  /\ replacing' = {"evidence", "analysis"}
  /\ worker' = [worker EXCEPT !.owns = @ /\ worker.c \in pub']
  /\ UNCHANGED <<github, refresh, row, evidence, content, diff,
                 evidenceWorker>>

\* The process ends and is started again: the configuration is synchronized
\* before the workers run, and what they held is gone.  A restart with another
\* configuration is a restart and a reload.
Restart ==
  /\ Synchronize /\ UNCHANGED config
  /\ replacing' = {}
  /\ refresh' = IF refresh.phase = "hydrated" THEN NoRefresh ELSE refresh
  /\ collecting' = FALSE /\ slot' = [s \in Slots |-> IdleSlot]
  /\ worker' = At("down")
  /\ UNCHANGED <<github, row, evidence, content, diff>>

\* EnqueueCollectionAnalysis as the reanalyze command calls it.
Reanalyze(c) ==
  /\ c \in provider \cap pub \cap Active /\ row # NoHead
  /\ job' = Enqueue(job, {c}, row, TRUE)
  /\ owed' = [owed EXCEPT ![c] = @ \/ job[c].status # "running"]
  /\ UNCHANGED <<github, config, refresh, replacing, published, evidence,
                 content, diff, attempt, evidenceWorker, worker>>

-----------------------------------------------------------------------------
(* The evidence worker: Run, RunOnce, claimFair and processDiff *)

\* RecoverEvidenceJobs
RecoveredDiffs == [h \in Heads |-> IF diff[h] = "running" THEN "queued" ELSE diff[h]]

StartEvidence ==
  /\ ~collecting
  /\ collecting' = TRUE
  /\ diff' = RecoveredDiffs
  /\ UNCHANGED <<github, config, refresh, replacing, published, evidence,
                 content, job, attempt, slot, worker, owed>>

\* A reload cancels the worker and waits for it: what it had claimed stays
\* running in the table.
StopEvidence ==
  /\ "evidence" \in replacing
  /\ replacing' = replacing \ {"evidence"}
  /\ collecting' = FALSE
  /\ slot' = [s \in Slots |-> IdleSlot]
  /\ UNCHANGED <<github, config, refresh, published, evidence, content, queues,
                 attempt, worker, owed>>

\* RunOnce claims for all its items before any of them starts, and waits for
\* all of them before it returns.
Claiming == collecting /\ \A s \in Slots : slot[s].phase \in {"idle", "claimed"}

ClaimPullRequestDiff(s, h) ==
  /\ Claiming
  /\ slot[s].phase = "idle" /\ \A t \in Slots : t < s => slot[t].phase = "claimed"
  /\ diff[h] = "queued"
  /\ diff' = [diff EXCEPT ![h] = "running"]
  /\ slot' = [slot EXCEPT ![s] = [phase |-> "claimed", head |-> h,
                                  listed |-> NoHead, owns |-> TRUE]]
  /\ UNCHANGED <<github, config, refresh, replacing, published, evidence,
                 content, job, attempt, collecting, worker, owed>>

\* The items of a round start; other kinds of evidence may have taken the rest.
BeginRound ==
  /\ Claiming /\ \E s \in Slots : slot[s].phase = "claimed"
  /\ slot' = [s \in Slots |-> IF slot[s].phase = "claimed"
                              THEN [slot[s] EXCEPT !.phase = "verify"] ELSE slot[s]]
  /\ UNCHANGED <<github, config, refresh, replacing, published, evidence,
                 content, queues, attempt, collecting, worker, owed>>

VerifyOnce(s, phase, next) ==
  /\ slot[s].phase = phase
  /\ slot' = [slot EXCEPT ![s].phase =
       IF phase = "recheck" \/ ghHead = slot[s].head THEN next ELSE "superseded"]
\* collectPullRequestDiffOnce: the head is verified, the files are listed, the
\* head is verified again.
Verify(s, phase, next) ==
  /\ slot[s].phase = phase
  /\ slot' = [slot EXCEPT ![s].phase = IF ghHead = slot[s].head THEN next
                                       ELSE "superseded"]
ListFiles(s) ==
  /\ slot[s].phase = "list"
  /\ slot' = [slot EXCEPT ![s].phase = "recheck", ![s].listed = ghHead]
\* No route answers, or the five minutes of the item are over.  The calls that
\* were answered before a failing one left nothing behind.
CollectionFails(s) ==
  /\ slot[s].phase = "verify"
  /\ slot' = [slot EXCEPT ![s].phase = "failed"]

CollectStep(s) ==
  /\ \/ Verify(s, "verify", "list")
     \/ ListFiles(s)
     \/ Verify(s, "recheck", "collected")
     \/ CollectionFails(s)
  /\ UNCHANGED <<github, config, refresh, replacing, published, evidence,
                 content, queues, attempt, collecting, worker, owed>>

CompletedCurrentRow(s) ==
  IF slot[s].owns /\ slot[s].head = row
  THEN [diff EXCEPT ![slot[s].head] = "none"] ELSE diff
CompletedRow(s) == IF slot[s].owns THEN [diff EXCEPT ![slot[s].head] = "none"] ELSE diff

SupersedePullRequestDiff(s) ==
  /\ slot[s].phase = "superseded"
  /\ diff' = CompletedRow(s)
  /\ slot' = [slot EXCEPT ![s] = IdleSlot]
  /\ UNCHANGED <<github, config, refresh, replacing, published, evidence,
                 content, job, attempt, collecting, worker, owed>>

\* Nothing is written when the pull request has left the store.  Analyses are
\* released only for the stored head, in every collection that shows it.
CompletePullRequestDiff(s) ==
  LET h == slot[s].head
  IN /\ slot[s].phase \in {"collected", "failed"}
     /\ slot' = [slot EXCEPT ![s] = IdleSlot]
     /\ \/ /\ row = NoHead
           /\ UNCHANGED <<evidence, content, queues>>
        \/ /\ row # NoHead
           /\ evidence' = [evidence EXCEPT ![h] =
                IF slot[s].phase = "collected" THEN "usable" ELSE "unavailable"]
           /\ content' = [content EXCEPT ![h] =
                IF slot[s].phase = "collected" THEN slot[s].listed ELSE NoHead]
           /\ diff' = CompletedRow(s)
           /\ job' = Enqueue(job, IF row = h THEN pub ELSE {}, row, FALSE)
     /\ UNCHANGED <<github, config, refresh, replacing, published, attempt,
                    collecting, worker, owed>>

EvidenceStep(s) ==
  CollectStep(s) \/ SupersedePullRequestDiff(s) \/ CompletePullRequestDiff(s)

-----------------------------------------------------------------------------
(* The analysis worker: Run, RunOnce and process *)

\* RecoverAnalysisJobs
RecoveredAnalysesNot == job
RecoveredAnalyses ==
  [c \in Collections |-> IF job[c].status = "running"
                         THEN [job[c] EXCEPT !.status = "queued"] ELSE job[c]]

StartAnalysis ==
  /\ worker.pc = "down"
  /\ worker' = At("idle")
  /\ job' = RecoveredAnalyses
  /\ UNCHANGED <<github, config, refresh, replacing, published, evidence,
                 content, diff, attempt, evidenceWorker, owed>>

StopAnalysis ==
  /\ "analysis" \in replacing
  /\ replacing' = replacing \ {"analysis"}
  /\ worker' = At("down")
  /\ UNCHANGED <<github, config, refresh, published, evidence, content, queues,
                 attempt, evidenceWorker, owed>>

ClaimAnalysis(c) ==
  /\ worker.pc = "idle"
  /\ job[c].status = "queued" /\ link[c] # "inactive" /\ c \in provider
  /\ row # NoHead /\ job[c].head = row /\ evidence[row] \in Terminal
  /\ job' = [job EXCEPT ![c].status = "running"]
  /\ worker' = [At("claimed") EXCEPT !.c = c, !.head = job[c].head,
                                     !.forced = job[c].forced, !.owns = TRUE]
  /\ UNCHANGED <<github, config, refresh, replacing, published, evidence,
                 content, diff, attempt, evidenceWorker, owed>>

\* BuildAnalysisRequest up to its checks of the membership, head and evidence.
CheckInput ==
  /\ worker.pc = "claimed"
  /\ worker' = [worker EXCEPT !.pc =
       IF row = worker.head /\ worker.c \in pub /\ evidence[row] \in Terminal
       THEN "checked" ELSE "unbuilt"]

\* The rest of it: evidence that is gone meanwhile counts as unavailable.
LoadInput ==
  /\ worker.pc = "checked"
  /\ worker' = [worker EXCEPT !.pc = "built", !.level =
       IF evidence[worker.head] = "none" THEN "unavailable" ELSE evidence[worker.head]]

\* AnalysisIsCurrent: an unforced job whose input has a complete attempt ends.
SkipCurrent ==
  /\ worker.pc = "built" /\ ~worker.forced
  /\ attempt[worker.c] = [status |-> "complete", head |-> worker.head,
                          level |-> worker.level]
  /\ worker' = [worker EXCEPT !.pc = "finish"]

\* The providers answer in turn; other input than the head and the diff may have
\* changed, so a call is possible whatever the cached attempt is.
Analyze ==
  /\ worker.pc = "built"
  /\ \E answer \in {"complete", "retryable"} :
       worker' = [worker EXCEPT !.pc = "answered", !.answer = answer]
  /\ owed' = [c \in Collections |-> owed[c] /\ ~(worker.owns /\ worker.c = c)]

SupersededNever == FALSE
\* ensureAnalysisJobCurrentTx
Superseded == row # worker.head

\* RecordAnalysisSections, RecordAnalysisFailure and RecordAnalysisBuildFailure:
\* ErrAnalysisSuperseded completes the job, a missing membership is a foreign
\* key error and requeues it.
RecordAttempt ==
  /\ worker.pc \in {"answered", "unbuilt"}
  /\ \/ /\ Superseded
        /\ worker' = [worker EXCEPT !.pc = "finish"]
        /\ UNCHANGED attempt
     \/ /\ ~Superseded /\ worker.c \notin pub
        /\ worker' = [worker EXCEPT !.pc = "requeue"]
        /\ UNCHANGED attempt
     \/ /\ ~Superseded /\ worker.c \in pub
        /\ worker' = [worker EXCEPT !.pc = "finish"]
        /\ attempt' = [attempt EXCEPT ![worker.c] =
             [status |-> IF worker.pc = "answered" THEN worker.answer ELSE "retryable",
              head |-> worker.head, level |-> worker.level]]

\* A query or a write fails.
StoreFails ==
  /\ worker.pc \in {"claimed", "checked", "unbuilt", "built", "answered"}
  /\ worker' = [worker EXCEPT !.pc = "requeue"]
  /\ UNCHANGED <<github, config, refresh, replacing, published, evidence,
                 content, queues, attempt, evidenceWorker, owed>>

RequeueAnalysisJob ==
  /\ worker.pc = "requeue"
  /\ worker' = At("idle")
  /\ job' = IF worker.owns THEN [job EXCEPT ![worker.c].status = "queued"] ELSE job

\* The row is released; a head that arrived meanwhile is enqueued unless its
\* evidence is still to come.
CompleteAnalysisJob ==
  LET c == worker.c
      done == [job EXCEPT ![c] = NoJob]
      behind == row # NoHead /\ row # worker.head /\ evidence[row] \in Terminal
  IN /\ worker.pc = "finish"
     /\ worker' = At("idle")
     /\ job' = IF ~worker.owns THEN job
               ELSE Enqueue(done, IF behind THEN {c} ELSE {}, row, FALSE)
     /\ owed' = IF worker.owns THEN OwedOn(done) ELSE owed

AnalysisStep ==
  /\ \/ CheckInput /\ UNCHANGED <<job, attempt, owed>>
     \/ LoadInput /\ UNCHANGED <<job, attempt, owed>>
     \/ SkipCurrent /\ UNCHANGED <<job, attempt, owed>>
     \/ Analyze /\ UNCHANGED <<job, attempt>>
     \/ RecordAttempt /\ UNCHANGED <<job, owed>>
     \/ RequeueAnalysisJob /\ UNCHANGED <<attempt, owed>>
     \/ CompleteAnalysisJob /\ UNCHANGED attempt
  /\ UNCHANGED <<github, config, refresh, replacing, published, evidence,
                 content, diff, evidenceWorker>>

-----------------------------------------------------------------------------

Refresh == Hydrate \/ PublishBatch \/ PublishSnapshot \/ RefuseSnapshot
Next ==
  \/ Push \/ Refresh \/ RemoveClosed \/ Abandon \/ Reload \/ Restart
  \/ \E c \in Collections : Reanalyze(c) \/ ClaimAnalysis(c)
  \/ StartEvidence \/ StopEvidence \/ BeginRound
  \/ \E s \in Slots, h \in Heads : ClaimPullRequestDiff(s, h)
  \/ \E s \in Slots : EvidenceStep(s)
  \/ StartAnalysis \/ StopAnalysis \/ AnalysisStep \/ StoreFails

Spec == Init /\ [][Next]_vars

-----------------------------------------------------------------------------
(* Properties *)

\* Every variable has its type.
TypeOK ==
  /\ ghHead \in Heads /\ seen \subseteq Heads /\ returned \subseteq Heads
  /\ link \in [Collections -> {"active", "inactive", "absent"}]
  /\ provider \subseteq Collections
  /\ refresh \in [phase : {"idle", "hydrated", "staged"},
                  head : Heads \cup {NoHead}, ids : SUBSET Collections]
  /\ refresh.phase # "idle" => refresh.head \in Heads
  /\ replacing \subseteq {"evidence", "analysis"}
  /\ row \in Heads \cup {NoHead} /\ pub \subseteq Collections
  /\ evidence \in [Heads -> {"none"} \cup Terminal]
  /\ content \in [Heads -> Heads \cup {NoHead}]
  /\ diff \in [Heads -> {"none", "queued", "running"}]
  /\ job \in [Collections -> Jobs]
  /\ attempt \in [Collections -> Attempts]
  /\ collecting \in BOOLEAN /\ slot \in [Slots -> Slot]
  /\ worker \in Worker
  /\ owed \in [Collections -> BOOLEAN]

\* A running row coalesces every later request, so each one has a live claim
\* that will end it: the row of RunOnce's item or of the analysis worker, until
\* a stopped worker is started and recovers its rows.
RunningHasClaim ==
  /\ \A h \in Heads : (diff[h] = "running" /\ collecting) =>
       \E s \in Slots : slot[s].owns /\ slot[s].head = h
  /\ \A c \in Collections : (job[c].status = "running" /\ worker.pc # "down") =>
       worker.owns /\ worker.c = c

\* Cached evidence of a head lists the files of that head: the collector
\* verifies the head before and after it lists them.  The two verifications
\* compare heads, so a head that was left and moved back to escapes them.
EvidenceOfItsHead ==
  \A h \in Heads : evidence[h] = "usable" => content[h] = h \/ h \in returned

\* A model's answer is recorded only while the pull request is still stored with
\* the head the answer is about, in a collection that shows it.
RecordedForStoredHead ==
  [][\A c \in Collections :
       (attempt'[c] # attempt[c] /\ attempt'[c] # NoAttempt) =>
         attempt'[c].head = row /\ c \in pub]_vars

\* A forced reanalysis that reached a queued row calls the provider: neither
\* coalescing, a restart nor a requeue turns it into a job that may be skipped
\* because its input is current.
ForcedIsNotSkipped ==
  [][\A c \in Collections :
       (worker.pc = "built" /\ worker'.pc = "finish" /\ worker.c = c /\ worker.owns)
         => ~owed[c]]_vars
=============================================================================
