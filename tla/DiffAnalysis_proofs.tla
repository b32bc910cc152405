------------------------ MODULE DiffAnalysis_proofs ------------------------
(***************************************************************************)
(* Machine-checked proofs about DiffAnalysis, for every set of heads and   *)
(* collections and every concurrency of the evidence worker.               *)
(***************************************************************************)
EXTENDS DiffAnalysis, TLAPS

-----------------------------------------------------------------------------
(* The inductive invariant *)

\* Diff jobs go with the pull request's row.
DiffNeedsRow == row = NoHead => \A h \in Heads : diff[h] = "none"

\* A work item without work holds no row; one that holds a row holds it for a
\* stored pull request.
SlotOwnership ==
  \A s \in Slots : /\ slot[s].phase = "idle" => ~slot[s].owns
                   /\ slot[s].owns => row # NoHead /\ slot[s].head \in Heads

\* The analysis worker holds a row only while it has claimed it, and the row is
\* running then and as forced as it was claimed.
WorkerOwnership ==
  /\ worker.pc \in {"down", "idle"} => ~worker.owns
  /\ worker.owns => /\ worker.c \in Collections
                    /\ job[worker.c].status = "running"
                    /\ job[worker.c].forced = worker.forced

\* A promised forced analysis is on a forced row.
OwedIsForced ==
  \A c \in Collections : owed[c] => job[c].status # "none" /\ job[c].forced

IInv == /\ TypeOK /\ DiffNeedsRow /\ SlotOwnership /\ RunningHasClaim
        /\ WorkerOwnership /\ OwedIsForced

-----------------------------------------------------------------------------
(* Lemmas about the two queues *)

\* The idle records have their types.
LEMMA IdleTypes ==
  /\ NoJob \in Jobs /\ NoAttempt \in Attempts /\ IdleSlot \in Slot
  /\ At("down") \in Worker /\ At("idle") \in Worker
BY DEF Claims, Steps, NoJob, Jobs, NoAttempt, Attempts, IdleSlot, Slot, Phases, At, Worker

\* A cascade keeps the rows of S and drops the others.
LEMMA KeptEffect ==
  ASSUME NEW T, NEW none \in T, NEW table \in [Collections -> T], NEW S
  PROVE  /\ Kept(table, S, none) \in [Collections -> T]
         /\ \A c \in Collections :
              Kept(table, S, none)[c] = IF c \in S THEN table[c] ELSE none
BY DEF Kept

\* Cancelling the queued rows of other heads leaves running rows alone.
LEMMA CancelOtherEffect ==
  ASSUME NEW jobs \in [Collections -> Jobs], NEW h
  PROVE  /\ CancelOther(jobs, h) \in [Collections -> Jobs]
         /\ \A c \in Collections :
              \/ CancelOther(jobs, h)[c] = jobs[c]
              \/ /\ CancelOther(jobs, h)[c] = NoJob
                 /\ jobs[c].status = "queued"
BY IdleTypes DEF CancelOther

\* Enqueueing leaves running rows alone, makes none running, removes none and
\* never takes the force away from a row.
LEMMA EnqueueEffect ==
  ASSUME NEW jobs \in [Collections -> Jobs], NEW S, NEW h \in Heads,
         NEW forced \in BOOLEAN
  PROVE  /\ Enqueue(jobs, S, h, forced) \in [Collections -> Jobs]
         /\ \A c \in Collections :
              \/ Enqueue(jobs, S, h, forced)[c] = jobs[c]
              \/ /\ jobs[c].status # "running" /\ c \in S
                 /\ Enqueue(jobs, S, h, forced)[c].status = "queued"
                 /\ forced \/ jobs[c].forced => Enqueue(jobs, S, h, forced)[c].forced
BY DEF Enqueue, Jobs

\* What a snapshot that shows the pull request in S does to the queues.
LEMMA SnapshotEffect ==
  ASSUME TypeOK, NEW S, NEW h \in Heads, EnqueuePullRequestDiff(S, h)
  PROVE  /\ job' \in [Collections -> Jobs]
         /\ diff' \in [Heads -> {"none", "queued", "running"}]
         /\ owed' \in [Collections -> BOOLEAN]
         /\ \A g \in Heads : diff'[g] = "running" => diff[g] = "running"
         /\ \A c \in Collections :
              /\ job'[c].status = "running" => job[c].status = "running" /\ c \in S
              /\ job[c].status = "running" /\ c \in S => job'[c] = job[c]
              /\ owed'[c] => /\ owed[c] /\ job'[c].status # "none"
                             /\ job[c].forced => job'[c].forced
<1>. DEFINE kept == Kept(job, S, NoJob)
            jobs == CancelOther(kept, h)
<1>1. /\ kept \in [Collections -> Jobs]
      /\ \A c \in Collections : kept[c] = IF c \in S THEN job[c] ELSE NoJob
  BY KeptEffect, IdleTypes DEF TypeOK
<1>. HIDE DEF kept
<1>2. /\ jobs \in [Collections -> Jobs]
      /\ \A c \in Collections : \/ jobs[c] = kept[c]
                                \/ jobs[c] = NoJob /\ kept[c].status = "queued"
  BY <1>1, CancelOtherEffect
<1>3. owed' = OwedOn(jobs)
  BY DEF EnqueuePullRequestDiff, kept
<1>4. \/ job' = Enqueue(jobs, S, h, FALSE) /\ diff' = diff
      \/ job' = jobs /\ diff' = [diff EXCEPT ![h] = IF @ = "none" THEN "queued" ELSE @]
  BY DEF EnqueuePullRequestDiff, kept
<1>. HIDE DEF jobs
<1>5. /\ job' \in [Collections -> Jobs]
      /\ \A c \in Collections :
           \/ job'[c] = jobs[c]
           \/ /\ jobs[c].status # "running" /\ job'[c].status = "queued"
              /\ jobs[c].forced => job'[c].forced
  <2>1. CASE job' = jobs
    BY <2>1, <1>2
  <2>2. CASE job' = Enqueue(jobs, S, h, FALSE)
    <3>1. /\ Enqueue(jobs, S, h, FALSE) \in [Collections -> Jobs]
          /\ \A c \in Collections :
               \/ Enqueue(jobs, S, h, FALSE)[c] = jobs[c]
               \/ /\ jobs[c].status # "running" /\ c \in S
                  /\ Enqueue(jobs, S, h, FALSE)[c].status = "queued"
                  /\ FALSE \/ jobs[c].forced => Enqueue(jobs, S, h, FALSE)[c].forced
      BY <1>2, EnqueueEffect
    <3>. QED  BY <2>2, <3>1
  <2>. QED  BY <1>4, <2>1, <2>2
<1>6. /\ diff' \in [Heads -> {"none", "queued", "running"}]
      /\ \A g \in Heads : diff'[g] = "running" => diff[g] = "running"
  BY <1>4 DEF TypeOK
<1>7. NoJob.status = "none"
  BY DEF NoJob
<1>8. ASSUME NEW c \in Collections
      PROVE  /\ job'[c].status = "running" => job[c].status = "running" /\ c \in S
             /\ job[c].status = "running" /\ c \in S => job'[c] = job[c]
  BY <1>1, <1>2, <1>5, <1>7
<1>9. ASSUME NEW c \in Collections, owed'[c]
      PROVE  owed[c] /\ job'[c].status # "none" /\ (job[c].forced => job'[c].forced)
  <2>1. owed[c] /\ jobs[c].status # "none"
    BY <1>3, <1>9 DEF OwedOn
  <2>2. jobs[c] = job[c]
    BY <1>1, <1>2, <1>7, <2>1
  <2>. QED  BY <1>5, <2>1, <2>2
<1>10. owed' \in [Collections -> BOOLEAN]
  BY <1>3 DEF OwedOn, TypeOK
<1>. QED  BY <1>5, <1>6, <1>8, <1>9, <1>10

\* What the completion of a diff does to the analysis queue.
LEMMA CompletionEffect ==
  ASSUME TypeOK, NEW s \in Slots, CompletePullRequestDiff(s), row # NoHead
  PROVE  /\ job' \in [Collections -> Jobs]
         /\ \A c \in Collections :
              \/ job'[c] = job[c]
              \/ /\ job[c].status # "running" /\ job'[c].status = "queued"
                 /\ job[c].forced => job'[c].forced
<1>. DEFINE shown == IF row = slot[s].head THEN pub ELSE {}
<1>1. job' = Enqueue(job, shown, row, FALSE)
  BY DEF CompletePullRequestDiff
<1>2. row \in Heads /\ job \in [Collections -> Jobs]
  BY DEF TypeOK
<1>. HIDE DEF shown
<1>3. /\ Enqueue(job, shown, row, FALSE) \in [Collections -> Jobs]
      /\ \A c \in Collections :
           \/ Enqueue(job, shown, row, FALSE)[c] = job[c]
           \/ /\ job[c].status # "running" /\ c \in shown
              /\ Enqueue(job, shown, row, FALSE)[c].status = "queued"
              /\ FALSE \/ job[c].forced => Enqueue(job, shown, row, FALSE)[c].forced
  BY <1>2, EnqueueEffect
<1>. QED  BY <1>1, <1>3

\* What the completion of an analysis does to the queue: its row goes, and the row
\* of a follow-up is queued.
LEMMA FollowUpEffect ==
  ASSUME TypeOK, CompleteAnalysisJob
  PROVE  /\ job' \in [Collections -> Jobs] /\ owed' \in [Collections -> BOOLEAN]
         /\ ~worker.owns => job' = job /\ owed' = owed
         /\ \A c \in Collections :
              /\ worker.owns /\ c # worker.c => job'[c] = job[c] /\ owed'[c] = (owed[c] /\ job[c].status # "none")
              /\ worker.owns /\ c = worker.c => job'[c].status # "running" /\ ~owed'[c]
<1>1. CASE ~worker.owns
  BY <1>1 DEF CompleteAnalysisJob, TypeOK
<1>2. CASE worker.owns
  <2>. DEFINE done == [job EXCEPT ![worker.c] = NoJob]
             behind == row # NoHead /\ row # worker.head /\ evidence[row] \in Terminal
             next == IF behind THEN {worker.c} ELSE {}
  <2>1. /\ job' = Enqueue(done, next, row, FALSE) /\ owed' = OwedOn(done)
    BY <1>2 DEF CompleteAnalysisJob
  <2>2. /\ done \in [Collections -> Jobs]
        /\ \A c \in Collections : done[c] = IF c = worker.c THEN NoJob ELSE job[c]
    BY IdleTypes DEF TypeOK
  <2>3. next # {} => row \in Heads
    BY DEF TypeOK
  <2>4. next \subseteq {worker.c}
    OBVIOUS
  <2>. HIDE DEF done, behind, next
  <2>5. /\ job' \in [Collections -> Jobs]
        /\ \A c \in Collections :
             \/ job'[c] = done[c]
             \/ c \in next /\ job'[c].status = "queued"
    <3>1. CASE next = {}
      <4>1. Enqueue(done, {}, row, FALSE) = [c \in Collections |-> done[c]]
        BY DEF Enqueue
      <4>2. job' = done
        BY <3>1, <4>1, <2>1, <2>2
      <4>. QED  BY <4>2, <2>2
    <3>2. CASE next # {}
      <4>1. /\ Enqueue(done, next, row, FALSE) \in [Collections -> Jobs]
            /\ \A c \in Collections :
                 \/ Enqueue(done, next, row, FALSE)[c] = done[c]
                 \/ /\ done[c].status # "running" /\ c \in next
                    /\ Enqueue(done, next, row, FALSE)[c].status = "queued"
                    /\ FALSE \/ done[c].forced => Enqueue(done, next, row, FALSE)[c].forced
        BY <2>2, <2>3, <3>2, EnqueueEffect
      <4>. QED  BY <4>1, <2>1
    <3>. QED  BY <3>1, <3>2
  <2>6. NoJob.status = "none"
    BY DEF NoJob
  <2>7. \A c \in Collections : owed'[c] = (owed[c] /\ done[c].status # "none")
    BY <2>1 DEF OwedOn
  <2>8. owed' \in [Collections -> BOOLEAN]
    BY <2>1 DEF OwedOn, TypeOK
  <2>. QED  BY <1>2, <2>2, <2>4, <2>5, <2>6, <2>7, <2>8
<1>. QED  BY <1>1, <1>2

\* What a synchronization of the configuration does to the analysis queue.
LEMMA SyncEffect ==
  ASSUME TypeOK, Synchronize
  PROVE  /\ link' \in [Collections -> {"active", "inactive", "absent"}]
         /\ provider' \subseteq Collections /\ pub' \subseteq Collections
         /\ job' \in [Collections -> Jobs] /\ attempt' \in [Collections -> Attempts]
         /\ owed' \in [Collections -> BOOLEAN]
         /\ \A c \in Collections : attempt'[c] = attempt[c] \/ attempt'[c] = NoAttempt
         /\ \A c \in Collections :
              /\ job'[c].status = "running" => job[c].status = "running" /\ c \in pub'
              /\ job[c].status = "running" /\ c \in pub' => job'[c] = job[c]
              /\ owed'[c] /\ job[c].status # "none" => owed[c] /\ job'[c] = job[c]
              /\ owed'[c] => owed[c] /\ job'[c].status # "none"
<1>1. PICK e \in Collections, state \in {"active", "inactive", "absent"}, model \in BOOLEAN :
        SyncCollections(e, state, model)
  BY DEF Synchronize
<1>. DEFINE jobs == Kept(job, pub', NoJob)
<1>2. /\ link' \in [Collections -> {"active", "inactive", "absent"}]
      /\ provider' \subseteq Collections /\ pub' \subseteq Collections
  BY <1>1 DEF SyncCollections, TypeOK
<1>3. /\ jobs \in [Collections -> Jobs]
      /\ \A c \in Collections : jobs[c] = IF c \in pub' THEN job[c] ELSE NoJob
  BY KeptEffect, IdleTypes DEF TypeOK
<1>. HIDE DEF jobs
<1>4. \A c \in Collections :
        \/ job'[c] = jobs[c]
        \/ job'[c] = NoJob /\ jobs[c].status = "queued"
        \/ /\ job'[c] = [status |-> "queued", head |-> row, forced |-> FALSE]
           /\ c \in pub' /\ jobs[c].status = "none"
  BY <1>1 DEF jobs, SyncCollections
<1>5. job' \in [Collections -> Jobs]
  <2>1. job' = [c \in Collections |-> job'[c]]
    BY <1>1 DEF SyncCollections
  <2>2. [status |-> "queued", head |-> row, forced |-> FALSE] \in Jobs
    BY DEF Jobs, TypeOK
  <2>3. \A c \in Collections : job'[c] \in Jobs
    BY <1>3, <1>4, <2>2, IdleTypes
  <2>. QED  BY <2>1, <2>3
<1>6. /\ attempt' \in [Collections -> Attempts]
      /\ \A c \in Collections : attempt'[c] = attempt[c] \/ attempt'[c] = NoAttempt
  <2>1. attempt' = Kept(attempt, pub', NoAttempt)
    BY <1>1 DEF SyncCollections
  <2>. QED  BY <2>1, KeptEffect, IdleTypes DEF TypeOK
<1>7. owed' = OwedOn(job')
  BY <1>1 DEF SyncCollections
<1>8. owed' \in [Collections -> BOOLEAN] /\ NoJob.status = "none"
  BY <1>7 DEF OwedOn, TypeOK, NoJob
<1>9. ASSUME NEW c \in Collections
      PROVE  /\ job'[c].status = "running" => job[c].status = "running" /\ c \in pub'
             /\ job[c].status = "running" /\ c \in pub' => job'[c] = job[c]
  BY <1>3, <1>4, <1>8
<1>10. ASSUME NEW c \in Collections, owed'[c]
       PROVE  /\ owed[c] /\ job'[c].status # "none"
              /\ job[c].status # "none" => job'[c] = job[c]
  <2>1. owed[c] /\ job'[c].status # "none"
    BY <1>7, <1>10 DEF OwedOn
  <2>. QED  BY <2>1, <1>3, <1>4, <1>8
<1>. QED  BY <1>2, <1>5, <1>6, <1>8, <1>9, <1>10

-----------------------------------------------------------------------------
(* Type correctness *)

\* The initial state has the types.
LEMMA InitType == Init => TypeOK
<1>. SUFFICES ASSUME Init PROVE TypeOK
  OBVIOUS
<1>1. worker \in Worker /\ slot \in [Slots -> Slot]
  BY IdleTypes DEF Init, Steps
<1>2. job \in [Collections -> Jobs] /\ attempt \in [Collections -> Attempts]
  BY IdleTypes DEF Init
<1>. QED  BY <1>1, <1>2 DEF Init, TypeOK, NoRefresh

\* GitHub and the refresh keep the types.
LEMMA TypeRefreshStep == TypeOK /\ (Push \/ Refresh \/ RemoveClosed \/ Abandon) => TypeOK'
<1>. SUFFICES ASSUME TypeOK, Push \/ Refresh \/ RemoveClosed \/ Abandon PROVE TypeOK'
  OBVIOUS
<1>. USE DEF github, config, published, queues, evidenceWorker
<1>1. CASE Push
  BY <1>1 DEF Push, TypeOK
<1>2. CASE Hydrate
  BY <1>2 DEF Hydrate, TypeOK, Active
<1>3. CASE PublishBatch
  BY <1>3 DEF PublishBatch, TypeOK, Active
<1>4. CASE PublishSnapshot
  <2>1. row' \in Heads /\ pub' \subseteq Collections
    BY <1>4 DEF PublishSnapshot, TypeOK
  <2>2. /\ job' \in [Collections -> Jobs]
        /\ diff' \in [Heads -> {"none", "queued", "running"}]
        /\ owed' \in [Collections -> BOOLEAN]
    BY <1>4, <2>1, SnapshotEffect DEF PublishSnapshot
  <2>3. attempt' \in [Collections -> Attempts]
    BY <1>4, KeptEffect, IdleTypes DEF PublishSnapshot, TypeOK
  <2>4. worker' \in Worker
    BY <1>4 DEF PublishSnapshot, TypeOK, Worker, Claims
  <2>. QED  BY <1>4, <2>1, <2>2, <2>3, <2>4 DEF PublishSnapshot, TypeOK, Finished, NoRefresh
<1>5. CASE RefuseSnapshot
  BY <1>5 DEF RefuseSnapshot, TypeOK, Finished, NoRefresh
<1>6. CASE RemoveClosed
  <2>1. job' \in [Collections -> Jobs] /\ attempt' \in [Collections -> Attempts]
    BY <1>6, KeptEffect, IdleTypes DEF RemoveClosed, TypeOK
  <2>2. worker' \in Worker
    BY <1>6 DEF RemoveClosed, TypeOK, Worker, Claims
  <2>4. slot' \in [Slots -> Slot]
    BY <1>6 DEF RemoveClosed, TypeOK, Slot
  <2>3. owed' \in [Collections -> BOOLEAN]
    BY <1>6 DEF RemoveClosed, TypeOK, OwedOn
  <2>. QED  BY <1>6, <2>1, <2>2, <2>3, <2>4 DEF RemoveClosed, TypeOK
<1>7. CASE Abandon
  BY <1>7 DEF Abandon, TypeOK, Finished, NoRefresh
<1>. QED  BY <1>1, <1>2, <1>3, <1>4, <1>5, <1>6, <1>7 DEF Refresh

\* Reloads, restarts and requests keep the types.
LEMMA TypeConfigStep ==
  TypeOK /\ (Reload \/ Restart \/ \E c \in Collections : Reanalyze(c)) => TypeOK'
<1>. SUFFICES ASSUME TypeOK, Reload \/ Restart \/ \E c \in Collections : Reanalyze(c)
              PROVE  TypeOK'
  OBVIOUS
<1>. USE DEF github, config, published, queues, evidenceWorker
<1>1. CASE Reload
  <2>1. Synchronize
    BY <1>1 DEF Reload
  <2>2. worker' \in Worker
    BY <1>1 DEF Reload, TypeOK, Worker, Claims
  <2>. QED  BY <1>1, <2>1, <2>2, SyncEffect DEF Reload, TypeOK
<1>2. CASE Restart
  <2>1. Synchronize
    BY <1>2 DEF Restart
  <2>2. worker' \in Worker /\ slot' \in [Slots -> Slot]
    BY <1>2, IdleTypes DEF Restart, Steps
  <2>3. /\ refresh' \in [phase : {"idle", "hydrated", "staged"},
                         head : Heads \cup {NoHead}, ids : SUBSET Collections]
        /\ refresh'.phase # "idle" => refresh'.head \in Heads
    BY <1>2 DEF Restart, TypeOK, NoRefresh
  <2>. QED  BY <1>2, <2>1, <2>2, <2>3, SyncEffect DEF Restart, TypeOK
<1>3. ASSUME NEW c \in Collections, Reanalyze(c) PROVE TypeOK'
  <2>1. row \in Heads
    BY <1>3 DEF Reanalyze, TypeOK
  <2>2. job' \in [Collections -> Jobs]
    BY <1>3, <2>1, EnqueueEffect DEF Reanalyze, TypeOK
  <2>. QED  BY <1>3, <2>2 DEF Reanalyze, TypeOK
<1>. QED  BY <1>1, <1>2, <1>3

\* The steps of the evidence worker.
EvidenceNext ==
  \/ StartEvidence \/ StopEvidence \/ BeginRound
  \/ \E s \in Slots, h \in Heads : ClaimPullRequestDiff(s, h)
  \/ \E s \in Slots : EvidenceStep(s)

\* The evidence worker keeps the types.
LEMMA TypeEvidenceStep == TypeOK /\ EvidenceNext => TypeOK'
<1>. SUFFICES ASSUME TypeOK, EvidenceNext PROVE TypeOK'
  OBVIOUS
<1>. USE DEF github, config, published, queues, evidenceWorker
<1>1. CASE StartEvidence
  BY <1>1 DEF StartEvidence, TypeOK, RecoveredDiffs
<1>2. CASE StopEvidence
  BY <1>2, IdleTypes DEF StopEvidence, TypeOK
<1>3. CASE BeginRound
  <2>1. slot' \in [Slots -> Slot]
    BY <1>3 DEF BeginRound, TypeOK, Slot, Phases
  <2>. QED  BY <1>3, <2>1 DEF BeginRound, TypeOK
<1>4. ASSUME NEW s \in Slots, NEW h \in Heads, ClaimPullRequestDiff(s, h) PROVE TypeOK'
  <2>1. slot' \in [Slots -> Slot]
    BY <1>4 DEF ClaimPullRequestDiff, TypeOK, Slot, Phases
  <2>. QED  BY <1>4, <2>1 DEF ClaimPullRequestDiff, TypeOK
<1>5. ASSUME NEW s \in Slots, CollectStep(s) PROVE TypeOK'
  <2>1. slot' \in [Slots -> Slot]
    BY <1>5 DEF CollectStep, Verify, ListFiles, CollectionFails, TypeOK, Slot, Phases
  <2>. QED  BY <1>5, <2>1 DEF CollectStep, TypeOK
<1>6. ASSUME NEW s \in Slots, SupersedePullRequestDiff(s) PROVE TypeOK'
  BY <1>6, IdleTypes DEF SupersedePullRequestDiff, CompletedRow, TypeOK
<1>7. ASSUME NEW s \in Slots, CompletePullRequestDiff(s) PROVE TypeOK'
  <2>1. slot' \in [Slots -> Slot]
    BY <1>7, IdleTypes DEF CompletePullRequestDiff, TypeOK
  <2>2. CASE row = NoHead
    BY <1>7, <2>1, <2>2 DEF CompletePullRequestDiff, TypeOK
  <2>3. CASE row # NoHead
    <3>1. job' \in [Collections -> Jobs]
      BY <1>7, <2>3, CompletionEffect
    <3>2. diff' \in [Heads -> {"none", "queued", "running"}]
      BY <1>7, <2>3 DEF CompletePullRequestDiff, CompletedRow, TypeOK
    <3>3. slot[s].listed \in Heads \cup {NoHead}
      BY DEF TypeOK, Slot
    <3>4. /\ evidence' \in [Heads -> {"none"} \cup Terminal]
          /\ content' \in [Heads -> Heads \cup {NoHead}]
      BY <1>7, <2>3, <3>3 DEF CompletePullRequestDiff, TypeOK, Terminal
    <3>. QED  BY <1>7, <2>1, <3>1, <3>2, <3>4 DEF CompletePullRequestDiff, TypeOK
  <2>. QED  BY <2>2, <2>3
<1>. QED  BY <1>1, <1>2, <1>3, <1>4, <1>5, <1>6, <1>7 DEF EvidenceNext, EvidenceStep

\* The steps of the analysis worker.
AnalysisNext ==
  \/ StartAnalysis \/ StopAnalysis \/ AnalysisStep \/ StoreFails
  \/ \E c \in Collections : ClaimAnalysis(c)

\* The analysis worker keeps the types.
LEMMA TypeAnalysisStep == TypeOK /\ AnalysisNext => TypeOK'
<1>. SUFFICES ASSUME TypeOK, AnalysisNext PROVE TypeOK'
  OBVIOUS
<1>. USE DEF github, config, published, queues, evidenceWorker
<1>1. CASE StartAnalysis
  <2>1. worker' \in Worker
    BY <1>1, IdleTypes DEF StartAnalysis, Steps
  <2>2. job' \in [Collections -> Jobs]
    BY <1>1 DEF StartAnalysis, RecoveredAnalyses, TypeOK, Jobs
  <2>. QED  BY <1>1, <2>1, <2>2 DEF StartAnalysis, TypeOK
<1>2. CASE StopAnalysis
  <2>1. worker' \in Worker
    BY <1>2, IdleTypes DEF StopAnalysis, Steps
  <2>. QED  BY <1>2, <2>1 DEF StopAnalysis, TypeOK
<1>3. CASE StoreFails
  <2>1. worker' \in Worker
    BY <1>3 DEF StoreFails, TypeOK, Worker, Claims, Steps
  <2>. QED  BY <1>3, <2>1 DEF StoreFails, TypeOK
<1>4. ASSUME NEW c \in Collections, ClaimAnalysis(c) PROVE TypeOK'
  <2>1. job[c].head \in Heads \cup {NoHead} /\ job[c].forced \in BOOLEAN
    BY DEF TypeOK, Jobs
  <2>2. worker' \in Worker
    BY <1>4, <2>1 DEF ClaimAnalysis, At, Worker, Claims, Steps
  <2>3. job' \in [Collections -> Jobs]
    BY <1>4 DEF ClaimAnalysis, TypeOK, Jobs
  <2>. QED  BY <1>4, <2>2, <2>3 DEF ClaimAnalysis, TypeOK
<1>5. CASE AnalysisStep
  <2>0. TypeOK' <=> /\ job' \in [Collections -> Jobs] /\ worker' \in Worker
                    /\ attempt' \in [Collections -> Attempts]
                    /\ owed' \in [Collections -> BOOLEAN]
    BY <1>5 DEF AnalysisStep, TypeOK
  <2>1. ASSUME CheckInput, UNCHANGED <<job, attempt, owed>> PROVE TypeOK'
    <3>1. worker' \in Worker
      BY <2>1 DEF CheckInput, TypeOK, Worker, Claims, Steps
    <3>. QED  BY <2>0, <2>1, <3>1 DEF TypeOK
  <2>2. ASSUME LoadInput, UNCHANGED <<job, attempt, owed>> PROVE TypeOK'
    <3>1. \A h \in Heads : evidence[h] \in {"none"} \cup Terminal
      BY DEF TypeOK
    <3>2. worker' \in Worker
      BY <2>2, <3>1 DEF LoadInput, TypeOK, Worker, Claims, Steps, Terminal
    <3>. QED  BY <2>0, <2>2, <3>2 DEF TypeOK
  <2>3. ASSUME SkipCurrent, UNCHANGED <<job, attempt, owed>> PROVE TypeOK'
    <3>1. worker' \in Worker
      BY <2>3 DEF SkipCurrent, TypeOK, Worker, Claims, Steps
    <3>. QED  BY <2>0, <2>3, <3>1 DEF TypeOK
  <2>4. ASSUME Analyze, UNCHANGED <<job, attempt>> PROVE TypeOK'
    <3>1. worker' \in Worker
      <4>1. PICK answer \in {"complete", "retryable"} :
              worker' = [worker EXCEPT !.pc = "answered", !.answer = answer]
        BY <2>4 DEF Analyze
      <4>2. worker.pc = "built"
        BY <2>4 DEF Analyze
      <4>. QED  BY <4>1, <4>2 DEF TypeOK, Worker, Claims, Steps
    <3>2. owed' \in [Collections -> BOOLEAN]
      BY <2>4 DEF Analyze
    <3>. QED  BY <2>0, <2>4, <3>1, <3>2 DEF TypeOK
  <2>5. ASSUME RecordAttempt, UNCHANGED <<job, owed>> PROVE TypeOK'
    <3>1. worker' \in Worker
      BY <2>5 DEF RecordAttempt, TypeOK, Worker, Claims, Steps
    <3>2. [status |-> IF worker.pc = "answered" THEN worker.answer ELSE "retryable",
           head |-> worker.head, level |-> worker.level] \in Attempts
      BY DEF TypeOK, Worker, Claims, Attempts
    <3>3. attempt' \in [Collections -> Attempts]
      BY <2>5, <3>2 DEF RecordAttempt, TypeOK
    <3>. QED  BY <2>0, <2>5, <3>1, <3>3 DEF TypeOK
  <2>6. ASSUME RequeueAnalysisJob, UNCHANGED <<attempt, owed>> PROVE TypeOK'
    <3>1. worker' \in Worker
      BY <2>6, IdleTypes DEF RequeueAnalysisJob, Steps
    <3>2. job' \in [Collections -> Jobs]
      <4>1. worker.c \in Collections
        BY <2>6 DEF RequeueAnalysisJob, TypeOK, Worker
      <4>2. [job[worker.c] EXCEPT !.status = "queued"] \in Jobs
        BY <4>1 DEF TypeOK, Jobs
      <4>. QED  BY <2>6, <4>1, <4>2 DEF RequeueAnalysisJob, TypeOK
    <3>. QED  BY <2>0, <2>6, <3>1, <3>2 DEF TypeOK
  <2>7. ASSUME CompleteAnalysisJob, UNCHANGED attempt PROVE TypeOK'
    <3>1. worker' \in Worker
      BY <2>7, IdleTypes DEF CompleteAnalysisJob, Steps
    <3>. QED  BY <2>0, <2>7, <3>1, FollowUpEffect DEF TypeOK
  <2>. QED  BY <1>5, <2>1, <2>2, <2>3, <2>4, <2>5, <2>6, <2>7 DEF AnalysisStep
<1>. QED  BY <1>1, <1>2, <1>3, <1>4, <1>5 DEF AnalysisNext

\* Every step keeps the types.
LEMMA TypeStep == TypeOK /\ [Next]_vars => TypeOK'
<1>1. TypeOK /\ UNCHANGED vars => TypeOK'
  BY DEF vars, github, config, published, queues, evidenceWorker, TypeOK
<1>. QED
  BY <1>1, TypeRefreshStep, TypeConfigStep, TypeEvidenceStep, TypeAnalysisStep
  DEF Next, EvidenceNext, AnalysisNext

-----------------------------------------------------------------------------
(* The evidence worker's claims *)

\* The half of RunningHasClaim that is about diff jobs.
DiffHasClaim ==
  \A h \in Heads : (diff[h] = "running" /\ collecting) =>
    \E s \in Slots : slot[s].owns /\ slot[s].head = h

EvidenceInv == DiffNeedsRow /\ SlotOwnership /\ DiffHasClaim

\* Steps that touch neither the diff jobs, nor the row, nor the evidence worker.
LEMMA EvidenceFrame ==
  ASSUME \/ Push \/ Hydrate \/ RefuseSnapshot \/ Abandon \/ Reload \/ UNCHANGED vars
         \/ \E c \in Collections : Reanalyze(c)
         \/ AnalysisNext
  PROVE  UNCHANGED <<row, diff, slot, collecting>>
<1>. USE DEF github, config, published, queues, evidenceWorker
<1>1. CASE Push \/ Hydrate \/ RefuseSnapshot \/ Abandon \/ Reload \/ UNCHANGED vars
  BY <1>1 DEF Push, Hydrate, RefuseSnapshot, Abandon, Reload, vars
<1>2. CASE \E c \in Collections : Reanalyze(c)
  BY <1>2 DEF Reanalyze
<1>3. CASE AnalysisNext
  BY <1>3 DEF AnalysisNext, StartAnalysis, StopAnalysis, AnalysisStep, StoreFails,
              ClaimAnalysis
<1>. QED  BY <1>1, <1>2, <1>3

\* A slot that does not change stays; a work item that ends without a row, or
\* with its row, leaves no running row behind.
LEMMA EndOfItem ==
  ASSUME TypeOK, EvidenceInv, NEW s \in Slots,
         slot' = [slot EXCEPT ![s] = IdleSlot], diff' = CompletedRow(s),
         UNCHANGED <<row, collecting>>
  PROVE  EvidenceInv'
<1>1. \A h \in Heads : diff'[h] = IF slot[s].owns /\ slot[s].head = h THEN "none" ELSE diff[h]
  BY DEF CompletedRow, TypeOK
<1>2. \A t \in Slots : slot'[t] = IF t = s THEN IdleSlot ELSE slot[t]
  BY DEF TypeOK
<1>3. ~IdleSlot.owns
  BY DEF IdleSlot
<1>4. DiffNeedsRow'
  BY <1>1 DEF EvidenceInv, DiffNeedsRow
<1>5. SlotOwnership'
  BY <1>2, <1>3 DEF EvidenceInv, SlotOwnership
<1>6. DiffHasClaim'
  <2>. SUFFICES ASSUME NEW h \in Heads, diff'[h] = "running", collecting'
                PROVE  \E t \in Slots : slot'[t].owns /\ slot'[t].head = h
    BY DEF DiffHasClaim
  <2>1. diff[h] = "running" /\ ~(slot[s].owns /\ slot[s].head = h)
    BY <1>1
  <2>2. PICK t \in Slots : slot[t].owns /\ slot[t].head = h
    BY <2>1 DEF EvidenceInv, DiffHasClaim
  <2>. QED  BY <1>2, <2>1, <2>2
<1>. QED  BY <1>4, <1>5, <1>6 DEF EvidenceInv

\* A work item that goes on keeps its row.
LEMMA ItemMovesOn ==
  ASSUME EvidenceInv, UNCHANGED <<row, diff, collecting>>,
         \A s \in Slots : /\ (slot'[s].owns <=> slot[s].owns) /\ slot'[s].head = slot[s].head
                          /\ slot'[s].phase = "idle" => slot[s].phase = "idle"
  PROVE  EvidenceInv'
<1>1. DiffNeedsRow'
  BY DEF EvidenceInv, DiffNeedsRow
<1>2. SlotOwnership'
  BY DEF EvidenceInv, SlotOwnership
<1>3. DiffHasClaim'
  <2>. SUFFICES ASSUME NEW h \in Heads, diff'[h] = "running", collecting'
                PROVE  \E t \in Slots : slot'[t].owns /\ slot'[t].head = h
    BY DEF DiffHasClaim
  <2>1. PICK t \in Slots : slot[t].owns /\ slot[t].head = h
    BY DEF EvidenceInv, DiffHasClaim
  <2>. QED  BY <2>1
<1>. QED  BY <1>1, <1>2, <1>3 DEF EvidenceInv

\* A row that loses its last running entry needs no claim.
LEMMA NoneRunning ==
  ASSUME SlotOwnership', DiffNeedsRow', \A h \in Heads : diff'[h] = "running" => ~collecting'
  PROVE  EvidenceInv'
BY DEF EvidenceInv, DiffHasClaim

\* Every step keeps the claims of the evidence worker.
LEMMA EvidenceInvStep == TypeOK /\ EvidenceInv /\ [Next]_vars => EvidenceInv'
<1>. SUFFICES ASSUME TypeOK, EvidenceInv, [Next]_vars PROVE EvidenceInv'
  OBVIOUS
<1>. USE DEF github, config, published, queues, evidenceWorker
<1>1. ASSUME UNCHANGED <<row, diff, slot, collecting>> PROVE EvidenceInv'
  BY <1>1 DEF EvidenceInv, DiffNeedsRow, SlotOwnership, DiffHasClaim
<1>2. ASSUME UNCHANGED <<slot, collecting>>, row' \in Heads,
             \A h \in Heads : diff'[h] = "running" => diff[h] = "running"
      PROVE  EvidenceInv'
  BY <1>2, NoHeadAssumption DEF EvidenceInv, DiffNeedsRow, SlotOwnership, DiffHasClaim
<1>3. CASE PublishBatch
  BY <1>2, <1>3 DEF PublishBatch, TypeOK
<1>4. CASE PublishSnapshot
  <2>1. row' \in Heads /\ EnqueuePullRequestDiff(pub', row')
    BY <1>4 DEF PublishSnapshot, TypeOK
  <2>. QED  BY <1>2, <1>4, <2>1, SnapshotEffect DEF PublishSnapshot
<1>5. CASE RemoveClosed
  <2>1. \A h \in Heads : diff'[h] = "none"
    BY <1>5 DEF RemoveClosed
  <2>2. \A s \in Slots : ~slot'[s].owns
    BY <1>5 DEF RemoveClosed, TypeOK, Slot
  <2>. QED  BY <2>1, <2>2, NoneRunning DEF SlotOwnership, DiffNeedsRow
<1>6. CASE Restart \/ StopEvidence
  <2>1. ~collecting' /\ \A s \in Slots : ~slot'[s].owns
    BY <1>6 DEF Restart, StopEvidence, IdleSlot
  <2>2. UNCHANGED <<row, diff>>
    BY <1>6 DEF Restart, StopEvidence
  <2>. QED  BY <2>1, <2>2, NoneRunning DEF EvidenceInv, SlotOwnership, DiffNeedsRow
<1>7. CASE StartEvidence
  <2>1. UNCHANGED <<row, slot>>
    BY <1>7 DEF StartEvidence
  <2>2. \A h \in Heads : diff'[h] = IF diff[h] = "running" THEN "queued" ELSE diff[h]
    BY <1>7 DEF StartEvidence, RecoveredDiffs
  <2>. QED  BY <2>1, <2>2, NoneRunning DEF EvidenceInv, SlotOwnership, DiffNeedsRow
<1>8. CASE BeginRound
  <2>1. \A s \in Slots : /\ (slot'[s].owns <=> slot[s].owns) /\ slot'[s].head = slot[s].head
                         /\ slot'[s].phase = "idle" => slot[s].phase = "idle"
    BY <1>8 DEF BeginRound, TypeOK, Slot
  <2>2. UNCHANGED <<row, diff, collecting>>
    BY <1>8 DEF BeginRound
  <2>. QED  BY <2>1, <2>2, ItemMovesOn
<1>9. ASSUME NEW s \in Slots, NEW h \in Heads, ClaimPullRequestDiff(s, h)
      PROVE  EvidenceInv'
  <2>1. /\ UNCHANGED <<row, collecting>> /\ row # NoHead
        /\ slot[s].phase = "idle"
    BY <1>9 DEF ClaimPullRequestDiff, EvidenceInv, DiffNeedsRow
  <2>2. \A t \in Slots :
          slot'[t] = IF t = s THEN [phase |-> "claimed", head |-> h,
                                    listed |-> NoHead, owns |-> TRUE] ELSE slot[t]
    BY <1>9 DEF ClaimPullRequestDiff, TypeOK
  <2>3. \A g \in Heads : diff'[g] = IF g = h THEN "running" ELSE diff[g]
    BY <1>9 DEF ClaimPullRequestDiff, TypeOK
  <2>4. DiffNeedsRow' /\ SlotOwnership'
    BY <2>1, <2>2 DEF EvidenceInv, DiffNeedsRow, SlotOwnership
  <2>5. DiffHasClaim'
    <3>. SUFFICES ASSUME NEW g \in Heads, diff'[g] = "running", collecting'
                  PROVE  \E t \in Slots : slot'[t].owns /\ slot'[t].head = g
      BY DEF DiffHasClaim
    <3>1. CASE g = h
      BY <3>1, <2>2
    <3>2. CASE g # h
      <4>1. PICK t \in Slots : slot[t].owns /\ slot[t].head = g
        BY <3>2, <2>1, <2>3 DEF EvidenceInv, DiffHasClaim
      <4>. QED  BY <4>1, <2>1, <2>2 DEF EvidenceInv, SlotOwnership
    <3>. QED  BY <3>1, <3>2
  <2>. QED  BY <2>4, <2>5 DEF EvidenceInv
<1>10. ASSUME NEW s \in Slots, CollectStep(s) PROVE EvidenceInv'
  <2>1. \A t \in Slots : /\ (slot'[t].owns <=> slot[t].owns) /\ slot'[t].head = slot[t].head
                         /\ slot'[t].phase = "idle" => slot[t].phase = "idle"
    BY <1>10 DEF CollectStep, Verify, ListFiles, CollectionFails, TypeOK, Slot
  <2>2. UNCHANGED <<row, diff, collecting>>
    BY <1>10 DEF CollectStep
  <2>. QED  BY <2>1, <2>2, ItemMovesOn
<1>11. ASSUME NEW s \in Slots, SupersedePullRequestDiff(s) PROVE EvidenceInv'
  BY <1>11, EndOfItem DEF SupersedePullRequestDiff
<1>12. ASSUME NEW s \in Slots, CompletePullRequestDiff(s) PROVE EvidenceInv'
  <2>1. slot' = [slot EXCEPT ![s] = IdleSlot] /\ UNCHANGED <<row, collecting>>
    BY <1>12 DEF CompletePullRequestDiff
  <2>2. diff' = CompletedRow(s)
    BY <1>12 DEF CompletePullRequestDiff, CompletedRow, EvidenceInv, SlotOwnership
  <2>. QED  BY <2>1, <2>2, EndOfItem
<1>. QED
  BY <1>1, <1>3, <1>4, <1>5, <1>6, <1>7, <1>8, <1>9, <1>10, <1>11, <1>12, EvidenceFrame
  DEF Next, Refresh, AnalysisNext, EvidenceStep

-----------------------------------------------------------------------------
(* The analysis worker's claim and the promised force *)

\* The half of RunningHasClaim that is about analysis jobs.
AnalysisHasClaim ==
  \A c \in Collections : (job[c].status = "running" /\ worker.pc # "down") =>
    worker.owns /\ worker.c = c

AnalysisInv == AnalysisHasClaim /\ WorkerOwnership /\ OwedIsForced

\* Steps that touch neither the analysis jobs, nor their worker, nor a promise.
LEMMA AnalysisFrame ==
  ASSUME \/ Push \/ Hydrate \/ PublishBatch \/ RefuseSnapshot \/ Abandon \/ UNCHANGED vars
         \/ StartEvidence \/ StopEvidence \/ BeginRound
         \/ \E s \in Slots, h \in Heads : ClaimPullRequestDiff(s, h)
         \/ \E s \in Slots : CollectStep(s) \/ SupersedePullRequestDiff(s)
  PROVE  UNCHANGED <<job, worker, owed>>
<1>. USE DEF github, config, published, queues, evidenceWorker
<1>1. CASE \/ Push \/ Hydrate \/ PublishBatch \/ RefuseSnapshot \/ Abandon \/ UNCHANGED vars
           \/ StartEvidence \/ StopEvidence \/ BeginRound
  BY <1>1 DEF Push, Hydrate, PublishBatch, RefuseSnapshot, Abandon, vars, StartEvidence,
              StopEvidence, BeginRound
<1>2. CASE \E s \in Slots, h \in Heads : ClaimPullRequestDiff(s, h)
  BY <1>2 DEF ClaimPullRequestDiff
<1>3. CASE \E s \in Slots : CollectStep(s) \/ SupersedePullRequestDiff(s)
  BY <1>3 DEF CollectStep, SupersedePullRequestDiff
<1>. QED  BY <1>1, <1>2, <1>3

\* A cascade or an enqueue that leaves the worker where it is: running rows of S
\* stay as they are, the worker forgets its row exactly when it is not in S, and
\* no force is lost.
LEMMA QueueChange ==
  ASSUME TypeOK, AnalysisInv, NEW S,
         worker' = [worker EXCEPT !.owns = @ /\ worker.c \in S],
         \A c \in Collections :
           /\ job'[c].status = "running" => job[c].status = "running" /\ c \in S
           /\ job[c].status = "running" /\ c \in S => job'[c] = job[c]
           /\ owed'[c] => job'[c].status # "none" /\ job'[c].forced
  PROVE  AnalysisInv'
<1>1. /\ worker'.pc = worker.pc /\ worker'.c = worker.c /\ worker'.forced = worker.forced
      /\ worker'.owns = (worker.owns /\ worker.c \in S)
  BY DEF TypeOK, Worker, Claims
<1>2. AnalysisHasClaim'
  BY <1>1 DEF AnalysisInv, AnalysisHasClaim
<1>3. WorkerOwnership'
  BY <1>1 DEF AnalysisInv, WorkerOwnership
<1>4. OwedIsForced'
  BY DEF OwedIsForced
<1>. QED  BY <1>2, <1>3, <1>4 DEF AnalysisInv

\* A worker that is down or idle holds nothing.
LEMMA WorkerRests ==
  ASSUME worker' = At("down") \/ worker' = At("idle"), OwedIsForced',
         worker' # At("down") => \A c \in Collections : job'[c].status # "running"
  PROVE  AnalysisInv'
<1>1. /\ ~worker'.owns /\ worker'.pc \in {"down", "idle"}
      /\ worker'.pc # "down" => worker' # At("down")
  BY DEF At
<1>. QED  BY <1>1 DEF AnalysisInv, AnalysisHasClaim, WorkerOwnership

\* A worker that goes on with its claim keeps it.
LEMMA WorkerMovesOn ==
  ASSUME AnalysisInv, UNCHANGED job, worker.pc \notin {"down", "idle"},
         worker'.pc \notin {"down", "idle"},
         worker'.owns = worker.owns, worker'.c = worker.c, worker'.forced = worker.forced,
         \A c \in Collections : owed'[c] => owed[c]
  PROVE  AnalysisInv'
BY DEF AnalysisInv, AnalysisHasClaim, WorkerOwnership, OwedIsForced

\* Every step but the analysis worker's own keeps the claim and the promises.
LEMMA AnalysisInvOtherStep ==
  ASSUME TypeOK, AnalysisInv, [Next]_vars, ~AnalysisNext
  PROVE  AnalysisInv'
<1>. USE DEF github, config, published, queues, evidenceWorker
<1>1. ASSUME UNCHANGED <<job, worker, owed>> PROVE AnalysisInv'
  BY <1>1 DEF AnalysisInv, AnalysisHasClaim, WorkerOwnership, OwedIsForced
<1>2. CASE PublishSnapshot
  <2>1. /\ row' \in Heads /\ EnqueuePullRequestDiff(pub', row')
        /\ worker' = [worker EXCEPT !.owns = @ /\ worker.c \in pub']
    BY <1>2 DEF PublishSnapshot, TypeOK
  <2>2. \A c \in Collections :
          /\ job'[c].status = "running" => job[c].status = "running" /\ c \in pub'
          /\ job[c].status = "running" /\ c \in pub' => job'[c] = job[c]
          /\ owed'[c] => /\ owed[c] /\ job'[c].status # "none"
                         /\ job[c].forced => job'[c].forced
    BY <2>1, SnapshotEffect
  <2>3. \A c \in Collections : owed'[c] => job'[c].status # "none" /\ job'[c].forced
    BY <2>2 DEF AnalysisInv, OwedIsForced
  <2>. QED  BY <2>1, <2>2, <2>3, QueueChange
<1>3. CASE RemoveClosed
  <2>1. ~worker'.owns
    BY <1>3 DEF RemoveClosed, TypeOK, Worker, Claims
  <2>2. \A c \in Collections : job'[c].status = "none" /\ ~owed'[c]
    BY <1>3 DEF RemoveClosed, Kept, NoJob, OwedOn
  <2>. QED  BY <2>1, <2>2 DEF AnalysisInv, AnalysisHasClaim, WorkerOwnership, OwedIsForced
<1>4. CASE Reload \/ Restart
  <2>1. \A c \in Collections :
          /\ job'[c].status = "running" => job[c].status = "running" /\ c \in pub'
          /\ job[c].status = "running" /\ c \in pub' => job'[c] = job[c]
          /\ owed'[c] /\ job[c].status # "none" => owed[c] /\ job'[c] = job[c]
          /\ owed'[c] => owed[c] /\ job'[c].status # "none"
    BY <1>4, SyncEffect DEF Reload, Restart
  <2>2. \A c \in Collections : owed'[c] => job'[c].status # "none" /\ job'[c].forced
    BY <2>1 DEF AnalysisInv, OwedIsForced
  <2>3. CASE Reload
    <3>1. worker' = [worker EXCEPT !.owns = @ /\ worker.c \in pub']
      BY <2>3 DEF Reload
    <3>. QED  BY <2>1, <2>2, <3>1, QueueChange
  <2>4. CASE Restart
    <3>1. worker' = At("down")
      BY <2>4 DEF Restart
    <3>. QED  BY <2>2, <3>1, WorkerRests DEF OwedIsForced
  <2>. QED  BY <1>4, <2>3, <2>4
<1>5. ASSUME NEW c \in Collections, Reanalyze(c) PROVE AnalysisInv'
  <2>1. /\ row \in Heads /\ job' = Enqueue(job, {c}, row, TRUE) /\ UNCHANGED worker
        /\ owed' = [owed EXCEPT ![c] = @ \/ job[c].status # "running"]
        /\ c \in provider
    BY <1>5 DEF Reanalyze, TypeOK
  <2>2. \A d \in Collections :
          \/ job'[d] = job[d] /\ (d = c => job[d].status = "running")
          \/ job[d].status # "running" /\ job'[d].status = "queued" /\ job'[d].forced
    BY <2>1 DEF Enqueue
  <2>3. \A d \in Collections :
          owed'[d] => owed[d] \/ (d = c /\ job[d].status # "running")
    BY <2>1 DEF TypeOK
  <2>4. OwedIsForced'
    BY <2>2, <2>3 DEF AnalysisInv, OwedIsForced
  <2>5. AnalysisHasClaim'
    BY <2>1, <2>2 DEF AnalysisInv, AnalysisHasClaim
  <2>6. WorkerOwnership'
    BY <2>1, <2>2 DEF AnalysisInv, WorkerOwnership
  <2>. QED  BY <2>4, <2>5, <2>6 DEF AnalysisInv
<1>6. ASSUME NEW s \in Slots, CompletePullRequestDiff(s) PROVE AnalysisInv'
  <2>1. UNCHANGED <<worker, owed>>
    BY <1>6 DEF CompletePullRequestDiff
  <2>2. CASE row = NoHead
    BY <1>1, <1>6, <2>1, <2>2 DEF CompletePullRequestDiff
  <2>3. CASE row # NoHead
    <3>1. \A c \in Collections :
            \/ job'[c] = job[c]
            \/ /\ job[c].status # "running" /\ job'[c].status = "queued"
               /\ job[c].forced => job'[c].forced
      BY <1>6, <2>3, CompletionEffect
    <3>2. AnalysisHasClaim'
      BY <2>1, <3>1 DEF AnalysisInv, AnalysisHasClaim
    <3>3. WorkerOwnership'
      BY <2>1, <3>1 DEF AnalysisInv, WorkerOwnership
    <3>4. OwedIsForced'
      BY <2>1, <3>1 DEF AnalysisInv, OwedIsForced
    <3>. QED  BY <3>2, <3>3, <3>4 DEF AnalysisInv
  <2>. QED  BY <2>2, <2>3
<1>. QED
  BY <1>1, <1>2, <1>3, <1>4, <1>5, <1>6, AnalysisFrame
  DEF Next, Refresh, AnalysisNext, EvidenceStep

\* The analysis worker's steps keep its claim and the promises.
LEMMA AnalysisInvWorkerStep ==
  ASSUME TypeOK, AnalysisInv, AnalysisNext
  PROVE  AnalysisInv'
<1>. USE DEF github, config, published, queues, evidenceWorker
<1>0. /\ worker \in Worker /\ job \in [Collections -> Jobs]
      /\ worker.pc \notin {"down", "idle"} => worker.c \in Collections
  BY DEF TypeOK, Worker
<1>1. CASE StartAnalysis
  <2>1. /\ worker' = At("idle") /\ UNCHANGED owed
        /\ \A c \in Collections :
             job'[c] = IF job[c].status = "running"
                       THEN [job[c] EXCEPT !.status = "queued"] ELSE job[c]
    BY <1>1 DEF StartAnalysis, RecoveredAnalyses
  <2>2. \A c \in Collections :
          /\ job'[c].status # "running" /\ (job'[c].forced <=> job[c].forced)
          /\ job[c].status # "none" => job'[c].status # "none"
    BY <1>0, <2>1 DEF Jobs
  <2>. QED  BY <2>1, <2>2, WorkerRests DEF AnalysisInv, OwedIsForced
<1>2. CASE StopAnalysis
  <2>1. worker' = At("down") /\ UNCHANGED <<job, owed>>
    BY <1>2 DEF StopAnalysis
  <2>. QED  BY <2>1, WorkerRests DEF AnalysisInv, OwedIsForced
<1>3. CASE StoreFails
  <2>1. /\ UNCHANGED <<job, owed>> /\ worker.pc \notin {"down", "idle"}
        /\ worker'.pc = "requeue" /\ worker'.c = worker.c
        /\ worker'.owns = worker.owns /\ worker'.forced = worker.forced
    BY <1>0, <1>3 DEF StoreFails, Worker, Claims
  <2>. QED  BY <2>1, WorkerMovesOn
<1>4. ASSUME NEW c \in Collections, ClaimAnalysis(c) PROVE AnalysisInv'
  <2>1. /\ worker.pc = "idle" /\ job[c].status = "queued" /\ UNCHANGED owed
        /\ job' = [job EXCEPT ![c].status = "running"]
        /\ worker' = [At("claimed") EXCEPT !.c = c, !.head = job[c].head,
                                           !.forced = job[c].forced, !.owns = TRUE]
    BY <1>4 DEF ClaimAnalysis
  <2>2. /\ worker'.pc = "claimed" /\ worker'.c = c /\ worker'.owns
        /\ worker'.forced = job[c].forced
    BY <2>1 DEF At
  <2>3. /\ job'[c].status = "running" /\ job'[c].forced = job[c].forced
        /\ \A d \in Collections : d # c => job'[d] = job[d]
    BY <1>0, <2>1 DEF Jobs
  <2>4. \A d \in Collections : job[d].status # "running"
    BY <2>1 DEF AnalysisInv, AnalysisHasClaim, WorkerOwnership
  <2>5. AnalysisHasClaim'
    BY <2>2, <2>3, <2>4 DEF AnalysisHasClaim
  <2>6. WorkerOwnership'
    BY <2>2, <2>3 DEF WorkerOwnership
  <2>7. OwedIsForced'
    BY <2>1, <2>3 DEF AnalysisInv, OwedIsForced
  <2>. QED  BY <2>5, <2>6, <2>7 DEF AnalysisInv
<1>5. CASE /\ CheckInput \/ LoadInput \/ SkipCurrent \/ RecordAttempt
           /\ UNCHANGED <<job, owed>>
  <2>1. /\ worker.pc \notin {"down", "idle"} /\ worker'.pc \notin {"down", "idle"}
        /\ worker'.c = worker.c /\ worker'.owns = worker.owns
        /\ worker'.forced = worker.forced
    BY <1>0, <1>5 DEF CheckInput, LoadInput, SkipCurrent, RecordAttempt, Worker, Claims
  <2>. QED  BY <1>5, <2>1, WorkerMovesOn
<1>6. CASE Analyze /\ UNCHANGED job
  <2>1. PICK answer \in {"complete", "retryable"} :
          worker' = [worker EXCEPT !.pc = "answered", !.answer = answer]
    BY <1>6 DEF Analyze
  <2>2. /\ worker.pc \notin {"down", "idle"} /\ worker'.pc \notin {"down", "idle"}
        /\ worker'.c = worker.c /\ worker'.owns = worker.owns
        /\ worker'.forced = worker.forced
    BY <1>0, <1>6, <2>1 DEF Analyze, Worker, Claims
  <2>3. \A c \in Collections : owed'[c] => owed[c]
    BY <1>6 DEF Analyze
  <2>. QED  BY <1>6, <2>2, <2>3, WorkerMovesOn
<1>7. CASE RequeueAnalysisJob /\ UNCHANGED owed
  <2>1. /\ worker.pc = "requeue" /\ worker' = At("idle") /\ worker.c \in Collections
        /\ job' = IF worker.owns THEN [job EXCEPT ![worker.c].status = "queued"] ELSE job
    BY <1>0, <1>7 DEF RequeueAnalysisJob
  <2>2. \A c \in Collections :
          IF worker.owns /\ c = worker.c
          THEN job'[c].status = "queued" /\ job'[c].forced = job[c].forced
          ELSE job'[c] = job[c]
    BY <1>0, <2>1 DEF Jobs
  <2>3. \A c \in Collections : job'[c].status # "running"
    BY <2>1, <2>2 DEF AnalysisInv, AnalysisHasClaim
  <2>4. OwedIsForced'
    BY <1>7, <2>2 DEF AnalysisInv, OwedIsForced
  <2>. QED  BY <2>1, <2>3, <2>4, WorkerRests
<1>8. CASE CompleteAnalysisJob
  <2>1. worker.pc = "finish" /\ worker' = At("idle")
    BY <1>8 DEF CompleteAnalysisJob
  <2>2. CASE ~worker.owns
    <3>1. UNCHANGED <<job, owed>>
      BY <1>8, <2>2, FollowUpEffect
    <3>2. \A c \in Collections : job[c].status # "running"
      BY <2>1, <2>2 DEF AnalysisInv, AnalysisHasClaim
    <3>. QED  BY <2>1, <3>1, <3>2, WorkerRests DEF AnalysisInv, OwedIsForced
  <2>3. CASE worker.owns
    <3>1. \A c \in Collections :
            /\ c # worker.c => job'[c] = job[c] /\ (owed'[c] => owed[c])
            /\ c = worker.c => job'[c].status # "running" /\ ~owed'[c]
      BY <1>8, <2>3, FollowUpEffect
    <3>2. \A c \in Collections : job'[c].status # "running"
      BY <2>1, <3>1 DEF AnalysisInv, AnalysisHasClaim
    <3>3. OwedIsForced'
      BY <3>1 DEF AnalysisInv, OwedIsForced
    <3>. QED  BY <2>1, <3>2, <3>3, WorkerRests
  <2>. QED  BY <2>2, <2>3
<1>. QED
  BY <1>1, <1>2, <1>3, <1>4, <1>5, <1>6, <1>7, <1>8 DEF AnalysisNext, AnalysisStep

-----------------------------------------------------------------------------
(* The theorems *)

\* The two halves are the property.
LEMMA HaveClaims == RunningHasClaim <=> DiffHasClaim /\ AnalysisHasClaim
BY DEF RunningHasClaim, DiffHasClaim, AnalysisHasClaim

\* The inductive invariant holds at the start.
LEMMA InvariantInit == Init => IInv
<1>. SUFFICES ASSUME Init PROVE IInv
  OBVIOUS
<1>1. EvidenceInv
  BY DEF Init, EvidenceInv, DiffNeedsRow, SlotOwnership, DiffHasClaim, IdleSlot
<1>2. AnalysisInv
  BY DEF Init, AnalysisInv, AnalysisHasClaim, WorkerOwnership, OwedIsForced, At, NoJob
<1>. QED  BY <1>1, <1>2, InitType, HaveClaims DEF IInv, EvidenceInv, AnalysisInv

\* Every step keeps it.
LEMMA InvariantStep == IInv /\ [Next]_vars => IInv'
<1>. SUFFICES ASSUME IInv, [Next]_vars PROVE IInv'
  OBVIOUS
<1>1. TypeOK /\ EvidenceInv /\ AnalysisInv
  BY HaveClaims DEF IInv, EvidenceInv, AnalysisInv
<1>2. TypeOK'
  BY <1>1, TypeStep
<1>3. EvidenceInv'
  BY <1>1, EvidenceInvStep
<1>4. AnalysisInv'
  BY <1>1, AnalysisInvWorkerStep, AnalysisInvOtherStep
<1>5. RunningHasClaim'
  BY <1>3, <1>4 DEF EvidenceInv, AnalysisInv, RunningHasClaim, DiffHasClaim, AnalysisHasClaim
<1>. QED  BY <1>2, <1>3, <1>4, <1>5 DEF IInv, EvidenceInv, AnalysisInv

\* The types, the claims and the promised force hold in every behaviour of the
\* two queues.
THEOREM QueuesHold == Spec => []IInv
BY InvariantInit, InvariantStep, PTL DEF Spec

\* Every variable of the model has its type.
THEOREM QueueTypes == Spec => []TypeOK
<1>1. IInv => TypeOK
  BY DEF IInv
<1>. QED  BY <1>1, QueuesHold, PTL

\* Somebody alive holds every running row of the two tables, whatever is pushed,
\* closed, reloaded, restarted or requested, and for every concurrency.
THEOREM ClaimsAreHeld == Spec => []RunningHasClaim
<1>1. IInv => RunningHasClaim
  BY DEF IInv
<1>. QED  BY <1>1, QueuesHold, PTL

\* An analysis is recorded only for the head that is stored and a collection that
\* shows it.
THEOREM RecordsAreCurrent == Spec => RecordedForStoredHead
<1>1. IInv /\ [Next]_vars =>
        [\A c \in Collections :
           (attempt'[c] # attempt[c] /\ attempt'[c] # NoAttempt) =>
             attempt'[c].head = row /\ c \in pub]_vars
  <2>. SUFFICES ASSUME IInv, [Next]_vars, NEW c \in Collections,
                       attempt'[c] # attempt[c], attempt'[c] # NoAttempt
       PROVE  attempt'[c].head = row /\ c \in pub
    OBVIOUS
  <2>0. TypeOK
    BY DEF IInv
  <2>1. ~UNCHANGED attempt
    OBVIOUS
  <2>2. \A S : attempt' # Kept(attempt, S, NoAttempt)
    BY KeptEffect, IdleTypes, <2>0 DEF TypeOK
  <2>3. ~PublishSnapshot /\ ~RemoveClosed
    BY <2>2 DEF PublishSnapshot, RemoveClosed
  <2>4. ~Synchronize
    BY <2>0, SyncEffect
  <2>5. CASE RecordAttempt
    <3>1. /\ ~Superseded /\ worker.c \in pub
          /\ attempt' = [attempt EXCEPT ![worker.c] =
               [status |-> IF worker.pc = "answered" THEN worker.answer ELSE "retryable",
                head |-> worker.head, level |-> worker.level]]
      BY <2>1, <2>5 DEF RecordAttempt
    <3>2. c = worker.c
      BY <2>0, <3>1 DEF TypeOK
    <3>. QED  BY <2>0, <3>1, <3>2 DEF Superseded, TypeOK
  <2>6. CASE ~RecordAttempt
    <3>. USE DEF github, config, published, queues, evidenceWorker
    <3>1. ~AnalysisStep
      BY <2>1, <2>6 DEF AnalysisStep
    <3>2. ~(UNCHANGED vars \/ Push \/ Hydrate \/ PublishBatch \/ RefuseSnapshot \/ Abandon)
      BY <2>1 DEF vars, Push, Hydrate, PublishBatch, RefuseSnapshot, Abandon
    <3>3. ~(Reload \/ Restart \/ \E d \in Collections : Reanalyze(d) \/ ClaimAnalysis(d))
      BY <2>1, <2>4 DEF Reload, Restart, Reanalyze, ClaimAnalysis
    <3>4. ~(StartEvidence \/ StopEvidence \/ BeginRound
              \/ \E s \in Slots, h \in Heads : ClaimPullRequestDiff(s, h))
      BY <2>1 DEF StartEvidence, StopEvidence, BeginRound, ClaimPullRequestDiff
    <3>5. ~ \E s \in Slots : EvidenceStep(s)
      BY <2>1 DEF EvidenceStep, CollectStep, SupersedePullRequestDiff, CompletePullRequestDiff
    <3>6. ~(StartAnalysis \/ StopAnalysis \/ StoreFails)
      BY <2>1 DEF StartAnalysis, StopAnalysis, StoreFails
    <3>. QED  BY <2>3, <3>1, <3>2, <3>3, <3>4, <3>5, <3>6 DEF Next, Refresh
  <2>. QED  BY <2>5, <2>6
<1>. QED  BY <1>1, QueuesHold, PTL DEF Spec, RecordedForStoredHead

\* A promised forced analysis is never skipped because its input is current.
THEOREM ForceIsKept == Spec => ForcedIsNotSkipped
<1>1. IInv /\ [Next]_vars =>
        [\A c \in Collections :
           (worker.pc = "built" /\ worker'.pc = "finish" /\ worker.c = c /\ worker.owns)
             => ~owed[c]]_vars
  <2>. SUFFICES ASSUME IInv, [Next]_vars, NEW c \in Collections, worker.pc = "built",
                       worker'.pc = "finish", worker.c = c, worker.owns
       PROVE  ~owed[c]
    OBVIOUS
  <2>0. TypeOK
    BY DEF IInv
  <2>1. ~worker.forced
    <3>. USE DEF github, config, published, queues, evidenceWorker
    <3>1. worker' # worker
      OBVIOUS
    <3>2. worker' # At("down") /\ worker' # At("idle")
      BY DEF At
    <3>3. ~ \E S : worker' = [worker EXCEPT !.owns = @ /\ worker.c \in S]
      BY <2>0 DEF TypeOK, Worker, Claims
    <3>4. worker' # [worker EXCEPT !.owns = FALSE]
      BY <2>0 DEF TypeOK, Worker, Claims
    <3>5. ~(Push \/ Refresh \/ RemoveClosed \/ Abandon \/ UNCHANGED vars)
      BY <3>1, <3>3, <3>4 DEF Push, Refresh, Hydrate, PublishBatch, PublishSnapshot,
         RefuseSnapshot, RemoveClosed, Abandon, vars
    <3>6. ~(Reload \/ Restart \/ \E d \in Collections : Reanalyze(d) \/ ClaimAnalysis(d))
      BY <3>1, <3>2, <3>3 DEF Reload, Restart, Reanalyze, ClaimAnalysis
    <3>7. ~EvidenceNext
      BY <3>1 DEF EvidenceNext, StartEvidence, StopEvidence, BeginRound, EvidenceStep,
         ClaimPullRequestDiff, CollectStep, SupersedePullRequestDiff, CompletePullRequestDiff
    <3>8. ~(StartAnalysis \/ StopAnalysis)
      BY <3>2 DEF StartAnalysis, StopAnalysis
    <3>9. ~StoreFails
      BY <2>0 DEF StoreFails, TypeOK, Worker, Claims
    <3>10. AnalysisStep
      BY <3>5, <3>6, <3>7, <3>8, <3>9 DEF Next, EvidenceNext
    <3>11. ~Analyze
      <4>. SUFFICES ASSUME NEW answer,
                           worker' = [worker EXCEPT !.pc = "answered", !.answer = answer]
                    PROVE  FALSE
        BY DEF Analyze
      <4>. QED  BY <2>0 DEF TypeOK, Worker, Claims
    <3>12. SkipCurrent
      BY <3>10, <3>11 DEF AnalysisStep, CheckInput, LoadInput, RecordAttempt,
         RequeueAnalysisJob, CompleteAnalysisJob
    <3>. QED  BY <3>12 DEF SkipCurrent
  <2>2. owed[c] => job[c].forced
    BY DEF IInv, OwedIsForced
  <2>3. job[c].forced = worker.forced
    BY DEF IInv, WorkerOwnership
  <2>. QED  BY <2>1, <2>2, <2>3
<1>. QED  BY <1>1, QueuesHold, PTL DEF Spec, ForcedIsNotSkipped
-----------------------------------------------------------------------------
(* The files a collection listed *)

\* A head that a work item has verified was GitHub's head once.  Files of another
\* head were listed while it was not, so it can only pass the second verification
\* after it was moved back to.
CollectionIsVerified ==
  /\ ghHead \in seen
  /\ \A s \in Slots :
       /\ slot[s].phase \in {"list", "recheck", "collected"} => slot[s].head \in seen
       /\ slot[s].phase = "recheck" /\ slot[s].listed # slot[s].head
            => ghHead # slot[s].head \/ slot[s].head \in returned
       /\ slot[s].phase = "collected"
            => slot[s].listed = slot[s].head \/ slot[s].head \in returned

FilesInv == CollectionIsVerified /\ EvidenceOfItsHead

\* A step that leaves GitHub and the cached evidence alone keeps them if each work
\* item stays where it is or is in a phase that has listed nothing.
LEMMA FilesStay ==
  ASSUME FilesInv, UNCHANGED <<github, evidence, content>>,
         \A s \in Slots :
           \/ slot'[s].phase \in {"idle", "claimed", "verify", "failed", "superseded"}
           \/ /\ slot'[s].phase = slot[s].phase
              /\ slot'[s].head = slot[s].head /\ slot'[s].listed = slot[s].listed
  PROVE  FilesInv'
<1>1. UNCHANGED <<ghHead, seen, returned>>
  BY DEF github
<1>2. CollectionIsVerified'
  BY <1>1 DEF FilesInv, CollectionIsVerified
<1>3. EvidenceOfItsHead'
  BY <1>1 DEF FilesInv, EvidenceOfItsHead
<1>. QED  BY <1>2, <1>3 DEF FilesInv

\* A push to a head that GitHub has had before is remembered.
LEMMA FilesPush == TypeOK /\ FilesInv /\ Push => FilesInv'
<1>. SUFFICES ASSUME TypeOK, FilesInv, Push PROVE FilesInv'
  OBVIOUS
<1>1. /\ UNCHANGED <<slot, evidence, content>> /\ ghHead' # ghHead
      /\ seen' = seen \cup {ghHead'} /\ returned \subseteq returned'
      /\ ghHead' \in seen => ghHead' \in returned'
  BY DEF Push, evidenceWorker
<1>2. CollectionIsVerified'
  BY <1>1 DEF FilesInv, CollectionIsVerified
<1>3. EvidenceOfItsHead'
  BY <1>1 DEF FilesInv, EvidenceOfItsHead
<1>. QED  BY <1>2, <1>3 DEF FilesInv

\* The verifications and the listing between them keep what was listed when.
LEMMA FilesCollect ==
  ASSUME TypeOK, FilesInv, NEW s \in Slots, CollectStep(s)
  PROVE  FilesInv'
<1>1. UNCHANGED <<ghHead, seen, returned, evidence, content>>
  BY DEF CollectStep, github
<1>2. \A t \in Slots : t # s => slot'[t] = slot[t]
  BY DEF CollectStep, Verify, ListFiles, CollectionFails, TypeOK
<1>3. /\ slot'[s].head = slot[s].head
      /\ \/ slot'[s].phase \in {"failed", "superseded"}
         \/ slot'[s].phase = "list" /\ ghHead = slot[s].head
         \/ /\ slot[s].phase = "list" /\ slot'[s].phase = "recheck"
            /\ slot'[s].listed = ghHead
         \/ /\ slot[s].phase = "recheck" /\ slot'[s].phase = "collected"
            /\ slot'[s].listed = slot[s].listed /\ ghHead = slot[s].head
  BY DEF CollectStep, Verify, ListFiles, CollectionFails, TypeOK, Slot
<1>4. /\ slot'[s].phase \in {"list", "recheck", "collected"} => slot'[s].head \in seen
      /\ slot'[s].phase = "recheck" /\ slot'[s].listed # slot'[s].head
           => ghHead # slot'[s].head \/ slot'[s].head \in returned
      /\ slot'[s].phase = "collected"
           => slot'[s].listed = slot'[s].head \/ slot'[s].head \in returned
  BY <1>3 DEF FilesInv, CollectionIsVerified
<1>5. CollectionIsVerified'
  BY <1>1, <1>2, <1>4 DEF FilesInv, CollectionIsVerified
<1>6. EvidenceOfItsHead'
  BY <1>1 DEF FilesInv, EvidenceOfItsHead
<1>. QED  BY <1>5, <1>6 DEF FilesInv

\* A completed collection caches what it listed.
LEMMA FilesComplete ==
  ASSUME TypeOK, FilesInv, NEW s \in Slots, CompletePullRequestDiff(s)
  PROVE  FilesInv'
<1>1. UNCHANGED <<ghHead, seen, returned>> /\ slot' = [slot EXCEPT ![s] = IdleSlot]
  BY DEF CompletePullRequestDiff, github
<1>2. CollectionIsVerified'
  BY <1>1 DEF FilesInv, CollectionIsVerified, TypeOK, IdleSlot
<1>3. CASE row = NoHead
  BY <1>1, <1>2, <1>3 DEF CompletePullRequestDiff, FilesInv, EvidenceOfItsHead
<1>4. CASE row # NoHead
  <2>1. \A h \in Heads :
          IF h = slot[s].head
          THEN evidence'[h] = "usable" =>
                 slot[s].phase = "collected" /\ content'[h] = slot[s].listed
          ELSE evidence'[h] = evidence[h] /\ content'[h] = content[h]
    BY <1>4 DEF CompletePullRequestDiff, TypeOK
  <2>2. EvidenceOfItsHead'
    BY <1>1, <2>1 DEF FilesInv, CollectionIsVerified, EvidenceOfItsHead
  <2>. QED  BY <1>2, <2>2 DEF FilesInv
<1>. QED  BY <1>3, <1>4

\* Every step keeps the files with their head.
LEMMA FilesInvStep == TypeOK /\ FilesInv /\ [Next]_vars => FilesInv'
<1>. SUFFICES ASSUME TypeOK, FilesInv, [Next]_vars PROVE FilesInv'
  OBVIOUS
<1>1. ASSUME UNCHANGED <<github, evidence, content, slot>> PROVE FilesInv'
  BY <1>1, FilesStay
<1>2. ASSUME UNCHANGED vars \/ Refresh \/ Abandon \/ Reload PROVE FilesInv'
  BY <1>1, <1>2 DEF vars, Refresh, Hydrate, PublishBatch, PublishSnapshot,
     RefuseSnapshot, Abandon, Reload, evidenceWorker
<1>3. ASSUME AnalysisNext \/ \E c \in Collections : Reanalyze(c) PROVE FilesInv'
  BY <1>1, <1>3 DEF AnalysisNext, StartAnalysis, StopAnalysis, AnalysisStep, StoreFails,
     ClaimAnalysis, Reanalyze, evidenceWorker
<1>4. CASE RemoveClosed
  <2>1. UNCHANGED <<ghHead, seen, returned>> /\ \A h \in Heads : evidence'[h] = "none"
    BY <1>4 DEF RemoveClosed, github
  <2>2. \A t \in Slots : /\ slot'[t].phase = slot[t].phase
                         /\ slot'[t].head = slot[t].head /\ slot'[t].listed = slot[t].listed
    BY <1>4 DEF RemoveClosed, TypeOK, Slot
  <2>3. CollectionIsVerified'
    BY <2>1, <2>2 DEF FilesInv, CollectionIsVerified
  <2>. QED  BY <2>1, <2>3 DEF FilesInv, EvidenceOfItsHead
<1>5. CASE Restart \/ StopEvidence
  BY <1>5, FilesStay DEF Restart, StopEvidence, IdleSlot
<1>6. CASE StartEvidence
  BY <1>1, <1>6 DEF StartEvidence
<1>7. CASE BeginRound
  <2>1. \A t \in Slots : slot'[t].phase = "verify" \/ slot'[t] = slot[t]
    BY <1>7 DEF BeginRound, TypeOK, Slot
  <2>. QED  BY <1>7, <2>1, FilesStay DEF BeginRound
<1>8. ASSUME NEW s \in Slots, NEW h \in Heads, ClaimPullRequestDiff(s, h) PROVE FilesInv'
  <2>1. \A t \in Slots : slot'[t].phase = "claimed" \/ slot'[t] = slot[t]
    BY <1>8 DEF ClaimPullRequestDiff, TypeOK
  <2>. QED  BY <1>8, <2>1, FilesStay DEF ClaimPullRequestDiff
<1>9. ASSUME NEW s \in Slots, SupersedePullRequestDiff(s) PROVE FilesInv'
  <2>1. \A t \in Slots : slot'[t].phase = "idle" \/ slot'[t] = slot[t]
    BY <1>9 DEF SupersedePullRequestDiff, TypeOK, IdleSlot
  <2>. QED  BY <1>9, <2>1, FilesStay DEF SupersedePullRequestDiff
<1>. QED
  BY <1>2, <1>3, <1>4, <1>5, <1>6, <1>7, <1>8, <1>9, FilesPush, FilesCollect, FilesComplete
  DEF Next, EvidenceStep, AnalysisNext

\* Usable evidence of a head is a list of that head's own files, for every number
\* of pushes, unless the head was moved back to after GitHub had left it.
THEOREM FilesBelongToHead == Spec => []EvidenceOfItsHead
<1>1. Init => TypeOK /\ FilesInv
  BY InitType DEF Init, FilesInv, CollectionIsVerified, EvidenceOfItsHead, IdleSlot
<1>2. TypeOK /\ FilesInv /\ [Next]_vars => TypeOK' /\ FilesInv'
  BY TypeStep, FilesInvStep
<1>3. FilesInv => EvidenceOfItsHead
  BY DEF FilesInv
<1>. QED  BY <1>1, <1>2, <1>3, PTL DEF Spec
=============================================================================
