------------------------ MODULE AuthorEvidence_proofs ------------------------
(***************************************************************************)
(* Machine-checked proofs about AuthorEvidence, for every set of authors,  *)
(* collections and repositories, every pacing interval, every rate limit   *)
(* and every concurrency of the worker.                                    *)
(***************************************************************************)
EXTENDS AuthorEvidence, FiniteSetTheorems, TLAPS

-----------------------------------------------------------------------------
(* The inductive invariant *)

\* The tables count the diffs of the round, or more: a stop leaves rows behind.
DiffItems == {i \in items : i.kind = "diff"}
RoundIsCounted ==
  /\ IsFiniteSet(items)
  /\ Cardinality(DiffItems) <= diffs.running

\* An item holds its job, and a running job has an item unless the worker is down.
ItemOf(kind, who) == [kind |-> kind, who |-> who]
Held(kind, jobs) ==
  \A x \in DOMAIN jobs :
    /\ ItemOf(kind, x) \in items => jobs[x].status = "running"
    /\ jobs[x].status = "running" => phase = "down" \/ ItemOf(kind, x) \in items
JobsAreHeld == Held("contribution", contribution) /\ Held("public", public)

\* The slot of the public queue lies after the last start and after GitHub's reset.
SlotIsLate == started <= nextAttempt /\ quota <= nextAttempt

\* The later a kind's turn, the less often it has been passed over.
TurnComes == \A k \in KindIndexes : passed[k] + Turn(k) <= 2

\* Whoever waits behind a deferred job is due before it.
BehindIsEarlier ==
  \A a \in Authors : \A b \in behind[a] :
    /\ public[a].status = "queued" /\ public[b].status = "queued"
    /\ public[b].due < public[a].due

EvidenceInv ==
  /\ TypeOK /\ RoundIsCounted
  /\ JobsAreHeld /\ SlotIsLate /\ TurnComes /\ BehindIsEarlier
  /\ PendingIsUnderWay

-----------------------------------------------------------------------------
(* Helpers *)

\* The larger of two numbers.
LEMMA MaxOfTwo ==
  ASSUME NEW x \in Nat, NEW y \in Nat
  PROVE  Max({x, y}) \in Nat /\ Max({x, y}) >= x /\ Max({x, y}) >= y
<1>1. \E m \in {x, y} : \A n \in {x, y} : m >= n
  OBVIOUS
<1>2. Max({x, y}) \in {x, y} /\ \A n \in {x, y} : Max({x, y}) >= n
  BY <1>1 DEF Max
<1> QED BY <1>2

\* A retry is due after now, and no earlier than GitHub asked for.
LEMMA RetryIsLater ==
  ASSUME clock \in Nat, NEW reset \in Resets
  PROVE  RetryAt(reset) \in Nat /\ RetryAt(reset) > clock /\ RetryAt(reset) >= clock + reset
<1>1. clock + Interval \in Nat /\ clock + reset \in Nat /\ clock + Interval > clock
  BY IntervalAssumption
<1> HIDE DEF RetryAt
<1>2. RetryAt(reset) = Max({clock + Interval, clock + reset})
  BY DEF RetryAt
<1> QED BY <1>1, <1>2, MaxOfTwo

\* The operators on tables keep the shape of a row.
LEMMA RowTypes ==
  /\ NoJob \in Job
  /\ \A job \in Job, status \in {"none", "queued", "running"} :
       [job EXCEPT !.status = status] \in Job
  /\ \A record \in [status : Statuses, collected : BOOLEAN, history : History],
        status \in Statuses :
       [record EXCEPT !.status = status] \in [status : Statuses, collected : BOOLEAN, history : History]
  /\ \A record \in [status : Statuses, collected : BOOLEAN], status \in Statuses :
       [record EXCEPT !.status = status] \in [status : Statuses, collected : BOOLEAN]
BY DEF NoJob, Job, Statuses

\* A request inserts jobs into the table of jobs.
LEMMA InsertedTypes ==
  ASSUME NEW D, NEW jobs \in [D -> Job], clock \in Nat, NEW S
  PROVE  Inserted(jobs, S) \in [D -> Job]
BY DEF Inserted, Job

\* A reload that cancels queued jobs keeps the table of jobs.
LEMMA CanceledTypes ==
  ASSUME NEW D, NEW jobs \in [D -> Job], NEW S
  PROVE  CanceledJobs(jobs, S) \in [D -> Job]
BY RowTypes DEF CanceledJobs

\* Recovery requeues jobs and keeps the table of jobs.
LEMMA RecoveredTypes ==
  ASSUME NEW D, NEW jobs \in [D -> Job]
  PROVE  Recovered(jobs) \in [D -> Job]
BY RowTypes DEF Recovered

\* Marking evidence as pending keeps the shape of both tables of evidence.
LEMMA MarkedTypes ==
  ASSUME NEW D, NEW jobs
  PROVE  /\ \A table \in [D -> [status : Statuses, collected : BOOLEAN, history : History]] :
              Marked(table, jobs) \in [D -> [status : Statuses, collected : BOOLEAN, history : History]]
         /\ \A table \in [D -> [status : Statuses, collected : BOOLEAN]] :
              Marked(table, jobs) \in [D -> [status : Statuses, collected : BOOLEAN]]
<1>1. "pending" \in Statuses
  BY DEF Statuses
<1> QED BY <1>1, RowTypes DEF Marked

\* Init has the types, and a round without items.
LEMMA TypeInit == Init => TypeOK /\ RoundIsCounted
<1> SUFFICES ASSUME Init PROVE TypeOK /\ RoundIsCounted
  OBVIOUS
<1>1. TypeOK
  BY BoundsAssumption
  DEF Init, TypeOK, NoJob, Job, NoCounts, NoProfile, NoHistory, History, Statuses, KindIndexes
<1>2. DiffItems = {} /\ items = {}
  BY DEF Init, DiffItems
<1> QED BY <1>1, <1>2, FS_EmptySet DEF RoundIsCounted, Init

-----------------------------------------------------------------------------
(* Types *)

\* Requests and reloads.
LEMMA RequestTypes == TypeOK /\ (Requests \/ Reload \/ Publish \/ Elapse) => TypeOK'
<1> SUFFICES ASSUME TypeOK, Requests \/ Reload \/ Publish \/ Elapse PROVE TypeOK'
  OBVIOUS
<1> USE DEF config, evidence, queues, worker, promises
<1>t. /\ clock \in Nat /\ clock \in 0..Horizon
      /\ contribution \in [Targets -> Job] /\ public \in [Authors -> Job]
      /\ counts \in [Targets -> [status : Statuses, collected : BOOLEAN, history : History]]
      /\ profile \in [Authors -> [status : Statuses, collected : BOOLEAN]]
  BY BoundsAssumption DEF TypeOK
<1>1. CASE EnqueueDiff
  BY <1>1 DEF EnqueueDiff, TypeOK
<1>2. ASSUME NEW c \in Collections, EnqueueCollectionEvidence(c) PROVE TypeOK'
  <2>1. contribution' \in [Targets -> Job] /\ public' \in [Authors -> Job]
    BY <1>t, <1>2, InsertedTypes DEF EnqueueCollectionEvidence
  <2>2. /\ counts' \in [Targets -> [status : Statuses, collected : BOOLEAN, history : History]]
        /\ profile' \in [Authors -> [status : Statuses, collected : BOOLEAN]]
    BY <1>t, <1>2, MarkedTypes DEF EnqueueCollectionEvidence
  <2> QED BY <1>2, <2>1, <2>2 DEF EnqueueCollectionEvidence, TypeOK
<1>3. ASSUME NEW c \in Collections, EnqueueAncillaryAuthorRefresh(c) PROVE TypeOK'
  <2>1. public' \in [Authors -> Job]
    BY <1>t, <1>3, InsertedTypes DEF EnqueueAncillaryAuthorRefresh
  <2>2. profile' \in [Authors -> [status : Statuses, collected : BOOLEAN]]
    BY <1>t, <1>3, MarkedTypes DEF EnqueueAncillaryAuthorRefresh
  <2> QED BY <1>3, <2>1, <2>2 DEF EnqueueAncillaryAuthorRefresh, TypeOK
<1>4. CASE Reload
  <2>1. contribution' \in [Targets -> Job] /\ public' \in [Authors -> Job]
    BY <1>t, <1>4, CanceledTypes DEF Reload
  <2>2. enabled' \subseteq Collections /\ canceled' \subseteq Targets \cup Authors
    BY <1>4 DEF Reload, TypeOK
  <2>3. behind' \in [Authors -> SUBSET Authors]
    BY <1>4 DEF Reload, TypeOK
  <2> QED BY <1>4, <2>1, <2>2, <2>3 DEF Reload, TypeOK
<1>5. CASE Publish
  BY <1>5 DEF Publish, TypeOK
<1>6. CASE Elapse
  BY <1>6, BoundsAssumption DEF Elapse, TypeOK
<1> QED BY <1>1, <1>2, <1>3, <1>4, <1>5, <1>6 DEF Requests

\* The worker starts, stops, claims and begins its round.
LEMMA WorkerTypes ==
  TypeOK /\ RoundIsCounted /\ (StartEvidence \/ StopEvidence \/ Claim \/ BeginRound)
    => TypeOK' /\ RoundIsCounted'
<1> SUFFICES ASSUME TypeOK, RoundIsCounted, StartEvidence \/ StopEvidence \/ Claim \/ BeginRound
             PROVE  TypeOK' /\ RoundIsCounted'
  OBVIOUS
<1> USE DEF config, evidence, queues, worker, promises
<1>t. /\ clock \in Nat /\ diffs.queued \in Nat /\ diffs.running \in Nat
      /\ contribution \in [Targets -> Job] /\ public \in [Authors -> Job]
      /\ passed \in [KindIndexes -> Nat] /\ items \subseteq Item /\ IsFiniteSet(items)
  BY BoundsAssumption DEF TypeOK, RoundIsCounted
<1>e. IsFiniteSet({}) /\ Cardinality({}) = 0
  BY FS_EmptySet
<1>1. CASE StartEvidence
  <2>1. contribution' \in [Targets -> Job] /\ public' \in [Authors -> Job]
    BY <1>t, <1>1, RecoveredTypes DEF StartEvidence
  <2>2. TypeOK'
    BY <1>t, <1>1, <2>1 DEF StartEvidence, TypeOK, RecoveredPacing, KindIndexes
  <2>3. DiffItems' = {} /\ items' = {} /\ diffs'.running = 0
    BY <1>1 DEF StartEvidence, DiffItems
  <2> QED BY <1>e, <2>2, <2>3 DEF RoundIsCounted
<1>2. CASE StopEvidence
  <2>1. TypeOK'
    BY <1>2 DEF StopEvidence, TypeOK
  <2>2. DiffItems' = {} /\ items' = {} /\ diffs' = diffs
    BY <1>2 DEF StopEvidence, DiffItems
  <2> QED BY <1>t, <1>e, <2>1, <2>2 DEF RoundIsCounted
<1>c. ASSUME NEW k \in KindIndexes, Claiming(k)
      PROVE  passed' \in [KindIndexes -> Nat] /\ queueNext' \in KindIndexes
  BY <1>t, <1>c DEF Claiming, After, KindIndexes
<1>3. CASE ClaimContribution
  <2> PICK t \in Due(contribution) :
             /\ contribution' = [contribution EXCEPT ![t].status = "running"]
             /\ items' = items \cup {[kind |-> "contribution", who |-> t]}
    BY <1>3 DEF ClaimContribution
  <2>1. t \in Targets
    BY <1>t DEF Due, AnyDue
  <2>2. contribution' \in [Targets -> Job] /\ items' \subseteq Item
    <3>1. [contribution[t] EXCEPT !.status = "running"] \in Job
      BY <1>t, <2>1, RowTypes
    <3>2. [kind |-> "contribution", who |-> t] \in Item
      BY <2>1 DEF Item
    <3> QED BY <1>t, <2>1, <3>1, <3>2
  <2>3. TypeOK'
    BY <1>3, <1>c, <2>2 DEF ClaimContribution, Claiming, TypeOK, KindIndexes
  <2>4. DiffItems' = DiffItems /\ diffs' = diffs
    BY <1>3 DEF DiffItems, ClaimContribution
  <2> QED BY <1>t, <2>3, <2>4, FS_AddElement DEF RoundIsCounted
<1>4. CASE ClaimPublic
  <2> PICK a \in Due(public) :
             /\ public' = [public EXCEPT ![a].status = "running"]
             /\ items' = items \cup {[kind |-> "public", who |-> a]}
             /\ behind' = [b \in Authors |-> IF b = a THEN {} ELSE behind[b] \ {a}]
    BY <1>4 DEF ClaimPublic
  <2>1. a \in Authors
    BY <1>t DEF Due, AnyDue
  <2>2. public' \in [Authors -> Job] /\ items' \subseteq Item
    <3>1. [public[a] EXCEPT !.status = "running"] \in Job
      BY <1>t, <2>1, RowTypes
    <3>2. [kind |-> "public", who |-> a] \in Item
      BY <2>1 DEF Item
    <3> QED BY <1>t, <2>1, <3>1, <3>2
  <2>3. behind' \in [Authors -> SUBSET Authors] /\ clock + Interval \in Nat
    BY <1>t, IntervalAssumption DEF TypeOK
  <2>4. TypeOK'
    BY <1>4, <1>c, <2>2, <2>3 DEF ClaimPublic, Claiming, TypeOK, KindIndexes
  <2>5. DiffItems' = DiffItems /\ diffs' = diffs
    BY <1>4 DEF DiffItems, ClaimPublic
  <2> QED BY <1>t, <2>4, <2>5, FS_AddElement DEF RoundIsCounted
<1>5. CASE ClaimDiff
  <2> DEFINE item == [kind |-> "diff", who |-> Cardinality(items) + 1]
  <2>1. Cardinality(items) \in Nat /\ Cardinality(items) < Concurrency
    BY <1>t, <1>5, FS_CardinalityType DEF ClaimDiff, Claiming
  <2>2. item \in Item
    BY <2>1, ConcurrencyAssumption DEF Item
  <2>3. /\ items' = items \cup {item}
        /\ diffs' = [queued |-> diffs.queued - 1, running |-> diffs.running + 1]
    BY <1>5 DEF ClaimDiff
  <2>4. diffs.queued > 0
    BY <1>5 DEF ClaimDiff, Claiming, IsNextKind, Claimable, Kinds
  <2>5. diffs' \in [queued : Nat, running : Nat] /\ diffs'.running = diffs.running + 1
    BY <1>t, <2>3, <2>4
  <2>6. items' \subseteq Item
    BY <1>t, <2>2, <2>3
  <2>7. TypeOK'
    BY <1>5, <1>c, <2>5, <2>6 DEF ClaimDiff, Claiming, TypeOK, KindIndexes
  <2>8. DiffItems' = DiffItems \cup {item} /\ IsFiniteSet(DiffItems)
    BY <1>t, <2>3, FS_Subset DEF DiffItems
  <2> HIDE DEF item
  <2>9. /\ Cardinality(DiffItems) \in Nat
        /\ Cardinality(DiffItems') <= Cardinality(DiffItems) + 1
    <3>1. Cardinality(DiffItems) \in Nat
      BY <2>8, FS_CardinalityType
    <3>2. Cardinality(DiffItems \cup {item})
            = IF item \in DiffItems THEN Cardinality(DiffItems) ELSE Cardinality(DiffItems) + 1
      BY <2>8, FS_AddElement
    <3> QED BY <2>8, <3>1, <3>2
  <2>10. Cardinality(DiffItems') <= diffs'.running
    <3>1. Cardinality(DiffItems') \in Nat
      BY <2>8, FS_AddElement, FS_CardinalityType
    <3> QED BY <1>t, <2>5, <2>9, <3>1 DEF RoundIsCounted
  <2>11. IsFiniteSet(items')
    BY <1>t, <2>3, FS_AddElement
  <2> QED BY <2>7, <2>10, <2>11 DEF RoundIsCounted, DiffItems
<1>6. CASE BeginRound
  <2>1. TypeOK'
    BY <1>6 DEF BeginRound, TypeOK
  <2> QED BY <1>6, <2>1 DEF BeginRound, RoundIsCounted, DiffItems
<1> QED BY <1>1, <1>2, <1>3, <1>4, <1>5, <1>6 DEF Claim

\* An item leaves the round with its answer.
LEMMA AnswerTypes ==
  TypeOK /\ RoundIsCounted /\ Answers => TypeOK' /\ RoundIsCounted'
<1> SUFFICES ASSUME TypeOK, RoundIsCounted, Answers PROVE TypeOK' /\ RoundIsCounted'
  OBVIOUS
<1> USE DEF config, evidence, queues, worker, promises
<1>t. /\ clock \in Nat /\ diffs \in [queued : Nat, running : Nat] /\ nextAttempt \in Nat /\ quota \in Nat
      /\ contribution \in [Targets -> Job] /\ public \in [Authors -> Job]
      /\ items \subseteq Item /\ IsFiniteSet(items)
      /\ counts \in [Targets -> [status : Statuses, collected : BOOLEAN, history : History]]
      /\ profile \in [Authors -> [status : Statuses, collected : BOOLEAN]]
      /\ Cardinality(DiffItems) <= diffs.running
  BY BoundsAssumption DEF TypeOK, RoundIsCounted
<1>s. "failed" \in Statuses /\ "pending" \in Statuses /\ "complete" \in Statuses
  BY DEF Statuses
<1>d. IsFiniteSet(DiffItems) /\ Cardinality(DiffItems) \in Nat
  BY <1>t, FS_Subset, FS_CardinalityType DEF DiffItems
<1>f. ASSUME NEW item, Finish(item)
      PROVE  /\ items' = items \ {item} /\ items' \subseteq Item /\ IsFiniteSet(items')
             /\ phase' \in {"down", "claiming", "working"}
             /\ item.kind # "diff" => DiffItems' = DiffItems
  BY <1>t, <1>f, FS_RemoveElement DEF Finish, DiffItems
<1>1. ASSUME NEW t \in Targets, CompleteContribution(t) PROVE TypeOK' /\ RoundIsCounted'
  <2>1. contribution' \in [Targets -> Job]
    BY <1>t, <1>1, RowTypes DEF CompleteContribution
  <2>2. counts' \in [Targets -> [status : Statuses, collected : BOOLEAN, history : History]]
    <3>1. Failed(counts[t]) \in [status : Statuses, collected : BOOLEAN, history : History]
      BY <1>t, <1>s, RowTypes DEF Failed
    <3>2. \A h \in Histories :
            Collected(h) \in [status : Statuses, collected : BOOLEAN, history : History]
      BY <1>s, HistoriesAssumption DEF Collected, History
    <3> QED BY <1>t, <1>1, <3>1, <3>2 DEF CompleteContribution
  <2>3. TypeOK'
    BY <1>1, <1>f, <2>1, <2>2 DEF CompleteContribution, Finish, TypeOK
  <2>4. DiffItems' = DiffItems /\ diffs' = diffs /\ IsFiniteSet(items')
    BY <1>1, <1>f DEF CompleteContribution
  <2> QED BY <1>t, <2>3, <2>4 DEF RoundIsCounted
<1>2. ASSUME NEW a \in Authors, CompletePublic(a) PROVE TypeOK' /\ RoundIsCounted'
  <2>1. public' \in [Authors -> Job]
    BY <1>t, <1>2, RowTypes DEF CompletePublic
  <2>2. profile' \in [Authors -> [status : Statuses, collected : BOOLEAN]]
    <3>1. Failed(profile[a]) \in [status : Statuses, collected : BOOLEAN]
      BY <1>t, <1>s, RowTypes DEF Failed
    <3>2. [status |-> "complete", collected |-> TRUE] \in [status : Statuses, collected : BOOLEAN]
      BY <1>s
    <3>3. \/ profile' = [profile EXCEPT ![a] = Failed(profile[a])]
          \/ profile' = [profile EXCEPT ![a] = [status |-> "complete", collected |-> TRUE]]
      BY <1>2 DEF CompletePublic
    <3> QED BY <1>t, <3>1, <3>2, <3>3
  <2>3. behind' \in [Authors -> SUBSET Authors]
    BY <1>2 DEF CompletePublic, TypeOK
  <2>4. TypeOK'
    BY <1>2, <1>f, <2>1, <2>2, <2>3 DEF CompletePublic, Finish, TypeOK
  <2>5. DiffItems' = DiffItems /\ diffs' = diffs /\ IsFiniteSet(items')
    BY <1>2, <1>f DEF CompletePublic
  <2> QED BY <1>t, <2>4, <2>5 DEF RoundIsCounted
<1>3. ASSUME NEW a \in Authors, DeferPublic(a) PROVE TypeOK' /\ RoundIsCounted'
  <2> PICK reset \in Resets :
             /\ public' = [public EXCEPT ![a] = Deferred(a, reset)]
             /\ nextAttempt' = Max({nextAttempt, RetryAt(reset)})
             /\ quota' = Max({quota, clock + reset})
    BY <1>3 DEF DeferPublic
  <2>1. RetryAt(reset) \in Nat /\ clock + reset \in Nat
    BY <1>t, RetryIsLater, IntervalAssumption
  <2>2. nextAttempt' \in Nat /\ quota' \in Nat
    BY <1>t, <2>1, MaxOfTwo
  <2>3. public' \in [Authors -> Job]
    BY <1>t, <2>1 DEF Deferred, Job
  <2>4. profile' \in [Authors -> [status : Statuses, collected : BOOLEAN]]
    BY <1>t, <1>3, <1>s, RowTypes DEF DeferPublic
  <2>5. behind' \in [Authors -> SUBSET Authors]
    BY <1>3 DEF DeferPublic, TypeOK
  <2>6. TypeOK'
    BY <1>3, <1>f, <2>2, <2>3, <2>4, <2>5 DEF DeferPublic, Finish, TypeOK
  <2>7. DiffItems' = DiffItems /\ diffs' = diffs /\ IsFiniteSet(items')
    BY <1>3, <1>f DEF DeferPublic
  <2> QED BY <1>t, <2>6, <2>7 DEF RoundIsCounted
<1>4. ASSUME NEW n \in 1..Concurrency, CompleteDiff(n) PROVE TypeOK' /\ RoundIsCounted'
  <2> DEFINE item == [kind |-> "diff", who |-> n]
  <2>1. item \in DiffItems /\ DiffItems' = DiffItems \ {item}
    BY <1>4, <1>f DEF CompleteDiff, Finish, DiffItems
  <2> HIDE DEF item
  <2>2. Cardinality(DiffItems') = Cardinality(DiffItems) - 1 /\ Cardinality(DiffItems') \in Nat
    BY <1>d, <2>1, FS_RemoveElement, FS_CardinalityType
  <2>3. diffs' = [diffs EXCEPT !.running = diffs.running - 1]
    BY <1>4 DEF CompleteDiff
  <2>4. diffs' \in [queued : Nat, running : Nat] /\ diffs'.running = diffs.running - 1
    BY <1>t, <1>d, <2>2, <2>3
  <2>5. TypeOK'
    BY <1>4, <1>f, <2>4 DEF CompleteDiff, Finish, TypeOK
  <2>6. Cardinality(DiffItems') <= diffs'.running
    BY <1>t, <1>d, <2>2, <2>4
  <2>7. IsFiniteSet(items')
    BY <1>4, <1>f DEF CompleteDiff
  <2> QED BY <2>5, <2>6, <2>7 DEF RoundIsCounted, DiffItems
<1> QED BY <1>1, <1>2, <1>3, <1>4 DEF Answers

\* Every step.
LEMMA TypeStep == TypeOK /\ RoundIsCounted /\ Next => TypeOK' /\ RoundIsCounted'
<1> SUFFICES ASSUME TypeOK, RoundIsCounted, Next PROVE TypeOK' /\ RoundIsCounted'
  OBVIOUS
<1>1. CASE Requests \/ Reload \/ Publish \/ Elapse
  <2>1. items' = items /\ diffs'.running = diffs.running
    <3>1. CASE EnqueueDiff
      BY <3>1 DEF EnqueueDiff, worker, TypeOK
    <3>2. CASE ~EnqueueDiff
      BY <1>1, <3>2 DEF Requests, EnqueueCollectionEvidence, EnqueueAncillaryAuthorRefresh,
                        Reload, Publish, Elapse, worker, queues
    <3> QED BY <3>1, <3>2
  <2> QED BY <1>1, <2>1, RequestTypes DEF RoundIsCounted, DiffItems
<1>2. CASE StartEvidence \/ StopEvidence \/ Claim \/ BeginRound
  BY <1>2, WorkerTypes
<1>3. CASE Answers
  BY <1>3, AnswerTypes
<1> QED BY <1>1, <1>2, <1>3 DEF Next

-----------------------------------------------------------------------------
(* The jobs that run and the items of the round *)

\* Inserting and canceling leave the running jobs alone; recovery ends them.
LEMMA RunningJobs ==
  ASSUME NEW D, NEW jobs \in [D -> Job], NEW S, NEW x \in D
  PROVE  /\ Inserted(jobs, S)[x].status = "running" <=> jobs[x].status = "running"
         /\ CanceledJobs(jobs, S)[x].status = "running" <=> jobs[x].status = "running"
         /\ Recovered(jobs)[x].status # "running"
<1>1. /\ Inserted(jobs, S)[x] \in {jobs[x], [status |-> "queued", due |-> clock]}
      /\ jobs[x].status # "none" => Inserted(jobs, S)[x] = jobs[x]
  BY DEF Inserted
<1>2. CanceledJobs(jobs, S)[x] = IF jobs[x].status = "queued" /\ x \notin S THEN NoJob ELSE jobs[x]
  BY DEF CanceledJobs
<1>3. Recovered(jobs)[x].status # "running"
  BY DEF Recovered, Job
<1> QED BY <1>1, <1>2, <1>3 DEF NoJob

\* Items of different kinds, and of different jobs, are different.
LEMMA ItemsDiffer ==
  ASSUME NEW k1, NEW x1, NEW k2, NEW x2
  PROVE  ItemOf(k1, x1) = ItemOf(k2, x2) <=> k1 = k2 /\ x1 = x2
<1>1. ItemOf(k1, x1).kind = k1 /\ ItemOf(k1, x1).who = x1
  BY DEF ItemOf
<1>2. ItemOf(k2, x2).kind = k2 /\ ItemOf(k2, x2).who = x2
  BY DEF ItemOf
<1> QED BY <1>1, <1>2

\* The jobs and the round of a step that leaves the worker alone.
LEMMA HeldFrame ==
  ASSUME JobsAreHeld, UNCHANGED <<phase, items>>,
         contribution \in [Targets -> Job], contribution' \in [Targets -> Job],
         public \in [Authors -> Job], public' \in [Authors -> Job],
         \A t \in Targets : contribution'[t].status = "running" <=> contribution[t].status = "running",
         \A a \in Authors : public'[a].status = "running" <=> public[a].status = "running"
  PROVE  JobsAreHeld'
BY DEF JobsAreHeld, Held, ItemOf

\* An item leaves with its job, or with none.
LEMMA HeldFinish ==
  ASSUME JobsAreHeld, NEW item, items' = items \ {item}, phase = "working",
         contribution \in [Targets -> Job], contribution' \in [Targets -> Job],
         public \in [Authors -> Job], public' \in [Authors -> Job],
         \A t \in Targets :
           contribution'[t].status = "running"
             <=> contribution[t].status = "running" /\ item # ItemOf("contribution", t),
         \A a \in Authors :
           public'[a].status = "running"
             <=> public[a].status = "running" /\ item # ItemOf("public", a)
  PROVE  JobsAreHeld'
<1>1. \A t \in Targets : /\ ItemOf("contribution", t) \in items' => contribution'[t].status = "running"
                         /\ contribution'[t].status = "running" => ItemOf("contribution", t) \in items'
  BY DEF JobsAreHeld, Held
<1>2. \A a \in Authors : /\ ItemOf("public", a) \in items' => public'[a].status = "running"
                         /\ public'[a].status = "running" => ItemOf("public", a) \in items'
  BY DEF JobsAreHeld, Held
<1> QED BY <1>1, <1>2 DEF JobsAreHeld, Held, ItemOf

\* Every step keeps items and running jobs together.
LEMMA HeldStep == TypeOK /\ TypeOK' /\ JobsAreHeld /\ Next => JobsAreHeld'
<1> SUFFICES ASSUME TypeOK, TypeOK', JobsAreHeld, Next PROVE JobsAreHeld'
  OBVIOUS
<1>t. /\ contribution \in [Targets -> Job] /\ contribution' \in [Targets -> Job]
      /\ public \in [Authors -> Job] /\ public' \in [Authors -> Job]
  BY DEF TypeOK
<1>1. CASE EnqueueDiff \/ Publish \/ Elapse \/ ClaimDiff
  <2>1. contribution' = contribution /\ public' = public /\ phase' = phase
    BY <1>1 DEF EnqueueDiff, Publish, Elapse, ClaimDiff, Claiming, queues, worker
  <2>2. CASE ClaimDiff
    <3>1. items' = items \cup {ItemOf("diff", Cardinality(items) + 1)}
      BY <2>2 DEF ClaimDiff, ItemOf
    <3>2. /\ \A t \in Targets : ItemOf("contribution", t) \in items' <=> ItemOf("contribution", t) \in items
          /\ \A a \in Authors : ItemOf("public", a) \in items' <=> ItemOf("public", a) \in items
      BY <3>1, ItemsDiffer
    <3> QED BY <1>t, <2>1, <3>2 DEF JobsAreHeld, Held, ItemOf
  <2>3. CASE ~ClaimDiff
    <3>1. items' = items
      BY <1>1, <2>3 DEF EnqueueDiff, Publish, Elapse, worker
    <3> QED BY <1>t, <2>1, <3>1, HeldFrame
  <2> QED BY <2>2, <2>3
<1>2. ASSUME NEW c \in Collections, EnqueueCollectionEvidence(c) PROVE JobsAreHeld'
  <2>1. /\ contribution' = Inserted(contribution, OpenAuthors(c) \X Configures[c])
        /\ public' = Inserted(public, OpenAuthors(c)) /\ UNCHANGED <<phase, items>>
    BY <1>2 DEF EnqueueCollectionEvidence, worker
  <2>2. /\ \A t \in Targets : contribution'[t].status = "running" <=> contribution[t].status = "running"
        /\ \A a \in Authors : public'[a].status = "running" <=> public[a].status = "running"
    BY <1>t, <2>1, RunningJobs
  <2> QED BY <1>t, <2>1, <2>2, HeldFrame
<1>3. ASSUME NEW c \in Collections, EnqueueAncillaryAuthorRefresh(c) PROVE JobsAreHeld'
  BY <1>t, <1>3, RunningJobs, HeldFrame DEF EnqueueAncillaryAuthorRefresh, worker
<1>4. CASE Reload
  BY <1>t, <1>4, RunningJobs, HeldFrame DEF Reload, worker
<1>5. CASE StartEvidence
  <2>1. /\ items' = {}
        /\ \A t \in Targets : contribution'[t].status # "running"
        /\ \A a \in Authors : public'[a].status # "running"
    BY <1>t, <1>5, RunningJobs DEF StartEvidence
  <2> QED BY <1>t, <2>1 DEF JobsAreHeld, Held, ItemOf
<1>6. CASE StopEvidence
  BY <1>t, <1>6 DEF StopEvidence, queues, JobsAreHeld, Held, ItemOf
<1>7. CASE BeginRound
  BY <1>t, <1>7 DEF BeginRound, queues, JobsAreHeld, Held, ItemOf
<1>8. CASE ClaimContribution
  <2> PICK t \in Due(contribution) :
             /\ contribution' = [contribution EXCEPT ![t].status = "running"]
             /\ items' = items \cup {ItemOf("contribution", t)}
    BY <1>8 DEF ClaimContribution, ItemOf
  <2>1. t \in Targets /\ public' = public /\ phase' = phase
    BY <1>t, <1>8 DEF Due, AnyDue, ClaimContribution, Claiming
  <2>2. /\ \A x \in Targets : contribution'[x].status = IF x = t THEN "running" ELSE contribution[x].status
        /\ \A x \in Targets : ItemOf("contribution", x) \in items'
                                <=> x = t \/ ItemOf("contribution", x) \in items
        /\ \A a \in Authors : ItemOf("public", a) \in items' <=> ItemOf("public", a) \in items
    BY <1>t, <2>1, ItemsDiffer DEF Job
  <2> QED BY <1>t, <2>1, <2>2 DEF JobsAreHeld, Held, ItemOf
<1>9. CASE ClaimPublic
  <2> PICK a \in Due(public) :
             /\ public' = [public EXCEPT ![a].status = "running"]
             /\ items' = items \cup {ItemOf("public", a)}
    BY <1>9 DEF ClaimPublic, ItemOf
  <2>1. a \in Authors /\ contribution' = contribution /\ phase' = phase
    BY <1>t, <1>9 DEF Due, AnyDue, ClaimPublic, Claiming
  <2>2. /\ \A x \in Authors : public'[x].status = IF x = a THEN "running" ELSE public[x].status
        /\ \A x \in Authors : ItemOf("public", x) \in items' <=> x = a \/ ItemOf("public", x) \in items
        /\ \A t \in Targets : ItemOf("contribution", t) \in items' <=> ItemOf("contribution", t) \in items
    BY <1>t, <2>1, ItemsDiffer DEF Job
  <2> QED BY <1>t, <2>1, <2>2 DEF JobsAreHeld, Held, ItemOf
<1>10. ASSUME NEW t \in Targets, CompleteContribution(t) PROVE JobsAreHeld'
  <2>1. /\ items' = items \ {ItemOf("contribution", t)} /\ phase = "working"
        /\ contribution' = [contribution EXCEPT ![t] = NoJob] /\ public' = public
    BY <1>10 DEF CompleteContribution, Finish, ItemOf
  <2>2. /\ \A x \in Targets : contribution'[x].status = "running"
                                <=> contribution[x].status = "running"
                                      /\ ItemOf("contribution", t) # ItemOf("contribution", x)
        /\ \A a \in Authors : public'[a].status = "running"
                                <=> public[a].status = "running"
                                      /\ ItemOf("contribution", t) # ItemOf("public", a)
    BY <1>t, <2>1, ItemsDiffer DEF NoJob
  <2> QED BY <1>t, <2>1, <2>2, HeldFinish
<1>11. ASSUME NEW a \in Authors, CompletePublic(a) \/ DeferPublic(a) PROVE JobsAreHeld'
  <2>1. /\ items' = items \ {ItemOf("public", a)} /\ phase = "working" /\ contribution' = contribution
        /\ public'[a].status # "running" /\ \A x \in Authors \ {a} : public'[x] = public[x]
    <3>1. CASE CompletePublic(a)
      BY <1>t, <3>1 DEF CompletePublic, Finish, ItemOf, NoJob
    <3>2. CASE DeferPublic(a)
      <4> PICK reset \in Resets : public' = [public EXCEPT ![a] = Deferred(a, reset)]
        BY <3>2 DEF DeferPublic
      <4>1. public'[a].status # "running" /\ \A x \in Authors \ {a} : public'[x] = public[x]
        BY <1>t DEF Deferred
      <4> QED BY <3>2, <4>1 DEF DeferPublic, Finish, ItemOf
    <3> QED BY <1>11, <3>1, <3>2
  <2>2. /\ \A t \in Targets : contribution'[t].status = "running"
                                <=> contribution[t].status = "running"
                                      /\ ItemOf("public", a) # ItemOf("contribution", t)
        /\ \A x \in Authors : public'[x].status = "running"
                                <=> public[x].status = "running"
                                      /\ ItemOf("public", a) # ItemOf("public", x)
    BY <1>t, <2>1, ItemsDiffer
  <2> QED BY <1>t, <2>1, <2>2, HeldFinish
<1>12. ASSUME NEW n \in 1..Concurrency, CompleteDiff(n) PROVE JobsAreHeld'
  <2>1. /\ items' = items \ {ItemOf("diff", n)} /\ phase = "working"
        /\ contribution' = contribution /\ public' = public
    BY <1>12 DEF CompleteDiff, Finish, ItemOf
  <2>2. /\ \A t \in Targets : contribution'[t].status = "running"
                                <=> contribution[t].status = "running"
                                      /\ ItemOf("diff", n) # ItemOf("contribution", t)
        /\ \A x \in Authors : public'[x].status = "running"
                                <=> public[x].status = "running"
                                      /\ ItemOf("diff", n) # ItemOf("public", x)
    BY <2>1, ItemsDiffer
  <2> QED BY <1>t, <2>1, <2>2, HeldFinish
<1> QED
  BY <1>1, <1>2, <1>3, <1>4, <1>5, <1>6, <1>7, <1>8, <1>9, <1>10, <1>11, <1>12
  DEF Next, Requests, Claim, Answers

-----------------------------------------------------------------------------
(* The pace of the public queue, and the turns of the kinds *)

\* A claim takes the next slot, and a deferral moves it past GitHub's reset.
LEMMA SlotStep == TypeOK /\ SlotIsLate /\ Next => SlotIsLate'
<1> SUFFICES ASSUME TypeOK, SlotIsLate, Next PROVE SlotIsLate'
  OBVIOUS
<1>t. clock \in Nat /\ nextAttempt \in Nat /\ started \in Nat /\ quota \in Nat
  BY BoundsAssumption DEF TypeOK
<1>1. CASE ClaimPublic
  <2>1. nextAttempt' = clock + Interval /\ started' = clock + Interval /\ quota' = quota
    BY <1>1 DEF ClaimPublic
  <2>2. nextAttempt <= clock
    BY <1>t, <1>1 DEF ClaimPublic, Claiming, IsNextKind, Claimable, Kinds, PublicBlocked
  <2> QED BY <1>t, <2>1, <2>2, IntervalAssumption DEF SlotIsLate
<1>2. ASSUME NEW a \in Authors, DeferPublic(a) PROVE SlotIsLate'
  <2> PICK reset \in Resets : /\ nextAttempt' = Max({nextAttempt, RetryAt(reset)})
                              /\ quota' = Max({quota, clock + reset})
    BY <1>2 DEF DeferPublic
  <2>1. RetryAt(reset) \in Nat /\ RetryAt(reset) >= clock + reset /\ clock + reset \in Nat
    BY <1>t, RetryIsLater, IntervalAssumption
  <2>2. /\ nextAttempt' \in Nat /\ nextAttempt' >= nextAttempt /\ nextAttempt' >= RetryAt(reset)
    BY <1>t, <2>1, MaxOfTwo
  <2>3. quota' \in {quota, clock + reset}
    <3>1. \E m \in {quota, clock + reset} : \A n \in {quota, clock + reset} : m >= n
      BY <1>t, <2>1
    <3> QED BY <3>1 DEF Max
  <2>4. started' = started
    BY <1>2 DEF DeferPublic, Finish
  <2> QED BY <1>t, <2>1, <2>2, <2>3, <2>4 DEF SlotIsLate
<1>3. CASE ~(ClaimPublic \/ \E a \in Authors : DeferPublic(a))
  <2>1. UNCHANGED <<nextAttempt, started, quota>>
    BY <1>3 DEF Next, Requests, Answers, Claim, EnqueueCollectionEvidence,
         EnqueueAncillaryAuthorRefresh, EnqueueDiff, Reload, Publish, Elapse, StartEvidence,
         RecoveredPacing, StopEvidence, ClaimContribution, ClaimDiff, BeginRound, Finish,
         CompleteContribution, CompletePublic, CompleteDiff, queues, promises
  <2> QED BY <2>1 DEF SlotIsLate
<1> QED BY <1>1, <1>2, <1>3

\* Counting from q around to k.
LEMMA Around ==
  \A k, q \in 1..3 : (k + 3 - q) % 3 = IF k >= q THEN k - q ELSE k + 3 - q
OBVIOUS

\* How far the turn of a kind is off.
LEMMA Turns ==
  ASSUME queueNext \in KindIndexes
  PROVE  \A k \in KindIndexes : /\ Turn(k) = IF k >= queueNext THEN k - queueNext ELSE k + 3 - queueNext
                                /\ Turn(k) \in 0..2
BY Around DEF Turn, KindIndexes

\* A claim moves the turns on by at least as much as it passes kinds over.
LEMMA TurnStep == TypeOK /\ TypeOK' /\ TurnComes /\ Next => TurnComes'
<1> SUFFICES ASSUME TypeOK, TypeOK', TurnComes, Next PROVE TurnComes'
  OBVIOUS
<1>t. /\ queueNext \in KindIndexes /\ queueNext' \in KindIndexes
      /\ passed \in [KindIndexes -> Nat] /\ passed' \in [KindIndexes -> Nat]
  BY DEF TypeOK
<1>n. \A k \in KindIndexes :
        /\ Turn(k)' = IF k >= queueNext' THEN k - queueNext' ELSE k + 3 - queueNext'
        /\ Turn(k)' \in 0..2
  <2>1. \A k \in 1..3 : Turn(k)' = (k + 3 - queueNext') % 3
    BY DEF Turn
  <2>2. ASSUME NEW q \in 1..3, NEW k \in 1..3
        PROVE  IF k >= q THEN k - q \in 0..2 ELSE k + 3 - q \in 0..2
    OBVIOUS
  <2> QED BY <1>t, <2>1, <2>2, Around DEF KindIndexes
<1>1. ASSUME NEW j \in KindIndexes, Claiming(j) PROVE TurnComes'
  <2>1. /\ j \in Claimable /\ \A k \in Claimable : Turn(j) <= Turn(k)
        /\ queueNext' = IF j = 3 THEN 1 ELSE j + 1
        /\ \A k \in KindIndexes :
             passed'[k] = IF k # j /\ k \in Claimable THEN passed[k] + 1 ELSE 0
    BY <1>1 DEF Claiming, IsNextKind, After, KindIndexes
  <2>2. ASSUME NEW k \in KindIndexes, k # j, k \in Claimable
        PROVE  Turn(k)' = Turn(k) - Turn(j) - 1
    <3>1. Turn(j) <= Turn(k)
      BY <2>1, <2>2
    <3> QED BY <1>t, <1>n, <2>1, <2>2, <3>1, Turns DEF KindIndexes
  <2>3. ASSUME NEW k \in KindIndexes PROVE passed'[k] + Turn(k)' <= 2
    <3>1. Turn(j) \in 0..2 /\ Turn(k) \in 0..2 /\ Turn(k)' \in 0..2 /\ passed[k] \in Nat
      BY <1>t, <1>n, Turns
    <3>2. passed[k] + Turn(k) <= 2
      BY DEF TurnComes
    <3>3. CASE k # j /\ k \in Claimable
      BY <2>1, <2>2, <3>1, <3>2, <3>3
    <3>4. CASE ~(k # j /\ k \in Claimable)
      BY <2>1, <3>1, <3>4
    <3> QED BY <3>3, <3>4
  <2> QED BY <2>3 DEF TurnComes, Turn
<1>2. CASE StartEvidence
  <2>1. \A k \in KindIndexes : passed'[k] = 0
    BY <1>2 DEF StartEvidence
  <2> QED BY <1>n, <2>1 DEF TurnComes, Turn
<1>3. CASE ~(Claim \/ StartEvidence)
  <2>1. UNCHANGED <<passed, queueNext>>
    BY <1>3 DEF Next, Requests, Answers, EnqueueCollectionEvidence,
         EnqueueAncillaryAuthorRefresh, EnqueueDiff, Reload, Publish, Elapse,
         StopEvidence, BeginRound, Finish, worker,
         CompleteContribution, CompletePublic, DeferPublic, CompleteDiff, promises
  <2> QED BY <2>1 DEF TurnComes, Turn
<1>4. CASE Claim
  <2>1. 1 \in KindIndexes /\ 2 \in KindIndexes /\ 3 \in KindIndexes
    BY DEF KindIndexes
  <2> QED BY <1>1, <1>4, <2>1 DEF Claim, ClaimContribution, ClaimPublic, ClaimDiff
<1> QED BY <1>2, <1>3, <1>4

-----------------------------------------------------------------------------
(* Who waits behind a deferred job *)

\* A deferral is due after everybody who is due by then, and nobody overtakes.
LEMMA BehindStep == TypeOK /\ TypeOK' /\ BehindIsEarlier /\ Next => BehindIsEarlier'
<1> SUFFICES ASSUME TypeOK, TypeOK', BehindIsEarlier, Next PROVE BehindIsEarlier'
  OBVIOUS
<1>t. /\ public \in [Authors -> Job] /\ public' \in [Authors -> Job] /\ clock \in Nat
      /\ behind \in [Authors -> SUBSET Authors]
  BY BoundsAssumption DEF TypeOK
\* A step may take the jobs of authors that neither wait nor are waited for.
<1>f. ASSUME \A a \in Authors : behind'[a] \subseteq behind[a],
             \A a \in Authors : public'[a] = public[a] \/ behind'[a] = {},
             \A a \in Authors : \A b \in behind'[a] : public'[b] = public[b]
      PROVE  BehindIsEarlier'
  BY <1>t, <1>f DEF BehindIsEarlier
<1>1. CASE UNCHANGED <<public, behind>>
  BY <1>1 DEF BehindIsEarlier
<1>q. \A a \in Authors : \A b \in behind[a] : public[a].status = "queued" /\ public[b].status = "queued"
  BY DEF BehindIsEarlier
<1>2. ASSUME NEW S, public' = Inserted(public, S) \/ public' = Recovered(public), behind' = behind
      PROVE  BehindIsEarlier'
  <2>1. \A a \in Authors : public[a].status = "queued" => public'[a] = public[a]
    BY <1>t, <1>2 DEF Inserted, Recovered
  <2> QED BY <1>t, <1>2, <1>q, <2>1 DEF BehindIsEarlier
<1>3. CASE Reload
  <2>1. \A a \in Authors : public'[a] = public[a] \/ a \in canceled'
    BY <1>3 DEF Reload
  <2>2. \A a \in Authors : behind'[a] = IF a \in canceled' THEN {} ELSE behind[a] \ canceled'
    BY <1>3 DEF Reload
  <2> QED BY <1>t, <1>f, <2>1, <2>2
<1>4. ASSUME NEW a \in Authors, \A x \in Authors \ {a} : public'[x] = public[x],
             behind' = [b \in Authors |-> IF b = a THEN {} ELSE behind[b] \ {a}]
      PROVE  BehindIsEarlier'
  BY <1>t, <1>f, <1>4
<1>5. CASE ClaimPublic
  <2> PICK a \in Due(public) :
             /\ public' = [public EXCEPT ![a].status = "running"]
             /\ behind' = [b \in Authors |-> IF b = a THEN {} ELSE behind[b] \ {a}]
    BY <1>5 DEF ClaimPublic
  <2>1. a \in Authors
    BY <1>t DEF Due, AnyDue
  <2> QED BY <1>t, <1>4, <2>1
<1>6. ASSUME NEW a \in Authors, CompletePublic(a) PROVE BehindIsEarlier'
  BY <1>t, <1>4, <1>6 DEF CompletePublic
<1>7. ASSUME NEW a \in Authors, DeferPublic(a) PROVE BehindIsEarlier'
  <2> PICK reset \in Resets : public' = [public EXCEPT ![a] = Deferred(a, reset)]
    BY <1>7 DEF DeferPublic
  <2>1. /\ RetryAt(reset) \in Nat /\ RetryAt(reset) > clock
        /\ public'[a].status = "queued" /\ public'[a].due = RetryAt(reset)
        /\ \A x \in Authors \ {a} : public'[x] = public[x]
    BY <1>t, RetryIsLater DEF Deferred
  <2>2. \A b \in Authors :
          behind'[b] = IF b = a THEN {x \in Authors \ {a} : public[x].status = "queued"
                                                           /\ public[x].due <= clock}
                       ELSE behind[b] \ {a}
    BY <1>7 DEF DeferPublic
  <2>3. ASSUME NEW b \in Authors, NEW x \in behind'[b]
        PROVE  /\ public'[b].status = "queued" /\ public'[x].status = "queued"
               /\ public'[x].due < public'[b].due
    <3>1. CASE b = a
      <4>1. x \in Authors \ {a} /\ public[x].status = "queued" /\ public[x].due <= clock
        BY <2>2, <2>3, <3>1
      <4>2. public[x].due \in Nat
        BY <1>t, <4>1 DEF Job
      <4> QED BY <1>t, <2>1, <3>1, <4>1, <4>2
    <3>2. CASE b # a
      <4>1. x \in behind[b] /\ x # a /\ x \in Authors
        BY <1>t, <2>2, <2>3, <3>2
      <4> QED BY <2>1, <3>2, <4>1 DEF BehindIsEarlier
    <3> QED BY <3>1, <3>2
  <2> QED BY <2>3 DEF BehindIsEarlier
<1>8. ASSUME NEW c \in Collections, EnqueueCollectionEvidence(c) \/ EnqueueAncillaryAuthorRefresh(c)
      PROVE  BehindIsEarlier'
  <2>1. behind' = behind /\ \E S : public' = Inserted(public, S)
    BY <1>8 DEF EnqueueCollectionEvidence, EnqueueAncillaryAuthorRefresh
  <2> QED BY <1>2, <2>1
<1>9. CASE StartEvidence
  BY <1>2, <1>9 DEF StartEvidence
<1>10. CASE \/ EnqueueDiff \/ Publish \/ Elapse \/ StopEvidence \/ BeginRound
            \/ ClaimContribution \/ ClaimDiff
            \/ \E t \in Targets : CompleteContribution(t)
            \/ \E n \in 1..Concurrency : CompleteDiff(n)
  BY <1>1, <1>10 DEF EnqueueDiff, Publish, Elapse, StopEvidence, BeginRound, ClaimContribution,
       ClaimDiff, CompleteContribution, CompleteDiff, queues, promises
<1> QED
  BY <1>3, <1>5, <1>6, <1>7, <1>8, <1>9, <1>10 DEF Next, Requests, Claim, Answers

-----------------------------------------------------------------------------
(* What is shown as pending *)

\* While items hold their jobs, what is under way is what has an active job.
LEMMA UnderWayIsActive ==
  ASSUME TypeOK, JobsAreHeld
  PROVE  PendingIsUnderWay <=>
           /\ \A t \in Targets \ canceled :
                counts[t].status = "pending" => contribution[t].status \in Active
           /\ \A a \in Authors \ canceled :
                profile[a].status = "pending" => public[a].status \in Active
BY DEF TypeOK, JobsAreHeld, Held, ItemOf, PendingIsUnderWay, UnderWay, Active

\* The rows of authors, with a job or without.
LEMMA Rows ==
  ASSUME NEW D, NEW jobs \in [D -> Job], NEW S, NEW x \in D
  PROVE  /\ jobs[x].status \in Active => /\ Inserted(jobs, S)[x].status \in Active
                                         /\ Recovered(jobs)[x].status \in Active
         /\ x \in S => Inserted(jobs, S)[x].status \in Active
         /\ \A table : DOMAIN table = D => \/ Marked(table, jobs)[x] = table[x]
                                           \/ jobs[x].status \in Active
BY DEF Inserted, Recovered, Marked, Active, Job

\* A row that becomes pending has an active job, and a job ends with its row's.
LEMMA PendingStep ==
  TypeOK /\ TypeOK' /\ JobsAreHeld /\ JobsAreHeld' /\ PendingIsUnderWay /\ Next
    => PendingIsUnderWay'
<1> SUFFICES ASSUME TypeOK, TypeOK', JobsAreHeld, JobsAreHeld', PendingIsUnderWay, Next
             PROVE  PendingIsUnderWay'
  OBVIOUS
<1> DEFINE TargetsActive ==
             \A t \in Targets \ canceled :
               counts[t].status = "pending" => contribution[t].status \in Active
           AuthorsActive ==
             \A a \in Authors \ canceled :
               profile[a].status = "pending" => public[a].status \in Active
<1>s. TargetsActive /\ AuthorsActive
  BY UnderWayIsActive
<1>g. TargetsActive' /\ AuthorsActive' => PendingIsUnderWay'
  <2>1. ASSUME \A t \in Targets \ canceled' :
                 counts'[t].status = "pending" => contribution'[t].status \in Active,
               \A a \in Authors \ canceled' :
                 profile'[a].status = "pending" => public'[a].status \in Active
        PROVE  PendingIsUnderWay'
    BY <2>1 DEF TypeOK, JobsAreHeld, Held, ItemOf, PendingIsUnderWay, UnderWay, Active
  <2> QED BY <2>1
<1>t. /\ contribution \in [Targets -> Job] /\ public \in [Authors -> Job]
      /\ contribution' \in [Targets -> Job] /\ public' \in [Authors -> Job]
      /\ DOMAIN counts = Targets /\ DOMAIN profile = Authors
      /\ counts \in [Targets -> [status : Statuses, collected : BOOLEAN, history : History]]
      /\ profile \in [Authors -> [status : Statuses, collected : BOOLEAN]]
      /\ canceled \subseteq Targets \cup Authors
  BY DEF TypeOK
<1>a. /\ Authors \cap Targets = {}
      /\ \A c \in Collections : /\ OpenAuthors(c) \subseteq Authors
                                /\ OpenAuthors(c) \X Configures[c] \subseteq Targets
  BY AuthorsAssumption, ConfiguresAssumption DEF Targets, OpenAuthors, TypeOK
<1>1. ASSUME NEW c \in Collections, EnqueueCollectionEvidence(c) PROVE TargetsActive' /\ AuthorsActive'
  <2> DEFINE pairs == OpenAuthors(c) \X Configures[c]
  <2>1. /\ contribution' = Inserted(contribution, pairs)
        /\ public' = Inserted(public, OpenAuthors(c))
        /\ counts' = Marked(counts, contribution') /\ profile' = Marked(profile, public')
        /\ canceled' = {x \in canceled : x \notin pairs /\ x \notin OpenAuthors(c)}
    BY <1>1 DEF EnqueueCollectionEvidence
  <2>2. pairs \subseteq Targets /\ OpenAuthors(c) \subseteq Authors
    BY <1>a
  <2> HIDE DEF pairs
  <2>3. ASSUME NEW t \in Targets \ canceled', counts'[t].status = "pending"
        PROVE  contribution'[t].status \in Active
    <3>1. counts'[t] = counts[t] \/ contribution'[t].status \in Active
      BY <1>t, <2>1, Rows
    <3>2. t \notin canceled \/ t \in pairs
      BY <1>a, <2>1, <2>2, <2>3
    <3>3. CASE t \in pairs
      BY <1>t, <2>1, <3>3, Rows
    <3>4. CASE t \notin canceled /\ counts'[t] = counts[t]
      <4>1. contribution[t].status \in Active
        BY <1>s, <2>3, <3>4
      <4> QED BY <1>t, <2>1, <4>1, Rows
    <3> QED BY <3>1, <3>2, <3>3, <3>4
  <2>4. ASSUME NEW a \in Authors \ canceled', profile'[a].status = "pending"
        PROVE  public'[a].status \in Active
    <3>1. profile'[a] = profile[a] \/ public'[a].status \in Active
      BY <1>t, <2>1, Rows
    <3>2. a \notin canceled \/ a \in OpenAuthors(c)
      BY <1>a, <2>1, <2>2, <2>4
    <3>3. CASE a \in OpenAuthors(c)
      BY <1>t, <2>1, <3>3, Rows
    <3>4. CASE a \notin canceled /\ profile'[a] = profile[a]
      <4>1. public[a].status \in Active
        BY <1>s, <2>4, <3>4
      <4> QED BY <1>t, <2>1, <4>1, Rows
    <3> QED BY <3>1, <3>2, <3>3, <3>4
  <2> QED BY <2>3, <2>4
<1>2. ASSUME NEW c \in Collections, EnqueueAncillaryAuthorRefresh(c)
      PROVE  TargetsActive' /\ AuthorsActive'
  <2> DEFINE asked == {a \in OpenAuthors(c) : profile[a].status # "absent"}
  <2>1. /\ public' = Inserted(public, asked) /\ profile' = Marked(profile, public')
        /\ canceled' = canceled \ asked /\ contribution' = contribution /\ counts' = counts
    BY <1>2 DEF EnqueueAncillaryAuthorRefresh
  <2>2. asked \subseteq Authors
    BY <1>a
  <2> HIDE DEF asked
  <2>3. TargetsActive'
    <3>1. \A t \in Targets \ canceled' : t \notin canceled
      BY <1>a, <2>1, <2>2
    <3> QED BY <1>s, <2>1, <3>1
  <2>4. ASSUME NEW a \in Authors \ canceled', profile'[a].status = "pending"
        PROVE  public'[a].status \in Active
    <3>1. profile'[a] = profile[a] \/ public'[a].status \in Active
      BY <1>t, <2>1, Rows
    <3>2. CASE a \in asked
      BY <1>t, <2>1, <3>2, Rows
    <3>3. CASE a \notin canceled /\ profile'[a] = profile[a]
      <4>1. public[a].status \in Active
        BY <1>s, <2>4, <3>3
      <4> QED BY <1>t, <2>1, <4>1, Rows
    <3> QED BY <2>1, <2>4, <3>1, <3>2, <3>3
  <2> QED BY <2>3, <2>4
<1>3. CASE Reload
  <2>1. /\ canceled \subseteq canceled' /\ counts' = counts /\ profile' = profile
        /\ \A t \in Targets : contribution'[t] = contribution[t] \/ t \in canceled'
        /\ \A a \in Authors : public'[a] = public[a] \/ a \in canceled'
    BY <1>3 DEF Reload, evidence
  <2> QED BY <1>g, <1>s, <2>1
<1>4. CASE StartEvidence
  <2>1. /\ contribution' = Recovered(contribution) /\ public' = Recovered(public)
        /\ UNCHANGED <<counts, profile, canceled>>
    BY <1>4 DEF StartEvidence, evidence
  <2>2. /\ \A t \in Targets : contribution[t].status \in Active => contribution'[t].status \in Active
        /\ \A a \in Authors : public[a].status \in Active => public'[a].status \in Active
    BY <1>t, <2>1, Rows
  <2> QED BY <1>g, <1>s, <2>1, <2>2
<1>5. CASE Claim
  <2>1. /\ \A t \in Targets : contribution'[t].status \in {contribution[t].status, "running"}
        /\ \A a \in Authors : public'[a].status \in {public[a].status, "running"}
        /\ UNCHANGED <<counts, profile, canceled>>
    <3>1. CASE ClaimContribution
      BY <1>t, <3>1 DEF ClaimContribution, Claiming, evidence, Job
    <3>2. CASE ClaimPublic
      BY <1>t, <3>2 DEF ClaimPublic, Claiming, evidence, Job
    <3>3. CASE ClaimDiff
      BY <3>3 DEF ClaimDiff, Claiming, evidence
    <3> QED BY <1>5, <3>1, <3>2, <3>3 DEF Claim
  <2> QED BY <1>g, <1>s, <2>1 DEF Active
<1>6. ASSUME NEW t \in Targets, CompleteContribution(t) PROVE TargetsActive' /\ AuthorsActive'
  <2>1. /\ counts'[t].status # "pending"
        /\ \A x \in Targets \ {t} : counts'[x] = counts[x] /\ contribution'[x] = contribution[x]
        /\ UNCHANGED <<profile, public, canceled>>
    BY <1>t, <1>6 DEF CompleteContribution, Finish, Failed, Collected
  <2> QED BY <1>s, <2>1
<1>7. ASSUME NEW a \in Authors, CompletePublic(a) PROVE TargetsActive' /\ AuthorsActive'
  <2>1. /\ profile'[a].status # "pending"
        /\ \A x \in Authors \ {a} : profile'[x] = profile[x] /\ public'[x] = public[x]
        /\ UNCHANGED <<counts, contribution, canceled>>
    BY <1>t, <1>7 DEF CompletePublic, Finish, Failed
  <2> QED BY <1>s, <2>1
<1>8. ASSUME NEW a \in Authors, DeferPublic(a) PROVE TargetsActive' /\ AuthorsActive'
  <2> PICK reset \in Resets : public' = [public EXCEPT ![a] = Deferred(a, reset)]
    BY <1>8 DEF DeferPublic
  <2>1. /\ public'[a].status = "queued"
        /\ \A x \in Authors \ {a} : profile'[x] = profile[x] /\ public'[x] = public[x]
        /\ UNCHANGED <<counts, contribution, canceled>>
    BY <1>t, <1>8 DEF DeferPublic, Finish, Deferred
  <2> QED BY <1>s, <2>1 DEF Active
<1>9. CASE \/ EnqueueDiff \/ Publish \/ Elapse \/ StopEvidence \/ BeginRound
           \/ \E n \in 1..Concurrency : CompleteDiff(n)
  <2>1. UNCHANGED <<counts, profile, contribution, public, canceled>>
    BY <1>9 DEF EnqueueDiff, Publish, Elapse, StopEvidence, BeginRound, CompleteDiff, Finish,
         queues, evidence, promises
  <2> QED BY <1>g, <1>s, <2>1
<1> QED
  BY <1>g, <1>1, <1>2, <1>3, <1>4, <1>5, <1>6, <1>7, <1>8, <1>9 DEF Next, Requests, Answers

-----------------------------------------------------------------------------
(* The theorems *)

\* The inductive invariant holds at the start: the tables are empty.
LEMMA EvidenceInvInit == Init => EvidenceInv
<1> SUFFICES ASSUME Init PROVE EvidenceInv
  OBVIOUS
<1>1. TypeOK /\ RoundIsCounted
  BY TypeInit
<1>2. TurnComes
  BY Around DEF Init, TurnComes, Turn, KindIndexes
<1> QED
  BY <1>1, <1>2
  DEF Init, EvidenceInv, JobsAreHeld, Held, SlotIsLate, BehindIsEarlier, PendingIsUnderWay,
      NoJob, NoCounts, NoProfile

\* Every step keeps every part of the inductive invariant.
LEMMA EvidenceInvStep == EvidenceInv /\ [Next]_vars => EvidenceInv'
<1> SUFFICES ASSUME EvidenceInv, [Next]_vars PROVE EvidenceInv'
  OBVIOUS
<1>1. CASE Next
  BY <1>1, TypeStep, HeldStep, SlotStep, TurnStep, BehindStep, PendingStep DEF EvidenceInv
<1>2. CASE UNCHANGED vars
  BY <1>2
  DEF vars, config, evidence, queues, worker, promises, EvidenceInv, TypeOK, RoundIsCounted,
      DiffItems, JobsAreHeld, Held, SlotIsLate, TurnComes, Turn, BehindIsEarlier,
      PendingIsUnderWay, UnderWay
<1> QED BY <1>1, <1>2

\* The inductive invariant holds in every reachable state.
THEOREM Invariance == Spec => []EvidenceInv
BY EvidenceInvInit, EvidenceInvStep, PTL DEF Spec

\* Types: jobs, evidence, the round of the worker and the pacing of the queue
\* have the shapes the Store's tables and the worker's items have.
THEOREM TypeCorrectness == Spec => []TypeOK
<1>1. EvidenceInv => TypeOK
  BY DEF EvidenceInv
<1> QED BY <1>1, Invariance, PTL

\* claimFair's rotation passes a kind of work that is due over at most twice in
\* a row, whatever arrives in the other two queues.
THEOREM NoKindStarvesHolds == Spec => []NoKindStarves
<1>1. EvidenceInv => NoKindStarves
  <2> SUFFICES ASSUME EvidenceInv, NEW k \in KindIndexes PROVE passed[k] <= 2
    BY DEF NoKindStarves
  <2>1. Turn(k) \in 0..2 /\ passed[k] \in Nat /\ passed[k] + Turn(k) <= 2
    BY Turns DEF EvidenceInv, TypeOK, TurnComes
  <2> QED BY <2>1
<1> QED BY <1>1, Invariance, PTL

\* What the author page shows as pending has a job that is queued, that an item
\* of the worker holds, or that the worker recovers before it starts
\* (EnqueueCollectionEvidence, RecoverEvidenceJobs, RequeueAncillaryAuthorEvidence).
THEOREM PendingIsUnderWayHolds == Spec => []PendingIsUnderWay
<1>1. EvidenceInv => PendingIsUnderWay
  BY DEF EvidenceInv
<1> QED BY <1>1, Invariance, PTL

\* ClaimAncillaryAuthorEvidence starts one author at a time, a pacing interval
\* after the last and not before GitHub's reset, across restarts and reloads.
THEOREM PublicQueueWaitsHolds == Spec => PublicQueueWaits
<1>1. ASSUME EvidenceInv, ClaimPublic
      PROVE  clock >= started /\ clock >= quota /\ ~\E i \in items : i.kind = "public"
  <2>1. nextAttempt <= clock /\ \A a \in Authors : public[a].status # "running"
    <3>1. ~PublicBlocked
      BY <1>1 DEF ClaimPublic, Claiming, IsNextKind, Claimable, Kinds
    <3>2. nextAttempt \in Nat /\ clock \in Nat
      BY <1>1, BoundsAssumption DEF EvidenceInv, TypeOK
    <3> QED BY <3>1, <3>2 DEF PublicBlocked
  <2>2. clock \in Nat /\ nextAttempt \in Nat /\ started \in Nat /\ quota \in Nat
    BY <1>1, BoundsAssumption DEF EvidenceInv, TypeOK
  <2>3. clock >= started /\ clock >= quota
    BY <1>1, <2>1, <2>2 DEF EvidenceInv, SlotIsLate
  <2>4. ASSUME NEW i \in items, i.kind = "public" PROVE FALSE
    <3>1. i.who \in Authors /\ i = ItemOf("public", i.who)
      BY <1>1, <2>4 DEF EvidenceInv, TypeOK, Item, ItemOf
    <3>2. public[i.who].status = "running"
      BY <1>1, <2>4, <3>1 DEF EvidenceInv, TypeOK, JobsAreHeld, Held
    <3> QED BY <2>1, <3>1, <3>2
  <2> QED BY <2>3, <2>4
<1>2. EvidenceInv /\ [Next]_vars =>
        [ClaimPublic => /\ clock >= started /\ clock >= quota
                        /\ ~\E i \in items : i.kind = "public"]_vars
  BY <1>1
<1> QED BY <1>2, Invariance, PTL DEF Spec, PublicQueueWaits

\* RequeueAncillaryAuthorEvidence puts a rate-limited author behind everybody who
\* was due by then; ClaimAncillaryAuthorEvidence takes them first.
THEOREM DeferredGoBehindHolds == Spec => DeferredGoBehind
<1>1. ASSUME EvidenceInv, Next, NEW a \in Authors,
             public[a].status = "queued", public'[a].status = "running",
             NEW b \in behind[a], public[b].status = "queued"
      PROVE  FALSE
  <2>t. /\ public \in [Authors -> Job] /\ clock \in Nat /\ b \in Authors
        /\ public[b].due < public[a].due
    BY <1>1, BoundsAssumption DEF EvidenceInv, TypeOK, BehindIsEarlier
  <2>1. CASE ClaimPublic
    <3>1. PICK x \in Due(public) : public' = [public EXCEPT ![x].status = "running"]
      BY <2>1 DEF ClaimPublic
    <3>2. x = a
      BY <1>1, <2>t, <3>1
    <3>3. public[a].due <= clock /\ \A y \in AnyDue(public) : public[a].due <= public[y].due
      BY <3>1, <3>2 DEF Due, AnyDue
    <3>4. public[a].due \in Nat /\ public[b].due \in Nat
      BY <2>t DEF Job
    <3>5. b \in AnyDue(public)
      BY <1>1, <2>t, <3>3, <3>4 DEF AnyDue
    <3> QED BY <2>t, <3>3, <3>4, <3>5
  <2>2. CASE ~ClaimPublic
    <3>1. \/ \E S : public' \in {Inserted(public, S), CanceledJobs(public, S)}
          \/ public' = public \/ public' = Recovered(public)
          \/ \E c \in Authors : \/ public' = [public EXCEPT ![c] = NoJob]
                                \/ \E reset \in Resets : public' = [public EXCEPT ![c] = Deferred(c, reset)]
      BY <1>1, <2>2
      DEF Next, Requests, Claim, Answers, EnqueueDiff, EnqueueCollectionEvidence,
          EnqueueAncillaryAuthorRefresh, Reload, Publish, Elapse, StartEvidence, StopEvidence,
          ClaimContribution, ClaimDiff, BeginRound, CompleteContribution, CompletePublic,
          DeferPublic, CompleteDiff, queues
    <3>2. ASSUME NEW c \in Authors, NEW job, job.status # "running",
                 public' = [public EXCEPT ![c] = job]
          PROVE  FALSE
      BY <1>1, <2>t, <3>2
    <3> QED BY <1>1, <2>t, <3>1, <3>2, RunningJobs DEF NoJob, Deferred
  <2> QED BY <2>1, <2>2
<1>2. EvidenceInv /\ [Next]_vars =>
        [\A a \in Authors :
           (public[a].status = "queued" /\ public'[a].status = "running") =>
             \A b \in behind[a] : public[b].status # "queued"]_vars
  BY <1>1
<1> QED BY <1>2, Invariance, PTL DEF Spec, DeferredGoBehind

-----------------------------------------------------------------------------
(* Sums.  SumFunction is a recursive function over the subsets of its domain. *)

\* The equation that defines it.
Picked(s) == CHOOSE x \in s : TRUE
Sums(g, f, S) ==
  g = [s \in SUBSET S |-> IF s = {} THEN 0 ELSE f[Picked(s)] + g[s \ {Picked(s)}]]

\* A set of numbers has a least one.
LEMMA LeastNumber ==
  ASSUME NEW T \in SUBSET Nat, T # {}
  PROVE  \E n \in T : \A m \in T : ~(m < n)
<1>1. PICK n \in T : \A m \in T : <<m, n>> \notin OpToRel(<, Nat)
  BY WFMin, NatLessThanWellFounded, Zenon
<1>2. ASSUME NEW m \in T, m < n PROVE FALSE
  <2>1. <<m, n>> \in OpToRel(<, Nat)
    BY <1>2 DEF OpToRel
  <2>. QED  BY <1>1, <2>1
<1>. QED  BY <1>1, <1>2

\* Taking the picked element out of a set leaves a smaller one.
LEMMA Removal ==
  ASSUME NEW S, IsFiniteSet(S), NEW s \in SUBSET S, s # {}
  PROVE  /\ Picked(s) \in s /\ Picked(s) \in S /\ s \ {Picked(s)} \in SUBSET S
         /\ Cardinality(s) \in Nat \ {0}
         /\ Cardinality(s \ {Picked(s)}) = Cardinality(s) - 1
<1>1. Picked(s) \in s
  BY DEF Picked
<1>2. IsFiniteSet(s)
  BY FS_Subset
<1>3. Cardinality(s) \in Nat /\ Cardinality(s) # 0
  BY <1>2, FS_CardinalityType, FS_EmptySet
<1>. QED  BY <1>1, <1>2, <1>3, FS_RemoveElement

\* Over a finite set, the equation of the sum has a solution: a smallest number of
\* elements for which it had none would be one more than a number for which it has.
LEMMA SumExists ==
  ASSUME NEW S, IsFiniteSet(S), NEW f \in [S -> Nat]
  PROVE  \E g : Sums(g, f, S)
<1>. DEFINE Small(n) == {s \in SUBSET S : Cardinality(s) <= n}
            Upto(n, g) == g = [s \in Small(n) |-> IF s = {} THEN 0
                                          ELSE f[Picked(s)] + g[s \ {Picked(s)}]]
            Bad == {n \in Nat : ~ \E g : Upto(n, g)}
<1>1. ASSUME Bad # {} PROVE FALSE
  <2>1. PICK n \in Bad : \A m \in Bad : ~(m < n)
    BY <1>1, LeastNumber, Zenon
  <2>2. CASE n = 0
    <3>1. \A s \in Small(0) : s = {}
      <4>. SUFFICES ASSUME NEW s \in Small(0), s # {} PROVE FALSE
        OBVIOUS
      <4>1. Cardinality(s) <= 0 /\ s \in SUBSET S
        OBVIOUS
      <4>2. Cardinality(s) \in Nat \ {0}
        BY <4>1, Removal
      <4>. QED  BY <4>1, <4>2
    <3>. DEFINE z == [s \in Small(0) |-> 0]
    <3>2. z = [s \in Small(0) |-> IF s = {} THEN 0
                                  ELSE f[Picked(s)] + z[s \ {Picked(s)}]]
      BY <3>1
    <3>. QED  BY <2>1, <2>2, <3>2
  <2>3. CASE n # 0
    <3>1. n - 1 \in Nat /\ n - 1 < n /\ n \in Nat
      BY <2>1, <2>3
    <3>2. PICK g : Upto(n - 1, g)
      BY <2>1, <3>1
    <3>. DEFINE h == [s \in Small(n) |-> IF s = {} THEN 0
                                         ELSE f[Picked(s)] + g[s \ {Picked(s)}]]
    <3>3. \A s \in Small(n - 1) : s \in Small(n) /\ g[s] = h[s]
      <4>1. \A s \in SUBSET S : Cardinality(s) \in Nat
        BY FS_Subset, FS_CardinalityType
      <4>2. \A s \in Small(n - 1) : s \in Small(n)
        BY <3>1, <4>1
      <4>3. \A s \in Small(n - 1) :
              g[s] = IF s = {} THEN 0 ELSE f[Picked(s)] + g[s \ {Picked(s)}]
        BY <3>2, Zenon
      <4>. QED  BY <4>2, <4>3
    <3>4. \A s \in Small(n) : s # {} => s \ {Picked(s)} \in Small(n - 1)
      BY <3>1, Removal
    <3>5. h = [s \in Small(n) |-> IF s = {} THEN 0
                                  ELSE f[Picked(s)] + h[s \ {Picked(s)}]]
      <4>1. \A s \in Small(n) : s # {} => g[s \ {Picked(s)}] = h[s \ {Picked(s)}]
        BY <3>3, <3>4
      <4>. HIDE DEF Small
      <4>. QED  BY <4>1
    <3>6. Upto(n, h)
      BY <3>5
    <3>. HIDE DEF h, Upto
    <3>. QED  BY <2>1, <3>6
  <2>. QED  BY <2>2, <2>3
<1>2. Cardinality(S) \in Nat
  BY FS_CardinalityType
<1>3. PICK g : Upto(Cardinality(S), g)
  BY <1>1, <1>2
<1>4. Small(Cardinality(S)) = SUBSET S
  <2>1. \A s \in SUBSET S : Cardinality(s) <= Cardinality(S)
    BY FS_Subset
  <2>. QED  BY <2>1
<1>. QED  BY <1>3, <1>4 DEF Sums

\* A solution is a number, and zero only if all that is added is zero: a smallest
\* set of which this is not so would be larger by one element than one of which it is.
LEMMA SumOfNumbers ==
  ASSUME NEW S, IsFiniteSet(S), NEW f \in [S -> Nat], NEW g, Sums(g, f, S)
  PROVE  g[S] \in Nat /\ (g[S] = 0 => \A x \in S : f[x] = 0)
<1>. DEFINE Good(s) == g[s] \in Nat /\ (g[s] = 0 => \A x \in s : f[x] = 0)
            Bad == {n \in Nat : \E s \in SUBSET S : Cardinality(s) = n /\ ~Good(s)}
<1>0. \A s \in SUBSET S : g[s] = IF s = {} THEN 0 ELSE f[Picked(s)] + g[s \ {Picked(s)}]
  <2>1. g = [s \in SUBSET S |-> IF s = {} THEN 0 ELSE f[Picked(s)] + g[s \ {Picked(s)}]]
    BY DEF Sums
  <2>. QED  BY <2>1, Zenon
<1>1. ASSUME Bad # {} PROVE FALSE
  <2>1. PICK n \in Bad : \A m \in Bad : ~(m < n)
    BY <1>1, LeastNumber, Zenon
  <2>2. PICK s \in SUBSET S : Cardinality(s) = n /\ ~Good(s)
    BY <2>1
  <2>3. s # {}
    <3>1. ~(g[s] \in Nat /\ (g[s] = 0 => \A x \in s : f[x] = 0))
      BY <2>2
    <3>2. ASSUME s = {} PROVE FALSE
      <4>1. g[s] = 0
        BY <1>0, <3>2
      <4>2. \A x \in s : f[x] = 0
        BY <3>2
      <4>. QED  BY <3>1, <4>1, <4>2
    <3>. QED  BY <3>2
  <2>. DEFINE p == Picked(s)
  <2>4. /\ p \in s /\ p \in S /\ s \ {p} \in SUBSET S /\ n \in Nat \ {0}
        /\ Cardinality(s \ {p}) = n - 1
    BY <2>2, <2>3, Removal
  <2>5. g[s] = f[p] + g[s \ {p}] /\ f[p] \in Nat
    BY <1>0, <2>3, <2>4
  <2>. HIDE DEF p
  <2>6. Good(s \ {p})
    <3>1. n - 1 \in Nat /\ n - 1 < n
      BY <2>4
    <3>. QED  BY <2>1, <2>4, <3>1
  <2>7. Good(s)
    <3>1. g[s \ {p}] \in Nat /\ (g[s \ {p}] = 0 => \A x \in s \ {p} : f[x] = 0)
      BY <2>6
    <3>2. g[s] \in Nat /\ (g[s] = 0 => f[p] = 0 /\ g[s \ {p}] = 0)
      BY <2>5, <3>1
    <3>. QED  BY <3>1, <3>2
  <2>. QED  BY <2>2, <2>7
<1>2. S \in SUBSET S /\ Cardinality(S) \in Nat
  BY FS_CardinalityType
<1>. QED  BY <1>1, <1>2


\* The sum of the numbers of a finite function is a number, and zero only if they
\* all are.
LEMMA Summation ==
  ASSUME NEW S, IsFiniteSet(S), NEW f \in [S -> Nat]
  PROVE  SumFunction(f) \in Nat /\ (SumFunction(f) = 0 => \A x \in S : f[x] = 0)
<1>. DEFINE sum == CHOOSE g : Sums(g, f, S)
<1>1. SumFunction(f) = sum[S]
  <2>1. DOMAIN f = S
    OBVIOUS
  <2>2. SumFunction(f) = SumFunctionOnSet(f, S)
    BY <2>1 DEF SumFunction
  <2>3. SumFunctionOnSet(f, S) = sum[S]
    BY DEF SumFunctionOnSet, FoldFunctionOnSet, MapThenFoldSet, Sums, Picked
  <2>. QED  BY <2>2, <2>3
<1>2. Sums(sum, f, S)
  BY SumExists
<1>. HIDE DEF sum
<1>. QED  BY <1>1, <1>2, SumOfNumbers

\* The smaller of two numbers.
LEMMA MinOfTwo ==
  ASSUME NEW x \in Nat, NEW y \in Nat
  PROVE  Min({x, y}) \in {x, y} /\ Min({x, y}) <= x /\ Min({x, y}) <= y
<1>1. \E m \in {x, y} : \A n \in {x, y} : m <= n
  OBVIOUS
<1>2. Min({x, y}) \in {x, y} /\ \A n \in {x, y} : Min({x, y}) <= n
  BY <1>1 DEF Min
<1> QED BY <1>2

\* Evaluate calls an author new only on complete evidence of each repository of
\* the collection in which nothing was merged, closed or open before, for every
\* number of repositories and whatever the sums over them are.
THEOREM NewHasNoHistoryHolds == Spec => []NewHasNoHistory
<1>1. ASSUME TypeOK, NEW c \in Collections, NEW a \in OpenAuthors(c), Level(c, a) = "new",
             NEW r \in Configures[c]
      PROVE  /\ counts[<<a, r>>].collected
             /\ counts[<<a, r>>].history.merged = 0 /\ counts[<<a, r>>].history.closed = 0
             /\ counts[<<a, r>>].history.open <= CurrentOpen(a, r)
  <2>. DEFINE S == Configures[c]
              of(x) == counts[<<a, x>>].history
              merged == [x \in S |-> of(x)["merged"]]
              closed == [x \in S |-> of(x)["closed"]]
              prior == [x \in S |-> of(x).open - StillOpen(a, x)]
  <2>1. IsFiniteSet(S) /\ S \subseteq Repositories
    BY FS_Subset, RepositoriesAssumption, ConfiguresAssumption
  <2>2. \A x \in S : of(x) \in History
    <3>1. a \in Authors
      BY <1>1, <2>1 DEF OpenAuthors, TypeOK
    <3>2. \A x \in S : <<a, x>> \in Targets
      BY <2>1, <3>1 DEF Targets
    <3>. QED  BY <1>1, <3>2 DEF TypeOK
  <2>3. merged \in [S -> Nat] /\ closed \in [S -> Nat]
    BY <2>2 DEF History
  <2>4. \A x \in S : /\ CurrentOpen(a, x) \in Nat /\ of(x).open \in Nat
                     /\ StillOpen(a, x) \in {CurrentOpen(a, x), of(x).open}
                     /\ StillOpen(a, x) <= CurrentOpen(a, x)
                     /\ StillOpen(a, x) <= of(x).open
    <3>1. \A x \in S : CurrentOpen(a, x) \in Nat /\ of(x).open \in Nat
      BY <2>2 DEF CurrentOpen, History
    <3>. QED  BY <3>1, MinOfTwo DEF StillOpen
  <2>5. prior \in [S -> Nat]
    BY <2>4
  <2>6. /\ CompleteContext(c, a)
        /\ ~(SumFunction(merged) + SumFunction(closed) + SumFunction(prior) > 0)
    <3>1. /\ CompleteContext(c, a)
          /\ ~(Total("merged", c, a) + Total("closed", c, a) + PriorOpen(c, a) > 0)
      BY <1>1 DEF Level
    <3>. QED  BY <3>1 DEF Total, PriorOpen
  <2>. HIDE DEF merged, closed, prior
  <2>7. /\ SumFunction(merged) \in Nat /\ SumFunction(closed) \in Nat
        /\ SumFunction(prior) \in Nat
    BY <2>1, <2>3, <2>5, Summation
  <2>8. SumFunction(merged) = 0 /\ SumFunction(closed) = 0 /\ SumFunction(prior) = 0
    BY <2>6, <2>7
  <2>9. merged[r] = 0 /\ closed[r] = 0 /\ prior[r] = 0
    BY <2>1, <2>3, <2>5, <2>8, Summation
  <2>10. of(r).merged = 0 /\ of(r).closed = 0 /\ of(r).open - StillOpen(a, r) = 0
    BY <2>9 DEF merged, closed, prior
  <2>11. counts[<<a, r>>].collected
    BY <2>6 DEF CompleteContext, Current
  <2>. QED  BY <2>4, <2>10, <2>11
<1>2. TypeOK => NewHasNoHistory
  BY <1>1 DEF NewHasNoHistory
<1>. QED  BY <1>2, TypeCorrectness, PTL
=============================================================================
