--------------------------- MODULE AuthorEvidence ---------------------------
(***************************************************************************)
(* The evidence about the authors of open pull requests: the contribution  *)
(* jobs (an author in a configured repository), the public jobs (an        *)
(* author's account and recent activity, one shared and paced queue), the  *)
(* evidence worker that claims fairly among them and the pull request      *)
(* diffs, and the judgement the author page shows from the result.         *)
(*                                                                         *)
(* Granularity.  One Store transaction is one action; an answer of GitHub  *)
(* takes effect with the transaction that records it, and the rest of the  *)
(* system may act between a claim and its answer.  A diff job is reduced   *)
(* to a place in its queue: DiffAnalysis has the rest of it.               *)
(*                                                                         *)
(* Time is a clock of units: Interval of them make the 65 seconds of       *)
(* AncillaryRequestInterval.  A round of claims takes no time.             *)
(***************************************************************************)
EXTENDS Naturals, FiniteSets, FiniteSetsExt, Functions

CONSTANTS Authors,
          Collections,
          Repositories,
          Configures,      \* Configures[c]: the repositories of collection c
          Histories,       \* the histories GitHub may report for a repository
          Established,     \* policy.EstablishedMergedPRs
          Interval,        \* AncillaryRequestInterval
          Resets,          \* how far ahead a rate limit's reset or Retry-After may be
          Concurrency,     \* evidenceworker.Options.Concurrency
          MaxDiffs,        \* bound: diff jobs queued at a time
          Horizon          \* bound: the clock stops here

\* An author is no pair of an author and a repository.
ASSUME AuthorsAssumption == Authors \cap (Authors \X Repositories) = {}
ASSUME ConfiguresAssumption == Configures \in [Collections -> SUBSET Repositories]
ASSUME RepositoriesAssumption == IsFiniteSet(Repositories)
ASSUME HistoriesAssumption ==
  Histories \subseteq [maintains : BOOLEAN, merged : Nat, closed : Nat, open : Nat]
ASSUME IntervalAssumption == Interval \in Nat \ {0} /\ Resets \subseteq Nat
ASSUME ConcurrencyAssumption == Concurrency \in Nat \ {0}
ASSUME BoundsAssumption == MaxDiffs \in Nat /\ Horizon \in Nat /\ Established \in Nat

VARIABLES
  clock,
  \* Configuration and the published snapshot
  enabled,      \* collections with a contribution block
  openBy,       \* openBy[r]: the authors with an open pull request in r
  \* Tables
  counts,       \* author_repository_contributions of <<author, repository>>
  profile,      \* authors: ancillary_status, ancillary_collected_at is set
  contribution, \* the active contribution_evidence_jobs row of <<author, repository>>
  public,       \* the active ancillary_author_jobs row of an author
  nextAttempt,  \* ancillary_queue.next_attempt_at
  diffs,        \* pull_request_diff_jobs rows: [queued, running]
  \* The worker: whether it runs and is claiming or waiting for its items, the
  \* kind it tries first, and the items of the round
  phase, queueNext, items,
  \* History
  started,      \* when the last public job was claimed, plus Interval
  quota,        \* until when GitHub asked not to be called
  behind,       \* behind[a]: who was queued when a's public job was deferred
  passed,       \* claims since a kind that was due was passed over
  canceled      \* statuses whose queued job a reload canceled

config == <<enabled, openBy>>
evidence == <<counts, profile>>
queues == <<contribution, public, nextAttempt, diffs>>
worker == <<phase, queueNext, items>>
promises == <<started, quota, behind, passed, canceled>>
vars == <<clock, config, evidence, queues, worker, promises>>

-----------------------------------------------------------------------------
(* Data *)

Targets == Authors \X Repositories
Kinds == <<"contribution", "public", "diff">>
KindIndexes == 1..3

NoJob == [status |-> "none", due |-> 0]
Active == {"queued", "running"}
Statuses == {"absent", "pending", "failed", "complete"}
NoHistory == [maintains |-> FALSE, merged |-> 0, closed |-> 0, open |-> 0]

NoCounts == [status |-> "absent", collected |-> FALSE, history |-> NoHistory]
NoProfile == [status |-> "absent", collected |-> FALSE]

\* The authors of the collection's open pull requests.
OpenAuthors(c) == UNION {openBy[r] : r \in Configures[c]}
InEnabled(a) == \E c \in enabled : a \in OpenAuthors(c)

Item == [kind : {"contribution"}, who : Targets] \cup [kind : {"public"}, who : Authors]
          \cup [kind : {"diff"}, who : 1..Concurrency]

Init ==
  /\ clock = 0
  /\ enabled = Collections /\ openBy \in [Repositories -> SUBSET Authors]
  /\ counts = [t \in Targets |-> NoCounts]
  /\ profile = [a \in Authors |-> NoProfile]
  /\ contribution = [t \in Targets |-> NoJob]
  /\ public = [a \in Authors |-> NoJob]
  /\ nextAttempt = 0
  /\ diffs = [queued |-> 0, running |-> 0]
  /\ phase = "down" /\ queueNext = 1 /\ items = {}
  /\ started = 0 /\ quota = 0
  /\ behind = [a \in Authors |-> {}]
  /\ passed = [k \in KindIndexes |-> 0]
  /\ canceled = {}

-----------------------------------------------------------------------------
(* Requests *)

Marked(table, jobs) ==
  [x \in DOMAIN table |-> IF jobs[x].status \in Active
                          THEN [table[x] EXCEPT !.status = "pending"] ELSE table[x]]

\* INSERT OR IGNORE against the index of active jobs.
Inserted(jobs, S) ==
  [x \in DOMAIN jobs |-> IF x \in S /\ jobs[x].status = "none"
                         THEN [status |-> "queued", due |-> clock] ELSE jobs[x]]

\* EnqueueCollectionEvidence, as the cron schedule of the collection calls it.
EnqueueCollectionEvidence(c) ==
  /\ c \in enabled
  /\ contribution' = Inserted(contribution, OpenAuthors(c) \X Configures[c])
  /\ public' = Inserted(public, OpenAuthors(c))
  /\ counts' = Marked(counts, contribution')
  /\ profile' = Marked(profile, public')
  /\ canceled' = {x \in canceled : x \notin OpenAuthors(c) \X Configures[c]
                                   /\ x \notin OpenAuthors(c)}
  /\ UNCHANGED <<clock, config, nextAttempt, diffs, worker, started, quota, behind, passed>>

\* EnqueueAncillaryAuthorRefresh, as the refresh-authors command calls it: only
\* authors that have a row.
EnqueueAncillaryAuthorRefresh(c) ==
  LET asked == {a \in OpenAuthors(c) : profile[a].status # "absent"}
  IN /\ public' = Inserted(public, asked)
     /\ profile' = Marked(profile, public')
     /\ canceled' = canceled \ asked
     /\ UNCHANGED <<clock, config, counts, contribution, nextAttempt, diffs, worker,
                    started, quota, behind, passed>>

\* A snapshot released a diff.
EnqueueDiff ==
  /\ diffs.queued < MaxDiffs
  /\ diffs' = [diffs EXCEPT !.queued = @ + 1]
  /\ UNCHANGED <<clock, config, evidence, contribution, public, nextAttempt, worker,
                 promises>>

-----------------------------------------------------------------------------
(* Configuration, snapshots and time *)

CanceledJobs(jobs, kept) ==
  [x \in DOMAIN jobs |-> IF jobs[x].status = "queued" /\ x \notin kept THEN NoJob ELSE jobs[x]]

\* A reload changed the contribution blocks: CancelDisabledContributionEvidence.
Reload ==
  LET configured == Authors \X UNION {Configures[c] : c \in enabled'}
      listed == UNION {OpenAuthors(c) : c \in enabled'}
  IN /\ enabled' \in SUBSET Collections
     /\ contribution' = CanceledJobs(contribution, configured)
     /\ public' = CanceledJobs(public, listed)
     /\ canceled' = canceled
          \cup {t \in Targets : contribution'[t] # contribution[t]}
          \cup {a \in Authors : public'[a] # public[a]}
     /\ behind' = [a \in Authors |-> IF a \in canceled' THEN {} ELSE behind[a] \ canceled']
     /\ UNCHANGED <<clock, openBy, evidence, nextAttempt, diffs, worker,
                    started, quota, passed>>

\* A snapshot: an author opened a first or closed a last pull request.
Publish ==
  /\ \E r \in Repositories, a \in Authors :
       openBy' = [openBy EXCEPT ![r] = IF a \in @ THEN @ \ {a} ELSE @ \cup {a}]
  /\ UNCHANGED <<clock, enabled, evidence, queues, worker, promises>>

Elapse ==
  /\ clock < Horizon /\ (phase = "claiming" => items = {})
  /\ clock' = clock + 1
  /\ UNCHANGED <<config, evidence, queues, worker, promises>>

-----------------------------------------------------------------------------
(* The worker: Run and RunOnce *)

RecoveredNot(jobs) == jobs
Recovered(jobs) ==
  [x \in DOMAIN jobs |-> IF jobs[x].status = "running"
                         THEN [jobs[x] EXCEPT !.status = "queued"] ELSE jobs[x]]

\* RecoverEvidenceJobs, and a worker that starts with the first kind.
ForgottenPacing == clock
RecoveredPacing == nextAttempt
StartEvidence ==
  /\ phase = "down"
  /\ phase' = "claiming" /\ queueNext' = 1 /\ items' = {}
  /\ contribution' = Recovered(contribution) /\ public' = Recovered(public)
  /\ nextAttempt' = RecoveredPacing
  /\ diffs' = [queued |-> diffs.queued + diffs.running, running |-> 0]
  /\ passed' = [k \in KindIndexes |-> 0]
  /\ UNCHANGED <<clock, config, evidence, started, quota, behind, canceled>>

\* A reload or the end of the process cancels the worker; its items return
\* without a write.
StopEvidence ==
  /\ phase # "down"
  /\ phase' = "down" /\ items' = {}
  /\ UNCHANGED <<clock, config, evidence, queues, queueNext, promises>>

\* ORDER BY scheduled_for LIMIT 1, over the due rows; the row's id decides a tie.
AnyDue(jobs) == {x \in DOMAIN jobs : jobs[x].status = "queued" /\ jobs[x].due <= clock}
Due(jobs) ==
  LET queued == AnyDue(jobs)
  IN {x \in queued : \A y \in queued : jobs[x].due <= jobs[y].due}

\* The ancillary queue is blocked before its next attempt and while a job runs.
PublicBlocked ==
  nextAttempt > clock \/ \E a \in Authors : public[a].status = "running"

Claimable ==
  {k \in KindIndexes :
     CASE Kinds[k] = "contribution" -> Due(contribution) # {}
       [] Kinds[k] = "public" -> ~PublicBlocked /\ Due(public) # {}
       [] OTHER -> diffs.queued > 0}

\* The kind after the one that gave an item is tried first.
AfterUnwrapped(k) == k + 1
After(k) == (k % 3) + 1

\* claimFair tries the kinds in turn, beginning with queueNext.
FixedTurn(k) == k
Turn(k) == (k + 3 - queueNext) % 3
IsNextKind(k) == k \in Claimable /\ \A j \in Claimable : Turn(k) <= Turn(j)

Claiming(k) ==
  /\ phase = "claiming" /\ Cardinality(items) < Concurrency
  /\ IsNextKind(k)
  /\ queueNext' = After(k)
  /\ passed' = [j \in KindIndexes |->
                  IF j # k /\ j \in Claimable THEN passed[j] + 1 ELSE 0]
  /\ UNCHANGED <<clock, config, phase, canceled>>

\* ClaimContributionEvidence
ClaimContribution ==
  /\ Claiming(1)
  /\ \E t \in Due(contribution) :
       /\ contribution' = [contribution EXCEPT ![t].status = "running"]
       /\ items' = items \cup {[kind |-> "contribution", who |-> t]}
  /\ UNCHANGED <<evidence, public, nextAttempt, diffs, started, quota, behind>>

\* ClaimAncillaryAuthorEvidence: the claim takes the next slot of the queue.
ClaimPublic ==
  /\ Claiming(2)
  /\ \E a \in Due(public) :
       /\ public' = [public EXCEPT ![a].status = "running"]
       /\ items' = items \cup {[kind |-> "public", who |-> a]}
       /\ behind' = [b \in Authors |-> IF b = a THEN {} ELSE behind[b] \ {a}]
  /\ nextAttempt' = clock + Interval
  /\ started' = clock + Interval
  /\ UNCHANGED <<evidence, contribution, diffs, quota>>

ClaimDiff ==
  /\ Claiming(3)
  /\ diffs' = [queued |-> diffs.queued - 1, running |-> diffs.running + 1]
  /\ items' = items \cup {[kind |-> "diff", who |-> Cardinality(items) + 1]}
  /\ UNCHANGED <<evidence, contribution, public, nextAttempt, started, quota, behind>>

Claim == ClaimContribution \/ ClaimPublic \/ ClaimDiff

\* The round is full or nothing is claimable: its items start together.
BeginRound ==
  /\ phase = "claiming" /\ items # {}
  /\ Cardinality(items) = Concurrency \/ Claimable = {}
  /\ phase' = "working"
  /\ UNCHANGED <<clock, config, evidence, queues, queueNext, items, promises>>

\* RunOnce returns when the last of its items did.
Finish(item) ==
  /\ phase = "working" /\ item \in items
  /\ items' = items \ {item}
  /\ phase' = IF items' = {} THEN "claiming" ELSE "working"
  /\ UNCHANGED <<clock, config, queueNext, started, passed, canceled>>

\* CompleteContributionEvidence: the counts GitHub reported, or a failure that
\* keeps the counts of the last success.
Failed(record) == [record EXCEPT !.status = "failed"]
Collected(h) == [status |-> "complete", collected |-> TRUE, history |-> h]

CompleteContribution(t) ==
  /\ Finish([kind |-> "contribution", who |-> t])
  /\ \/ counts' = [counts EXCEPT ![t] = Failed(@)]
     \/ \E h \in Histories : counts' = [counts EXCEPT ![t] = Collected(h)]
  /\ contribution' = [contribution EXCEPT ![t] = NoJob]
  /\ UNCHANGED <<profile, public, nextAttempt, diffs, quota, behind>>

\* CompleteAncillaryAuthorEvidence
CompletePublic(a) ==
  /\ Finish([kind |-> "public", who |-> a])
  /\ profile' \in {[profile EXCEPT ![a] = Failed(@)],
                   [profile EXCEPT ![a] = [status |-> "complete", collected |-> TRUE]]}
  /\ public' = [public EXCEPT ![a] = NoJob]
  /\ behind' = [b \in Authors |-> IF b = a THEN {} ELSE behind[b] \ {a}]
  /\ UNCHANGED <<counts, contribution, nextAttempt, diffs, quota>>

\* The later of the pacing slot and what GitHub asked for.
RetryAt(reset) == Max({clock + Interval, clock + reset})

DeferredInPlace(a, reset) == [public[a] EXCEPT !.status = "queued"]
Deferred(a, reset) == [status |-> "queued", due |-> RetryAt(reset)]

\* RequeueAncillaryAuthorEvidence, after a rate limit.
DeferPublic(a) ==
  /\ Finish([kind |-> "public", who |-> a])
  /\ \E reset \in Resets :
       /\ public' = [public EXCEPT ![a] = Deferred(a, reset)]
       /\ nextAttempt' = Max({nextAttempt, RetryAt(reset)})
       /\ quota' = Max({quota, clock + reset})
  /\ profile' = [profile EXCEPT ![a].status = "pending"]
  /\ behind' = [b \in Authors |->
       IF b = a THEN {x \in Authors \ {a} : public[x].status = "queued"
                                           /\ public[x].due <= clock}
                ELSE behind[b] \ {a}]
  /\ UNCHANGED <<counts, contribution, diffs>>

\* The evidence of a diff is recorded, or the job is superseded or fails.
CompleteDiff(n) ==
  /\ Finish([kind |-> "diff", who |-> n])
  /\ diffs' = [diffs EXCEPT !.running = @ - 1]
  /\ UNCHANGED <<evidence, contribution, public, nextAttempt, quota, behind>>

-----------------------------------------------------------------------------
(* The judgement: GetAuthorContext and contribution.Evaluate *)

\* Every piece of evidence the collection needs was collected, and no attempt
\* has been due, failed or canceled since.
CurrentUnlessFailed(record) == record.status \in {"pending", "complete"}
Current(record) == record.status = "complete" /\ record.collected
CompleteContext(c, a) ==
  Current(profile[a]) /\ \A r \in Configures[c] : Current(counts[<<a, r>>])

Total(field, c, a) ==
  SumFunction([r \in Configures[c] |-> counts[<<a, r>>].history[field]])

\* Open pull requests the history counted, without those that are open now.
CurrentOpen(a, r) == IF a \in openBy[r] THEN 1 ELSE 0
StillOpen(a, r) == Min({CurrentOpen(a, r), counts[<<a, r>>].history.open})
PriorOpen(c, a) ==
  SumFunction([r \in Configures[c] |->
                        counts[<<a, r>>].history.open - StillOpen(a, r)])

\* Evaluate: no level without complete evidence.
Level(c, a) ==
  IF ~CompleteContext(c, a) THEN "none"
  ELSE IF \/ \E r \in Configures[c] : counts[<<a, r>>].history.maintains
          \/ Total("merged", c, a) >= Established THEN "established"
  ELSE IF Total("merged", c, a) + Total("closed", c, a) + PriorOpen(c, a) > 0
          THEN "some_history"
  ELSE "new"

-----------------------------------------------------------------------------

Requests ==
  \/ EnqueueDiff
  \/ \E c \in Collections : EnqueueCollectionEvidence(c) \/ EnqueueAncillaryAuthorRefresh(c)
Answers ==
  \/ \E t \in Targets : CompleteContribution(t)
  \/ \E a \in Authors : CompletePublic(a) \/ DeferPublic(a)
  \/ \E n \in 1..Concurrency : CompleteDiff(n)
Next ==
  \/ Requests \/ Reload \/ Publish \/ Elapse
  \/ StartEvidence \/ StopEvidence \/ Claim \/ BeginRound \/ Answers

Spec == Init /\ [][Next]_vars

-----------------------------------------------------------------------------
(* Properties *)

Job == [status : {"none", "queued", "running"}, due : Nat]
History == [maintains : BOOLEAN, merged : Nat, closed : Nat, open : Nat]

\* Every variable has its type.
TypeOK ==
  /\ clock \in 0..Horizon
  /\ enabled \subseteq Collections /\ openBy \in [Repositories -> SUBSET Authors]
  /\ counts \in [Targets -> [status : Statuses, collected : BOOLEAN, history : History]]
  /\ profile \in [Authors -> [status : Statuses, collected : BOOLEAN]]
  /\ contribution \in [Targets -> Job] /\ public \in [Authors -> Job]
  /\ nextAttempt \in Nat
  /\ diffs \in [queued : Nat, running : Nat]
  /\ phase \in {"down", "claiming", "working"} /\ queueNext \in KindIndexes
  /\ items \subseteq Item
  /\ started \in Nat /\ quota \in Nat
  /\ behind \in [Authors -> SUBSET Authors]
  /\ passed \in [KindIndexes -> Nat]
  /\ canceled \subseteq Targets \cup Authors

\* The public queue never starts an author while another is in flight, before
\* 65 seconds have passed since it last started one, or before GitHub's reset:
\* also across restarts, reloads, repeated requests and deferrals.
PublicQueueWaits ==
  [][ClaimPublic => /\ clock >= started /\ clock >= quota
                    /\ ~\E i \in items : i.kind = "public"]_vars

\* An author whose public job was deferred is started again only after every
\* author who was waiting then: the failed job does not monopolize the retries.
DeferredGoBehind ==
  [][\A a \in Authors :
       (public[a].status = "queued" /\ public'[a].status = "running") =>
         \A b \in behind[a] : public[b].status # "queued"]_vars

\* The rotation passes a kind of work that is due over at most twice in a row.
NoKindStarves == \A k \in KindIndexes : passed[k] <= 2

\* Evidence shown as pending is going to be collected: its job waits in the
\* queue, or it runs and an item of the worker holds it, or the worker is down
\* and recovers it before it starts; also across restarts, reloads, failures and
\* deferrals, and unless a reload canceled the job.
UnderWay(kind, who, job) ==
  \/ job.status = "queued"
  \/ job.status = "running" /\ (phase = "down" \/ [kind |-> kind, who |-> who] \in items)
PendingIsUnderWay ==
  /\ \A t \in Targets \ canceled :
       counts[t].status = "pending" => UnderWay("contribution", t, contribution[t])
  /\ \A a \in Authors \ canceled :
       profile[a].status = "pending" => UnderWay("public", a, public[a])

\* An author is called new only if none of the collection's repositories has
\* more pull requests of the author than are open in the snapshot: whatever is
\* being collected, has failed or has been closed meanwhile.
NewHasNoHistory ==
  \A c \in Collections : \A a \in OpenAuthors(c) :
    Level(c, a) = "new" =>
      \A r \in Configures[c] :
        /\ counts[<<a, r>>].collected
        /\ counts[<<a, r>>].history.merged = 0 /\ counts[<<a, r>>].history.closed = 0
        /\ counts[<<a, r>>].history.open <= CurrentOpen(a, r)
=============================================================================
