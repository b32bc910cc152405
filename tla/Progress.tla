------------------------------ MODULE Progress ------------------------------
(***************************************************************************)
(* The incremental collection of maintainers' activity in one repository:  *)
(* the checkpoint, the collection that reads the pull requests updated     *)
(* since then, the payload it stages in the refresh generation, and the    *)
(* transaction that records events, thread transitions and the next        *)
(* checkpoint.                                                             *)
(*                                                                         *)
(* Granularity.  Each request of a collection to GitHub is an action: the  *)
(* list of candidates, then one timeline with its threads at a time, so    *)
(* that activity and time go on between them (rate-limit waits included).  *)
(*                                                                         *)
(* Data.  Time is counted in steps of the overlap's unit; the clock ends   *)
(* within the three months of retention.  An activity is a timeline event  *)
(* with its actor and pull request.  There is one review thread.  Every    *)
(* pull request is in the collection; RefreshGeneration has memberships,   *)
(* the phases before and the publication of the pull requests themselves.  *)
(***************************************************************************)
EXTENDS Naturals, FiniteSets

CONSTANTS Actors,
          Activities,
          ActorOf,           \* ActorOf[a]
          PullRequestOf,     \* PullRequestOf[a]
          ThreadOn,          \* the pull request of the review thread
          Resolver,          \* who resolves it
          Overlap,           \* the five minutes before the checkpoint
          Horizon            \* bound on the clock

Times == 0 .. Horizon
Never == Horizon + 1

ASSUME ActorOfAssumption == ActorOf \in [Activities -> Actors] /\ Resolver \in Actors
ASSUME HorizonAssumption == Overlap \in Nat /\ Horizon \in Nat
ASSUME ActivitiesAssumption == Activities \cap Times = {}

VARIABLES
  clock,
  \* GitHub
  occurred,     \* occurred[a]: when it happened, or Never
  resolved,     \* the review thread is resolved
  \* Tables
  events,       \* progress_events: activities, and resolutions by their time
  observed,     \* progress_review_threads: "unseen", "open" or "resolved"
  checkpoint,   \* repository_progress_refreshes
  staged,       \* the progress payload of the generation, or Nothing
  \* The worker's collection under way, or Nothing
  collection,
  \* History
  forgotten,    \* activities and resolutions that a user had deleted
  missed        \* instants that a collection longer than the overlap skipped

progressVars == <<clock, occurred, resolved, events, observed, checkpoint, staged,
                  collection, forgotten, missed>>
github == <<clock, occurred, resolved>>

Nothing == [at |-> Never]
Numbers == {PullRequestOf[a] : a \in Activities} \cup {ThreadOn}
Rows == Activities \cup Times
Owner(row) == IF row \in Activities THEN ActorOf[row] ELSE Resolver

ProgressInit ==
  /\ clock = 0
  /\ occurred = [a \in Activities |-> Never]
  /\ resolved = FALSE
  /\ events = {}
  /\ observed = "unseen"
  /\ checkpoint = 0
  /\ staged = Nothing
  /\ collection = Nothing
  /\ forgotten = {}
  /\ missed = {}

-----------------------------------------------------------------------------
(* GitHub *)

Tick ==
  /\ clock < Horizon
  /\ clock' = clock + 1
  /\ UNCHANGED <<occurred, resolved, events, observed, checkpoint, staged, collection, forgotten, missed>>

Happen(a) ==
  /\ occurred[a] = Never
  /\ occurred' = [occurred EXCEPT ![a] = clock]
  /\ UNCHANGED <<clock, resolved, events, observed, checkpoint, staged, collection, forgotten, missed>>

\* A thread is resolved or opened again, which is no timeline event.
ResolveOrReopen ==
  /\ resolved' = ~resolved
  /\ UNCHANGED <<clock, occurred, events, observed, checkpoint, staged, collection, forgotten, missed>>

-----------------------------------------------------------------------------
(* A collection *)

tables == <<events, observed, checkpoint, forgotten, missed>>

\* collectProgressEvents asks for what happened since the cutoff, an overlap
\* before the checkpoint that the generation noted at its discovery.
CutoffUnclamped(since) == since - Overlap
Cutoff(since) == IF since > Overlap THEN since - Overlap ELSE 0

\* GitHub's updated_at, as far as activities set it
UpdatedSince(n, time) == \E a \in Activities : /\ PullRequestOf[a] = n
                                               /\ occurred[a] \in time .. clock

\* listProgressCandidates
ListCandidates ==
  /\ collection = Nothing
  /\ staged = Nothing
  /\ LET cutoff == Cutoff(checkpoint) IN
     collection' = [at |-> clock, cutoff |-> cutoff, got |-> {}, thread |-> "unseen",
                    left |-> {n \in Numbers : UpdatedSince(n, cutoff)}]
  /\ UNCHANGED <<github, tables, staged>>

\* collectTimelineEvents and collectReviewThreads of one candidate
ReadTimeline(n) ==
  /\ collection # Nothing
  /\ n \in collection.left
  /\ collection' = [collection EXCEPT
       !.left = @ \ {n},
       !.got = @ \cup {a \in Activities : /\ PullRequestOf[a] = n
                                          /\ occurred[a] \in collection.cutoff .. clock},
       !.thread = IF n # ThreadOn THEN @ ELSE IF resolved THEN "resolved" ELSE "open"]
  /\ UNCHANGED <<github, tables, staged>>

\* CollectedAt is read at the end of the collection; the payload is staged with
\* the generation and survives a restart.
StageProgress ==
  /\ collection # Nothing
  /\ collection.left = {}
  /\ staged' = [at |-> clock, got |-> collection.got, thread |-> collection.thread,
                began |-> collection.at]
  /\ collection' = Nothing
  /\ UNCHANGED <<github, tables>>

\* A GitHub failure, a reload or a crash: the collection starts again.
LoseCollection ==
  /\ collection # Nothing
  /\ collection' = Nothing
  /\ UNCHANGED <<github, tables, staged>>

\* RecordProgressSnapshot, with the checkpoint of the payload.  A thread counts
\* when an earlier collection had seen it open.
CheckpointOfPublication == clock
Checkpoint == staged.at
Transition == IF observed = "open" /\ staged.thread = "resolved" THEN {Checkpoint} ELSE {}
RecordProgressSnapshot ==
  /\ staged # Nothing
  /\ checkpoint' = Checkpoint
  /\ events' = events \cup staged.got \cup Transition
  /\ observed' = IF staged.thread = "unseen" THEN observed ELSE staged.thread
  /\ missed' = missed \cup {t \in Times : staged.began <= t /\ t + Overlap < staged.at}
  /\ \/ staged' = Nothing
     \/ UNCHANGED staged     \* the process stops before CompleteRefreshJob: record again
  /\ UNCHANGED <<github, collection, forgotten>>

\* DeletePersonalData, as far as progress is concerned
DeleteProgress(us) ==
  /\ events' = {r \in events : Owner(r) \notin us}
  /\ forgotten' = forgotten \cup {r \in events : Owner(r) \in us}
  /\ UNCHANGED <<github, observed, checkpoint, missed, staged, collection>>

CollectProgress ==
  \/ ListCandidates
  \/ \E n \in Numbers : ReadTimeline(n)
  \/ StageProgress \/ LoseCollection
  \/ RecordProgressSnapshot

-----------------------------------------------------------------------------
(* Properties *)

Payload == [at : Times, got : SUBSET Activities, thread : {"unseen", "open", "resolved"},
            began : Times]
ProgressTypeOK ==
  /\ clock \in Times
  /\ occurred \in [Activities -> Times \cup {Never}]
  /\ resolved \in BOOLEAN
  /\ events \subseteq Rows /\ forgotten \subseteq Rows /\ missed \subseteq Times
  /\ observed \in {"unseen", "open", "resolved"}
  /\ checkpoint \in Times
  /\ staged = Nothing \/ staged \in Payload
  /\ collection = Nothing
     \/ collection \in [at : Times, cutoff : Times, got : SUBSET Activities,
                        thread : {"unseen", "open", "resolved"}, left : SUBSET Numbers]

\* Activity that no later collection looks at again, because it lies before the
\* cutoff of the next, has been recorded, however collections, failures and
\* restarts interleave with it; but for what its actor had deleted, and for what
\* happened while a collection took longer than the overlap
\* (collectProgressEvents, CollectedAt, RecordProgressSnapshot).
OnlySlowCollectionsMiss ==
  \A a \in Activities :
    occurred[a] < Cutoff(checkpoint) => \/ a \in events
                                        \/ a \in forgotten
                                        \/ occurred[a] \in missed

\* What a maintainer deleted does not come back: DeletePersonalData "removes all
\* user-owned product state", progress included.
DeletedProgressStaysDeleted == events \cap forgotten = {}
=============================================================================
