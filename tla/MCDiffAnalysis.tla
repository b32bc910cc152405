--------------------------- MODULE MCDiffAnalysis ---------------------------
(***************************************************************************)
(* A finite instance of DiffAnalysis: what the two workers and the refresh *)
(* do not cause is bounded by a budget: so many events of each kind, and so *)
(* many of all kinds together.                                             *)
(***************************************************************************)
EXTENDS DiffAnalysis, TLC

CONSTANTS Events,   \* bound on the events of all kinds together
          Pushes, Closings, Abandons, Reloads, Restarts, Requests, StoreFailures

VARIABLE budget

mcvars == <<vars, budget>>

MCInit ==
  /\ Init
  /\ provider = Collections
  /\ ghHead = CHOOSE h \in Heads : TRUE
  /\ budget = ("any" :> Events @@ "push" :> Pushes @@ "close" :> Closings @@ "abandon" :> Abandons @@
               "reload" :> Reloads @@ "restart" :> Restarts @@
               "request" :> Requests @@ "store" :> StoreFailures)

Free(A) == A /\ UNCHANGED budget
Paid(kind, A) == /\ budget[kind] > 0 /\ budget["any"] > 0
                 /\ A
                 /\ budget' = [budget EXCEPT ![kind] = @ - 1, !["any"] = @ - 1]

MCRefresh == Free(Refresh)
MCRound == Free(BeginRound)
MCClaimDiff(h) == \E s \in Slots : Free(ClaimPullRequestDiff(s, h))
MCEvidence(s) == Free(EvidenceStep(s))
MCClaim(c) == Free(ClaimAnalysis(c))
MCAnalysis == Free(AnalysisStep)
MCWorkers == Free(StartEvidence) \/ Free(StopEvidence) \/ Free(StartAnalysis) \/ Free(StopAnalysis)
MCEnvironment ==
  \/ Paid("push", Push)
  \/ Paid("close", RemoveClosed)
  \/ Paid("abandon", Abandon)
  \/ Paid("reload", Reload)
  \/ Paid("restart", Restart)
  \/ Paid("store", StoreFails)
  \/ \E c \in Collections : Paid("request", Reanalyze(c))

MCNext ==
  \/ MCRefresh \/ MCRound \/ MCAnalysis \/ MCWorkers \/ MCEnvironment
  \/ \E s \in Slots : MCEvidence(s)
  \/ \E h \in Heads : MCClaimDiff(h)
  \/ \E c \in Collections : MCClaim(c)
MCSpec == MCInit /\ [][MCNext]_mcvars

\* The schedule refreshes again and again, the workers poll every second and
\* process supervision replaces them; a claim takes the oldest due job, so a job
\* that is due again and again is claimed.
MCFairSpec ==
  /\ MCSpec
  /\ WF_mcvars(MCRefresh) /\ WF_mcvars(MCRound) /\ WF_mcvars(MCAnalysis)
  /\ WF_mcvars(Free(StartEvidence)) /\ WF_mcvars(Free(StopEvidence))
  /\ WF_mcvars(Free(StartAnalysis)) /\ WF_mcvars(Free(StopAnalysis))
  /\ \A s \in Slots : WF_mcvars(MCEvidence(s))
  /\ \A h \in Heads : SF_mcvars(MCClaimDiff(h))
  /\ \A c \in Collections : SF_mcvars(MCClaim(c))

Shown(c, h) == row = h /\ c \in pub \cap provider \cap Active

\* Usable evidence of the stored head reaches the model: whatever was lost to a
\* restart, a coalesced request or a failure, a later refresh makes up for it,
\* unless the pull request, its head or the collection goes first.
EvidenceReachesModel ==
  \A c \in Collections, h \in Heads :
    (Shown(c, h) /\ evidence[h] = "usable")
      ~> \/ attempt[c].head = h /\ attempt[c].level = "usable"
         \/ ~Shown(c, h) \/ evidence[h] # "usable"

\* A diff that was unavailable is collected again by a later refresh, as long as
\* the head stays and some collection configures the repository.
UnavailableIsRetried ==
  \A h \in Heads :
    (row = h /\ evidence[h] = "unavailable")
      ~> \/ diff[h] = "running" \/ evidence[h] # "unavailable"
         \/ row # h \/ Active = {}
=============================================================================
