------------------------- MODULE MCRefreshGeneration -------------------------
(***************************************************************************)
(* A finite instance of RefreshGeneration: the events the worker does not  *)
(* cause are bounded by a budget, one counter per kind of event.           *)
(***************************************************************************)
EXTENDS RefreshGeneration, TLC

CONSTANTS c1, c2,
          Events,       \* at most so many events together, a reload counting as two
          Ticks, Requests, Stops, Reloads, Changes, Failures,
          Outages,      \* 1: GitHub may stop answering for good
          MaxRetries    \* consecutive retries that fit into 24 hours

VARIABLES budget, outage

mcvars == <<vars, budget, outage>>

MCPRs == {1, 2}
MCCollections == {c1, c2}
MCSelects == (c1 :> {1, 2} @@ c2 :> {2})
MCInitiallyIn == {c1}

MCInit ==
  /\ Init
  /\ outage = FALSE
  /\ budget = ("tick" :> Ticks @@ "request" :> Requests @@ "stop" :> Stops @@
               "reload" :> Reloads @@ "change" :> Changes @@
               "failure" :> Failures @@ "outage" :> Outages @@ "any" :> Events)

Weight(kind) == IF kind = "reload" THEN 2 ELSE 1
Spend(kind) ==
  /\ budget[kind] > 0 /\ budget["any"] >= Weight(kind)
  /\ budget' = [budget EXCEPT ![kind] = @ - 1, !["any"] = @ - Weight(kind)]

Free(A) == A /\ UNCHANGED <<budget, outage>>
Paid(kind, A) == Spend(kind) /\ A /\ UNCHANGED outage

Outage == Spend("outage") /\ outage' = TRUE /\ UNCHANGED vars

\* While GitHub answers, failures are paid for; during the outage every call
\* fails with a retryable failure and costs nothing.
Answered == ~outage /\ GitHubAnswers /\ UNCHANGED <<budget, outage>>
TransientFailure == ~outage /\ GitHubFails /\ Spend("failure") /\ UNCHANGED outage
OutageFailure ==
  /\ outage
  /\ \/ DiscoveryRetry
     \/ gen.retries < MaxRetries /\ GenerationRetry
     \/ RetriesExhausted
  /\ UNCHANGED <<budget, outage>>

MCWorker == Free(WorkerStep) \/ Answered \/ TransientFailure \/ OutageFailure
MCStart == Free(StartWorker)
MCDelay == Free(DelayElapses)
MCAge == Free(AgeGeneration)
MCEnvironment ==
  \/ Paid("stop", StopWorker)
  \/ Paid("request", RequestForced)
  \/ Free(InsertForced) \/ Free(UpgradeForced)
  \/ Paid("tick", CronTick)
  \/ Paid("reload", Reload)
  \/ Paid("change", GitHubChanges)
  \/ Outage

MCNext == MCWorker \/ MCStart \/ MCDelay \/ MCAge \/ MCEnvironment
MCSpec == MCInit /\ [][MCNext]_mcvars

\* The scheduler loops on a one second ticker and process supervision starts it
\* again; minutes pass, and so do 24 hours.  Nothing is asked of the environment.
MCFairSpec ==
  /\ MCSpec
  /\ WF_mcvars(MCWorker) /\ WF_mcvars(MCStart)
  /\ WF_mcvars(MCDelay) /\ WF_mcvars(MCAge)

\* An active job completes, unless GitHub stops answering for good.
JobFinishes == job.status \in Active ~> (job.status = "none" \/ outage)

\* While a tick is to be served and the worker has not listed the pull requests
\* for it, a closed pull request will leave every collection, unless it is
\* reopened or the refresh fails.
ClosedLeavesView ==
  \A p \in PRs :
    (tickOwed = "early" /\ pc # "discovered" /\ p \notin open)
      ~> \/ \A c \in Collections : <<c, p>> \notin pub
         \/ p \in open \/ outage \/ health \in {"failed", "incomplete"}

\* Retryable failures end a generation: 24 hours after its discovery the job
\* fails and the generation is abandoned.
OutageEndsGeneration == (outage /\ gen.phase # "none") ~> gen.phase = "none"

\* Retryable failures end a job.
OutageEndsJob == (outage /\ job.status \in Active) ~> job.status = "none"
=============================================================================
