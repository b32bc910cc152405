---------------------------- MODULE MCSupervision ----------------------------
(***************************************************************************)
(* A finite instance of Supervision: every event that the server does not  *)
(* cause, and every failure of a provider, is paid from one budget.        *)
(***************************************************************************)
EXTENDS Supervision, TLC

CONSTANTS c1, c2, none,
          Events          \* reloads, crashes, refreshes, requests and failures in a run

VARIABLE budget

mcvars == <<vars, budget>>

MCCollections == {c1, c2}
MCPRs == {1, 2}
\* Each pull request's evidence still calls the other one closed, so that one
\* group can be valid in two chunks.
MCCites == (1 :> {2} @@ 2 :> {1})
MCInputs == {{}, {1}, {1, 2}}
MCConfigs == {(c1 :> m @@ c2 :> "on") : m \in {"on", "off", "removed"}}
MCHasFallback == {c1}
MCReloaders == {"http", "signal"}

\* c1 is refreshed and reconfigured.  c2 shows nothing and competes for the
\* worker: its cron schedule is too rare to match, and its requests are explicit.
MCShown == (c1 :> {1, 2} @@ c2 :> {})
MCBusy == {c1}
MCInit == Init /\ shown = MCShown /\ budget = Events

Free(A) == A /\ UNCHANGED budget
Paid(A) == budget > 0 /\ A /\ budget' = budget - 1

Fails == ProviderFails /\ UNCHANGED supervision
MCWorker == Free(WorkerStep /\ ~Fails) \/ Paid(Fails)
MCClaim(c) == Free(Claim(c))
MCThread(t) == Free(ThreadStep(t))
MCMatch(c) == Free(Match(c))
MCDispatch(c) == Free(DispatchDue(c))
MCFinishRefresh(c) == Free(FinishRefresh(c))
MCStart == \E modes \in Configs : Free(Start(modes))
MCExit == Free(ProcessExits)
MCEnvironment ==
  \/ Paid(Crash)
  \/ \E t \in Reloaders, next \in Configs : Paid(ApplyConfig(t, next))
  \/ \E t \in Reloaders : Paid(ReconcileFails(t))
  \/ \E c \in MCBusy :
       \/ Paid(Refreshes(c) /\ c \notin refreshing)
       \/ Free(Refreshes(c) /\ shown # shown')
  \/ \E c \in Collections : Paid(RequestCorrelation(c))

MCNext ==
  \/ MCStart \/ MCExit \/ MCWorker
  \/ \E t \in Threads : MCThread(t)
  \/ \E c \in Collections : MCClaim(c) \/ MCDispatch(c)
  \/ \E c \in MCBusy : MCMatch(c) \/ MCFinishRefresh(c)
  \/ MCEnvironment
MCSpec == MCInit /\ [][MCNext]_mcvars

\* Goroutines are scheduled and process supervision restarts the server; cron
\* schedules recur; refreshes end.  Jobs are claimed in the order they were
\* queued, so that none is passed over forever.
MCFairSpec ==
  /\ MCSpec
  /\ WF_mcvars(MCStart) /\ WF_mcvars(MCExit) /\ WF_mcvars(MCWorker)
  /\ \A t \in Threads : WF_mcvars(MCThread(t))
  /\ \A c \in MCBusy :
       /\ WF_mcvars(MCMatch(c)) /\ WF_mcvars(MCDispatch(c)) /\ WF_mcvars(MCFinishRefresh(c))
       /\ SF_mcvars(MCClaim(c))

\* A collection that asks for groups gets the groups of what it shows, whatever
\* was lost on the way: a first dispatch, a match during a restart, a successor
\* of a stale answer or a request that coalesced with a job about to complete.
Current(c) == state[c] = [status |-> "complete", about |-> shown[c]]
GroupsCatchUp ==
  \A c \in MCBusy : mode[c] = "on" ~> (Current(c) \/ mode[c] # "on" \/ mixed)
=============================================================================
