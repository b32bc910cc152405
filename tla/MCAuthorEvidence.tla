-------------------------- MODULE MCAuthorEvidence --------------------------
(***************************************************************************)
(* A finite instance of AuthorEvidence: two authors, two collections that  *)
(* share a repository, a clock that stops, and a budget of requests,       *)
(* reloads, snapshots and stops of the worker.                             *)
(***************************************************************************)
EXTENDS AuthorEvidence, TLC

CONSTANTS a1, a2, c1, c2, r1, r2,
          Events,     \* bound on the events of all kinds together
          Asks, Reloads, Snapshots, Stops

VARIABLE budget

mcvars == <<vars, budget>>

MCConfigures == (c1 :> {r1} @@ c2 :> {r2})
MCHistories == {NoHistory, [NoHistory EXCEPT !.open = 2]}
MCSymmetry == Permutations(Authors)
MCResets == {1, 3}

MCInit ==
  /\ Init
  /\ openBy = (r1 :> {a1, a2} @@ r2 :> {})
  /\ budget = ("any" :> Events @@ "ask" :> Asks @@ "reload" :> Reloads @@ "snapshot" :> Snapshots @@
               "stop" :> Stops)

Free(A) == A /\ UNCHANGED budget
Paid(kind, A) == /\ budget[kind] > 0 /\ budget["any"] > 0
                 /\ A
                 /\ budget' = [budget EXCEPT ![kind] = @ - 1, !["any"] = @ - 1]

MCNext ==
  \/ Free(Elapse) \/ Free(StartEvidence) \/ Free(Claim) \/ Free(BeginRound) \/ Free(Answers)
  \/ Paid("ask", Requests) \/ Paid("reload", Reload)
  \/ Paid("snapshot", Publish) \/ Paid("stop", StopEvidence)
MCSpec == MCInit /\ [][MCNext]_mcvars
=============================================================================
