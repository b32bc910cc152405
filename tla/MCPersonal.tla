----------------------------- MODULE MCPersonal -----------------------------
(***************************************************************************)
(* A finite instance of Personal: one maintainer with two browsers, one    *)
(* pull request in the collection and two with activity, and a budget of   *)
(* events that drivers outside the handlers cause.                         *)
(***************************************************************************)
EXTENDS Personal, TLC

CONSTANTS u1, g1, p1, f1, f2, b1, b2, h1, h2, review, comment,
          Events,     \* bound on the events of all kinds together
          Logins, Asks, Ticks, Acts, Threads, Collections, Changes, Stops

VARIABLE budget

mcvars == <<vars, budget>>

MCMemberOf == (u1 :> {g1})
MCPolicies == {[users |-> {}, groups |-> {}], [users |-> {}, groups |-> {g1}]}
MCActorOf == (review :> u1 @@ comment :> u1)
MCPullRequestOf == (review :> 1 @@ comment :> 2)
MCSymmetry == Permutations(Flows) \cup Permutations(Callbacks) \cup Permutations(Requests)

MCInit ==
  /\ Init
  /\ policy = [users |-> {}, groups |-> {g1}]
  /\ shown = PullRequests
  /\ budget = ("any" :> Events @@ "login" :> Logins @@ "ask" :> Asks @@ "tick" :> Ticks
               @@ "act" :> Acts @@ "thread" :> Threads @@ "collect" :> Collections
               @@ "change" :> Changes @@ "stop" :> Stops)

Free(A) == A /\ UNCHANGED budget
Paid(kind, A) == /\ budget[kind] > 0 /\ budget["any"] > 0
                 /\ A
                 /\ budget' = [budget EXCEPT ![kind] = @ - 1, !["any"] = @ - 1]

Advance ==
  \/ AccountsStep(\E b \in Callbacks :
       (\E u \in Users : Authenticate(b, u)) \/ CreateSession(b) \/ AuditSignIn(b) \/ RefuseCallback(b))
  \/ \E h \in Requests : AccountsStep(Handle(h)) \/ DeletePersonalData(h)
  \/ Maintenance
  \/ ProgressStep(StageProgress \/ LoseCollection \/ RecordProgressSnapshot
                  \/ \E n \in Numbers : ReadTimeline(n))

MCNext ==
  \/ Free(Advance)
  \/ Free(AccountsStep(\E f \in Flows : Login(f)))
  \/ Paid("login", AccountsStep(\E b \in Callbacks, f \in Flows : BeginCallback(b, f)))
  \/ Paid("ask", AccountsStep(AskServer))
  \/ Paid("tick", ProgressStep(Tick))
  \/ Paid("act", ProgressStep(\E a \in Activities : Happen(a)))
  \/ Paid("thread", ProgressStep(ResolveOrReopen))
  \/ Paid("collect", ProgressStep(ListCandidates))
  \/ Paid("change", AccountsStep(Expire) \/ Publications \/ Reloads)
  \/ Paid("stop", Crash)

MCSpec == MCInit /\ [][MCNext]_mcvars
=============================================================================
