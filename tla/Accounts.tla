------------------------------ MODULE Accounts ------------------------------
(***************************************************************************)
(* What the server keeps for a maintainer who signs in: one-time login     *)
(* flows, sessions with the memberships verified at login, and the private *)
(* marks on pull requests (Important, snoozed, ignored) and the goal.      *)
(*                                                                         *)
(* Granularity.  One statement or transaction of the Store is one action.  *)
(* A handler is therefore a sequence of actions, between which every other *)
(* handler, a publication, a reload or a crash may act.                    *)
(*                                                                         *)
(* Data.  One collection of one repository.  A session's id is the id of   *)
(* the callback that drew it, since tokens are random.  Time passes when a *)
(* flow or a session expires.  A snooze wakes by its date or by activity;  *)
(* which of the two is left out, and so are the answers to requests that   *)
(* change nothing.  A reload is one action: Supervision has its steps.     *)
(***************************************************************************)
EXTENDS Naturals, FiniteSets

CONSTANTS Users,
          Groups,        \* organizations and teams
          MemberOf,      \* MemberOf[u]: what GitHub answers for u
          Policies,      \* [users, groups]: authorization an administrator may configure
          PullRequests,
          Flows,         \* login flows
          Callbacks,     \* requests to /auth/callback, and the sessions they create
          Requests       \* other requests

ASSUME MemberOfAssumption == MemberOf \in [Users -> SUBSET Groups]
ASSUME PoliciesAssumption == Policies \subseteq [users : SUBSET Users, groups : SUBSET Groups]

VARIABLES
  policy,       \* the collection's authorization in the application configuration
  configured,   \* the collection lists the repository
  shown,        \* collection_pull_requests
  stored,       \* pull_requests
  flow,         \* auth_flows: "none", "fresh", "expired" or "gone"
  session,      \* sessions: "none", "live" or "expired"
  important,    \* important_pull_requests
  hidden,       \* hidden_pull_requests: "shown", "snoozed" or "ignored"
  goals,        \* goal_preferences
  callback,     \* handlers of /auth/callback
  request,      \* handlers of the other requests
  \* History
  audited,      \* sign-ins with an authentication_succeeded event
  erased,       \* users whose data was deleted while no other request of
                \* theirs ran and who have not signed in since
  late          \* marks written after the pull request left the collection

config == <<policy, configured>>
marks == <<important, hidden, goals, late>>
accountVars == <<config, shown, stored, flow, session, marks, callback, request, audited, erased>>

Keys == Users \X PullRequests
WritingOps == {"mark", "unmark", "ignore", "snooze", "restore", "goal"}
Ops == WritingOps \cup {"list", "logout", "delete"}

\* The state of a handler: of a callback, and of another request.
LoginStates ==
  [pc : {"idle", "consumed", "verified", "created", "signedIn", "refused"},
   flow : SUBSET Flows, user : SUBSET Users, requires : SUBSET Groups, evidence : SUBSET Groups]
RequestStates ==
  [pc : {"idle", "authorized", "found"}, op : Ops, user : SUBSET Users,
   session : SUBSET Callbacks, pr : SUBSET PullRequests]
NoLogin == [pc |-> "idle", flow |-> {}, user |-> {}, requires |-> {}, evidence |-> {}]
NoRequest == [pc |-> "idle", op |-> "list", user |-> {}, session |-> {}, pr |-> {}]

AccountsInit ==
  /\ policy \in Policies
  /\ configured = TRUE
  /\ shown \in SUBSET PullRequests
  /\ stored = shown
  /\ flow = [f \in Flows |-> "none"]
  /\ session = [b \in Callbacks |-> "none"]
  /\ important = {}
  /\ hidden = [k \in Keys |-> "shown"]
  /\ goals = {}
  /\ callback = [b \in Callbacks |-> NoLogin]
  /\ request = [h \in Requests |-> NoRequest]
  /\ audited = {}
  /\ erased = {}
  /\ late = {}

-----------------------------------------------------------------------------
(* Signing in *)

signInFrame == <<config, shown, stored, marks, request>>

\* serveLogin: CreateAuthFlow
Login(f) ==
  /\ flow[f] = "none"
  /\ flow' = [flow EXCEPT ![f] = "fresh"]
  /\ UNCHANGED <<signInFrame, session, callback, audited, erased>>

\* serveAuthCallback: the configuration and the provider are read once, then
\* ConsumeAuthFlow deletes the flow if it has not expired.  What follows may
\* fail, but the flow is gone.
ConsumeAuthFlowKept(f) == flow' = flow
ConsumeAuthFlow(f) == flow' = [flow EXCEPT ![f] = "gone"]
BeginCallback(b, f) ==
  /\ callback[b].pc = "idle"
  /\ flow[f] = "fresh"
  /\ ConsumeAuthFlow(f)
  /\ callback' = [callback EXCEPT ![b] = [NoLogin EXCEPT
                    !.pc = "consumed", !.flow = {f}, !.requires = policy.groups]]
  /\ UNCHANGED <<signInFrame, session, audited, erased>>

\* The callback ends without a cookie: the code is missing, GitHub cannot
\* verify the identity, or a statement fails.
RefuseCallback(b) ==
  /\ callback[b].pc \in {"consumed", "verified"}
  /\ callback' = [callback EXCEPT ![b].pc = "refused"]
  /\ UNCHANGED <<signInFrame, flow, session, audited, erased>>

\* Authenticate: the identity and the memberships the configuration asked for.
Authenticate(b, u) ==
  /\ callback[b].pc = "consumed"
  /\ callback' = [callback EXCEPT ![b].pc = "verified", ![b].user = {u},
                                  ![b].evidence = MemberOf[u] \cap callback[b].requires]
  /\ UNCHANGED <<signInFrame, flow, session, audited, erased>>

CreateSession(b) ==
  /\ callback[b].pc = "verified"
  /\ session' = [session EXCEPT ![b] = "live"]
  /\ callback' = [callback EXCEPT ![b].pc = "created"]
  /\ erased' = erased \ callback[b].user
  /\ UNCHANGED <<signInFrame, flow, audited>>

\* RecordAudit, then the cookie.  Without the audit event the session is
\* deleted, if that statement succeeds, and no cookie is sent.
AuditFails(b) ==
  /\ callback' = [callback EXCEPT ![b].pc = "refused"]
  /\ \/ session' = [session EXCEPT ![b] = "none"]
     \/ UNCHANGED session
  /\ UNCHANGED audited
AuditSignIn(b) ==
  /\ callback[b].pc = "created"
  /\ \/ /\ callback' = [callback EXCEPT ![b].pc = "signedIn"]
        /\ audited' = audited \cup {b}
        /\ UNCHANGED session
     \/ AuditFails(b)
  /\ UNCHANGED <<signInFrame, flow, erased>>

-----------------------------------------------------------------------------
(* Requests of a browser that holds a cookie *)

requestFrame == <<config, shown, stored, flow, callback, audited>>
Ended(h) == request' = [request EXCEPT ![h] = NoRequest]

\* collectionAuthorized, by the memberships verified at login
Authorized(b) == \/ callback[b].user \subseteq policy.users
                 \/ callback[b].evidence \cap policy.groups # {}

\* session, requireMutation and requireCollectionMutation, or
\* authorizedSessionForCollection for a list.  Logging out and deleting one's
\* data need no collection.
BeginRequest(h, b, op, p) ==
  /\ request[h].pc = "idle"
  /\ callback[b].pc = "signedIn"
  /\ session[b] = "live"
  /\ op \in {"logout", "delete"} \/ Authorized(b)
  /\ request' = [request EXCEPT ![h] = [pc |-> "authorized", op |-> op, user |-> callback[b].user,
                                        session |-> {b}, pr |-> {p}]]
  /\ UNCHANGED <<requestFrame, session, marks, erased>>

\* GetSession deletes the row of an expired session it is asked for.
DropSession(b) ==
  /\ session[b] = "expired"
  /\ session' = [session EXCEPT ![b] = "none"]
  /\ UNCHANGED <<requestFrame, request, marks, erased>>

Runs(h, ops) == request[h].pc = "authorized" /\ request[h].op \in ops
KeysOf(h) == request[h].user \X request[h].pr

\* MarkPullRequestImportant copies the row of collection_pull_requests.
Marked(h) == {k \in KeysOf(h) : k[2] \in shown}
Mark(h) ==
  /\ Runs(h, {"mark", "unmark"})
  /\ important' = IF request[h].op = "mark" THEN important \cup Marked(h) ELSE important \ KeysOf(h)
  /\ Ended(h)
  /\ UNCHANGED <<requestFrame, session, hidden, goals, late, erased>>

\* SetPullRequestHidden looks the pull request up, then writes the mark; the
\* foreign key refuses it only when the pull request itself is gone.
FindPullRequestToHide(h) ==
  /\ Runs(h, {"ignore", "snooze"})
  /\ IF request[h].pr \subseteq shown
       THEN request' = [request EXCEPT ![h].pc = "found"]
       ELSE Ended(h)
  /\ UNCHANGED <<requestFrame, session, marks, erased>>

HidePullRequest(h) ==
  /\ request[h].pc = "found"
  /\ IF request[h].pr \subseteq stored
       THEN /\ hidden' = [k \in Keys |-> IF k \notin KeysOf(h) THEN hidden[k]
                                         ELSE IF request[h].op = "ignore" THEN "ignored" ELSE "snoozed"]
            /\ late' = late \cup {k \in KeysOf(h) : k[2] \notin shown}
       ELSE UNCHANGED <<hidden, late>>
  /\ Ended(h)
  /\ UNCHANGED <<requestFrame, session, important, goals, erased>>

\* RestorePullRequest, or wakeSnoozedPullRequests at the head of a list, which
\* restores those of the user's snoozes that are due.
Due(h) == {k \in request[h].user \X PullRequests : hidden[k] = "snoozed"}
Restore(h) ==
  /\ Runs(h, {"restore", "list"})
  /\ \E ks \in IF request[h].op = "list" THEN SUBSET Due(h) ELSE {KeysOf(h)} :
       hidden' = [k \in Keys |-> IF k \in ks THEN "shown" ELSE hidden[k]]
  /\ Ended(h)
  /\ UNCHANGED <<requestFrame, session, important, goals, late, erased>>

SetGoalPreferences(h) ==
  /\ Runs(h, {"goal"})
  /\ goals' = goals \cup request[h].user
  /\ Ended(h)
  /\ UNCHANGED <<requestFrame, session, important, hidden, late, erased>>

Logout(h) ==
  /\ Runs(h, {"logout"})
  /\ session' = [b \in Callbacks |-> IF b \in request[h].session THEN "none" ELSE session[b]]
  /\ Ended(h)
  /\ UNCHANGED <<requestFrame, marks, erased>>

\* DeletePersonalData, one transaction, but for the progress events, which
\* belong to Progress.
SessionsOfRequest(h) == request[h].session
SessionsDeleted(h) == {b \in Callbacks : callback[b].user = request[h].user}
DeleteAccountData(h) ==
  /\ Runs(h, {"delete"})
  /\ important' = {k \in important : k[1] \notin request[h].user}
  /\ hidden' = [k \in Keys |-> IF k[1] \in request[h].user THEN "shown" ELSE hidden[k]]
  /\ goals' = goals \ request[h].user
  /\ session' = [b \in Callbacks |-> IF b \in SessionsDeleted(h) THEN "none" ELSE session[b]]
  /\ erased' = IF \E g \in Requests \ {h} : /\ request[g].user = request[h].user
                                            /\ request[g].op \in WritingOps
                 THEN erased
                 ELSE erased \cup request[h].user
  /\ Ended(h)
  /\ UNCHANGED <<requestFrame, late>>

\* A statement fails, or the client goes away, at any step of a handler.
RequestFails(h) ==
  /\ request[h].pc # "idle"
  /\ Ended(h)
  /\ UNCHANGED <<requestFrame, session, marks, erased>>

-----------------------------------------------------------------------------
(* Time, publications, reloads and restarts *)

handlers == <<callback, request, audited, erased>>

Expire ==
  /\ \/ \E f \in Flows : /\ flow[f] = "fresh"
                         /\ flow' = [flow EXCEPT ![f] = "expired"]
                         /\ UNCHANGED session
     \/ \E b \in Callbacks : /\ session[b] = "live"
                             /\ session' = [session EXCEPT ![b] = "expired"]
                             /\ UNCHANGED flow
  /\ UNCHANGED <<config, shown, stored, marks, handlers>>

\* RunRetention, as far as it deletes by expires_at
RunRetention ==
  /\ \E x \in Flows : flow[x] = "expired"
     \/ \E b \in Callbacks : session[b] = "expired"
  /\ flow' = [f \in Flows |-> IF flow[f] = "expired" THEN "gone" ELSE flow[f]]
  /\ session' = [b \in Callbacks |-> IF session[b] = "expired" THEN "none" ELSE session[b]]
  /\ UNCHANGED <<config, shown, stored, marks, handlers>>

\* Deleting the marks outside the collections' pull requests.
Unkept(prs) == UNCHANGED <<important, hidden, late>>
Kept(prs) ==
  /\ important' = {k \in important : k[2] \in prs}
  /\ hidden' = [k \in Keys |-> IF k[2] \in prs THEN hidden[k] ELSE "shown"]
  /\ late' = {}

\* PublishRefreshBatch adds; the snapshot of a generation replaces, and deletes
\* the pull requests of no collection.
PublishBatch(prs) ==
  /\ configured
  /\ shown' = shown \cup prs
  /\ stored' = stored \cup prs
  /\ UNCHANGED <<config, flow, session, marks, handlers>>

PublishPullRequests(prs) ==
  /\ configured
  /\ shown' = prs
  /\ stored' = prs
  /\ Kept(prs)
  /\ UNCHANGED <<config, flow, session, goals, handlers>>

\* SyncCollections: without the repository the collection loses its pull
\* requests, whose rows stay until a snapshot deletes them.
Reload(next, lists) ==
  /\ policy' = next
  /\ configured' = lists
  /\ shown' = IF lists THEN shown ELSE {}
  /\ Kept(shown')
  /\ UNCHANGED <<stored, flow, session, goals, handlers>>

Halt ==
  /\ callback' = [b \in Callbacks |-> IF callback[b].pc \in {"consumed", "verified", "created"}
                                        THEN [callback[b] EXCEPT !.pc = "refused"] ELSE callback[b]]
  /\ request' = [h \in Requests |-> NoRequest]
  /\ UNCHANGED <<config, shown, stored, flow, session, marks, audited, erased>>

SignIn ==
  \/ \E f \in Flows : Login(f)
  \/ \E b \in Callbacks, f \in Flows : BeginCallback(b, f)
  \/ \E b \in Callbacks, u \in Users : Authenticate(b, u)
  \/ \E b \in Callbacks : CreateSession(b) \/ AuditSignIn(b) \/ RefuseCallback(b)

Handle(h) ==
  \/ Mark(h) \/ FindPullRequestToHide(h) \/ HidePullRequest(h) \/ Restore(h)
  \/ SetGoalPreferences(h) \/ Logout(h) \/ RequestFails(h)

AskServer == \E h \in Requests, b \in Callbacks, op \in Ops, p \in PullRequests :
               BeginRequest(h, b, op, p)

-----------------------------------------------------------------------------
(* Properties *)

AccountsTypeOK ==
  /\ policy \in Policies /\ configured \in BOOLEAN
  /\ shown \subseteq PullRequests /\ stored \subseteq PullRequests
  /\ flow \in [Flows -> {"none", "fresh", "expired", "gone"}]
  /\ session \in [Callbacks -> {"none", "live", "expired"}]
  /\ important \subseteq Keys /\ late \subseteq Keys
  /\ hidden \in [Keys -> {"shown", "snoozed", "ignored"}]
  /\ goals \subseteq Users /\ erased \subseteq Users /\ audited \subseteq Callbacks
  /\ callback \in [Callbacks -> LoginStates]
  /\ request \in [Requests -> RequestStates]

\* No two sign-ins come from one login flow, even when two callbacks race or one
\* is repeated after it failed, and a browser that got a cookie is in the audit
\* log (serveAuthCallback, ConsumeAuthFlow).
LoginIsOnce ==
  /\ \A a, b \in Callbacks : a # b => callback[a].flow \cap callback[b].flow = {}
  /\ \A b \in Callbacks : callback[b].pc = "signedIn" => b \in audited

\* What DeletePersonalData removed stays removed until the user signs in again,
\* in whatever order the requests of the user's other browsers, logins and
\* restarts come, unless a request had passed authorization before the deletion.
ErasedStaysErased ==
  \A u \in erased :
    /\ u \notin goals
    /\ \A p \in PullRequests : <<u, p>> \notin important /\ hidden[<<u, p>>] = "shown"
    /\ \A b \in Callbacks : callback[b].user = {u} => session[b] = "none"

\* A pull request that left the collection, by a snapshot or a reload, carries
\* no private mark, except one whose request had looked the pull request up
\* before it left (SetPullRequestHidden reads and writes in two statements).
MarksFollowMembership ==
  /\ \A k \in important : k[2] \in shown
  /\ \A k \in Keys : hidden[k] # "shown" => k[2] \in shown \/ k \in late
=============================================================================
