--------------------------- MODULE Personal_proofs ---------------------------
(***************************************************************************)
(* Machine-checked proofs about Accounts, Progress and their composition   *)
(* Personal, for every set of users, callbacks, requests, pull requests,   *)
(* activities and policies, and every overlap.                             *)
(***************************************************************************)
EXTENDS Personal, TLAPS

-----------------------------------------------------------------------------
(* Accounts: the inductive invariant *)

\* A callback holds flows that nobody can consume again.
FlowsAreConsumed == \A b \in Callbacks : \A f \in callback[b].flow : flow[f] = "gone"

\* Whoever signs in or asks is one user.
OneUser ==
  /\ \A b \in Callbacks : callback[b].user = {} \/ \E u \in Users : callback[b].user = {u}
  /\ \A h \in Requests : request[h].user = {} \/ \E u \in Users : request[h].user = {u}

\* A callback has no session before it creates one, and a cookie names its user.
SessionsAreCreated ==
  \A b \in Callbacks :
    /\ callback[b].pc \in {"idle", "consumed", "verified"} => session[b] = "none"
    /\ callback[b].pc \in {"verified", "created", "signedIn"} => callback[b].user # {}

\* No request under way writes for a user whose data was deleted.
NobodyWritesErased ==
  \A h \in Requests : request[h].op \in WritingOps => request[h].user \cap erased = {}

\* Only an ignore or a snooze looks its pull request up first.
FoundHides == \A h \in Requests : request[h].pc = "found" => request[h].op \in {"ignore", "snooze"}

AccountsInv ==
  /\ AccountsTypeOK /\ FoundHides
  /\ FlowsAreConsumed /\ LoginIsOnce
  /\ OneUser /\ SessionsAreCreated /\ NobodyWritesErased /\ ErasedStaysErased
  /\ MarksFollowMembership

\* The steps that change anything of Accounts, by what they change.
OtherAccountsSteps ==
  \/ AskServer
  \/ \E h \in Requests : Handle(h) \/ DeleteAccountData(h)
  \/ \E b \in Callbacks : DropSession(b)
  \/ \E prs \in SUBSET PullRequests : PublishBatch(prs) \/ PublishPullRequests(prs)
  \/ \E next \in Policies, lists \in BOOLEAN : Reload(next, lists)
AccountsNext == SignIn \/ Expire \/ RunRetention \/ Halt \/ OtherAccountsSteps

-----------------------------------------------------------------------------
(* Accounts: types *)

\* A handler that does nothing, and one that moves on.
LEMMA HandlerTypes ==
  /\ NoLogin \in LoginStates /\ NoLogin.pc = "idle" /\ NoLogin.user = {} /\ NoLogin.flow = {}
  /\ NoRequest \in RequestStates /\ NoRequest.op = "list" /\ NoRequest.user = {}
  /\ \A c \in LoginStates :
       \A pc \in {"idle", "consumed", "verified", "created", "signedIn", "refused"} :
         [c EXCEPT !.pc = pc] \in LoginStates
BY DEF NoLogin, NoRequest, LoginStates, RequestStates, Ops

\* Nobody has signed in, and the collection shows what is stored.
LEMMA AccountsTypeInit == AccountsInit => AccountsTypeOK
BY PoliciesAssumption, HandlerTypes DEF AccountsInit, AccountsTypeOK, Keys

\* A callback moves on, keeping its fields or drawing them from their sets.
LEMMA SignInTypes == AccountsTypeOK /\ SignIn => AccountsTypeOK'
<1> SUFFICES ASSUME AccountsTypeOK, SignIn PROVE AccountsTypeOK'
  OBVIOUS
<1> USE HandlerTypes DEF AccountsTypeOK, signInFrame, config, marks
<1>c. ASSUME NEW b \in Callbacks,
             NEW pc \in {"idle", "consumed", "verified", "created", "signedIn", "refused"},
             callback' = [callback EXCEPT ![b].pc = pc]
      PROVE  callback' \in [Callbacks -> LoginStates]
  BY <1>c
<1>s. ASSUME NEW b \in Callbacks, NEW s \in {"none", "live", "expired"},
             session' = [session EXCEPT ![b] = s]
      PROVE  session' \in [Callbacks -> {"none", "live", "expired"}]
  BY <1>s
<1>1. ASSUME NEW f \in Flows, Login(f) PROVE AccountsTypeOK'
  BY <1>1 DEF Login
<1>2. ASSUME NEW b \in Callbacks, NEW f \in Flows, BeginCallback(b, f) PROVE AccountsTypeOK'
  <2>1. [NoLogin EXCEPT !.pc = "consumed", !.flow = {f}, !.requires = policy.groups] \in LoginStates
    BY PoliciesAssumption DEF NoLogin, LoginStates
  <2> QED BY <1>2, <2>1 DEF BeginCallback, ConsumeAuthFlow
<1>3. ASSUME NEW b \in Callbacks, NEW u \in Users, Authenticate(b, u) PROVE AccountsTypeOK'
  <2>1. callback[b] \in LoginStates
    OBVIOUS
  <2>2. [callback[b] EXCEPT !.pc = "verified", !.user = {u},
                            !.evidence = MemberOf[u] \cap callback[b].requires] \in LoginStates
    BY <2>1 DEF LoginStates
  <2> QED BY <1>3, <2>2 DEF Authenticate
<1>4. ASSUME NEW b \in Callbacks, CreateSession(b) \/ RefuseCallback(b) PROVE AccountsTypeOK'
  <2>1. callback' \in [Callbacks -> LoginStates] /\ session' \in [Callbacks -> {"none", "live", "expired"}]
    BY <1>4, <1>c, <1>s DEF CreateSession, RefuseCallback
  <2> QED BY <1>4, <2>1 DEF CreateSession, RefuseCallback
<1>5. ASSUME NEW b \in Callbacks, AuditSignIn(b) PROVE AccountsTypeOK'
  <2>1. callback' \in [Callbacks -> LoginStates] /\ session' \in [Callbacks -> {"none", "live", "expired"}]
    BY <1>5, <1>c, <1>s DEF AuditSignIn, AuditFails
  <2> QED BY <1>5, <2>1 DEF AuditSignIn, AuditFails
<1> QED BY <1>1, <1>2, <1>3, <1>4, <1>5 DEF SignIn

\* A request begins, moves on, or ends.
LEMMA RequestTypes ==
  AccountsTypeOK /\ (AskServer \/ \E h \in Requests : Handle(h) \/ DeleteAccountData(h))
    => AccountsTypeOK'
<1> SUFFICES ASSUME AccountsTypeOK, AskServer \/ \E h \in Requests : Handle(h) \/ DeleteAccountData(h)
             PROVE  AccountsTypeOK'
  OBVIOUS
<1> USE DEF AccountsTypeOK, requestFrame, config, marks
<1>1. CASE AskServer
  BY <1>1 DEF AskServer, BeginRequest, LoginStates, RequestStates
<1>e. ASSUME NEW h \in Requests, Ended(h)
      PROVE  request' \in [Requests -> RequestStates]
  BY <1>e, HandlerTypes DEF Ended
<1>2. ASSUME NEW h \in Requests, Mark(h) PROVE AccountsTypeOK'
  <2>1. KeysOf(h) \subseteq Keys
    BY DEF KeysOf, Keys, RequestStates
  <2> QED BY <1>2, <1>e, <2>1 DEF Mark, Marked
<1>3. ASSUME NEW h \in Requests, FindPullRequestToHide(h) PROVE AccountsTypeOK'
  <2>1. [request[h] EXCEPT !.pc = "found"] \in RequestStates
    BY DEF RequestStates
  <2> QED BY <1>3, <1>e, <2>1 DEF FindPullRequestToHide
<1>4. ASSUME NEW h \in Requests, HidePullRequest(h) PROVE AccountsTypeOK'
  <2>1. KeysOf(h) \subseteq Keys
    BY DEF KeysOf, Keys, RequestStates
  <2> QED BY <1>4, <1>e, <2>1 DEF HidePullRequest
<1>5. ASSUME NEW h \in Requests, Restore(h) PROVE AccountsTypeOK'
  BY <1>5, <1>e DEF Restore
<1>6. ASSUME NEW h \in Requests, SetGoalPreferences(h) \/ Logout(h) \/ RequestFails(h)
      PROVE  AccountsTypeOK'
  <2>1. request[h].user \subseteq Users
    BY DEF RequestStates
  <2>2. CASE SetGoalPreferences(h)
    BY <2>1, <2>2, <1>e DEF SetGoalPreferences
  <2>3. CASE Logout(h)
    BY <2>3, <1>e DEF Logout
  <2>4. CASE RequestFails(h)
    BY <2>4, <1>e DEF RequestFails
  <2> QED BY <1>6, <2>2, <2>3, <2>4
<1>7. ASSUME NEW h \in Requests, DeleteAccountData(h) PROVE AccountsTypeOK'
  <2>1. request[h].user \subseteq Users
    BY DEF RequestStates
  <2>2. goals' \subseteq Users /\ erased' \subseteq Users /\ important' \subseteq Keys
    BY <1>7, <2>1 DEF DeleteAccountData
  <2>3. /\ hidden' \in [Keys -> {"shown", "snoozed", "ignored"}]
        /\ session' \in [Callbacks -> {"none", "live", "expired"}]
    BY <1>7 DEF DeleteAccountData
  <2> QED BY <1>7, <1>e, <2>2, <2>3 DEF DeleteAccountData
<1> QED BY <1>1, <1>2, <1>3, <1>4, <1>5, <1>6, <1>7 DEF Handle

\* Time, publications, reloads and restarts.
LEMMA MaintenanceTypes ==
  ASSUME AccountsTypeOK,
         \/ Expire \/ RunRetention \/ Halt
         \/ \E b \in Callbacks : DropSession(b)
         \/ \E prs \in SUBSET PullRequests : PublishBatch(prs) \/ PublishPullRequests(prs)
         \/ \E next \in Policies, lists \in BOOLEAN : Reload(next, lists)
  PROVE  AccountsTypeOK'
<1> USE DEF AccountsTypeOK, handlers, config, marks
<1>1. CASE Expire
  BY <1>1 DEF Expire
<1>2. CASE RunRetention
  BY <1>2 DEF RunRetention
<1>3. CASE Halt
  BY <1>3, HandlerTypes DEF Halt
<1>4. ASSUME NEW b \in Callbacks, DropSession(b) PROVE AccountsTypeOK'
  BY <1>4 DEF DropSession, requestFrame
<1>5. ASSUME NEW prs \in SUBSET PullRequests, PublishBatch(prs) \/ PublishPullRequests(prs)
      PROVE  AccountsTypeOK'
  BY <1>5 DEF PublishBatch, PublishPullRequests, Kept
<1>6. ASSUME NEW next \in Policies, NEW lists \in BOOLEAN, Reload(next, lists)
      PROVE  AccountsTypeOK'
  BY <1>6 DEF Reload, Kept
<1> QED BY <1>1, <1>2, <1>3, <1>4, <1>5, <1>6

\* Every step of Accounts.
LEMMA AccountsTypeStep == AccountsTypeOK /\ AccountsNext => AccountsTypeOK'
BY SignInTypes, RequestTypes, MaintenanceTypes DEF AccountsNext, OtherAccountsSteps

-----------------------------------------------------------------------------
(* Accounts: the parts of the invariant *)

\* Outside a sign-in nobody touches flows, callbacks or the audit log.
LEMMA SignInFrame == OtherAccountsSteps => UNCHANGED <<flow, callback, audited>>
<1> USE DEF requestFrame, handlers
<1>1. ASSUME AskServer PROVE UNCHANGED <<flow, callback, audited>>
  BY <1>1 DEF AskServer, BeginRequest
<1>2. ASSUME NEW h \in Requests, Handle(h) \/ DeleteAccountData(h)
      PROVE  UNCHANGED <<flow, callback, audited>>
  BY <1>2 DEF Handle, Mark, FindPullRequestToHide, HidePullRequest, Restore, SetGoalPreferences,
              Logout, RequestFails, DeleteAccountData
<1>3. ASSUME NEW b \in Callbacks, DropSession(b) PROVE UNCHANGED <<flow, callback, audited>>
  BY <1>3 DEF DropSession
<1>4. ASSUME NEW prs, PublishBatch(prs) \/ PublishPullRequests(prs)
      PROVE  UNCHANGED <<flow, callback, audited>>
  BY <1>4 DEF PublishBatch, PublishPullRequests
<1>5. ASSUME NEW next, NEW lists, Reload(next, lists) PROVE UNCHANGED <<flow, callback, audited>>
  BY <1>5 DEF Reload
<1> QED BY <1>1, <1>2, <1>3, <1>4, <1>5 DEF OtherAccountsSteps

\* After the flow was consumed, a callback keeps it, and its user once there is one.
LEMMA CallbackMoves ==
  ASSUME AccountsTypeOK, NEW b \in Callbacks,
         RefuseCallback(b) \/ CreateSession(b) \/ AuditSignIn(b)
  PROVE  /\ \A a \in Callbacks \ {b} : callback'[a] = callback[a]
         /\ callback'[b].flow = callback[b].flow
         /\ callback'[b].user = callback[b].user
         /\ callback[b].pc \in {"consumed", "verified", "created"}
         /\ RefuseCallback(b) => callback'[b].pc = "refused"
         /\ CreateSession(b) => callback'[b].pc = "created"
         /\ AuditSignIn(b) => \/ callback'[b].pc = "refused"
                              \/ callback'[b].pc = "signedIn" /\ callback[b].pc = "created" /\ b \in audited'
<1>1. ASSUME NEW pc, callback' = [callback EXCEPT ![b].pc = pc]
      PROVE  /\ \A a \in Callbacks \ {b} : callback'[a] = callback[a]
             /\ callback'[b].flow = callback[b].flow
             /\ callback'[b].user = callback[b].user
             /\ callback'[b].pc = pc
  BY <1>1 DEF AccountsTypeOK, LoginStates
<1>2. RefuseCallback(b) => callback' = [callback EXCEPT ![b].pc = "refused"]
  BY DEF RefuseCallback
<1>3. CreateSession(b) => callback' = [callback EXCEPT ![b].pc = "created"]
  BY DEF CreateSession
<1>4. AuditSignIn(b) => \/ callback' = [callback EXCEPT ![b].pc = "refused"]
                        \/ callback' = [callback EXCEPT ![b].pc = "signedIn"] /\ b \in audited'
  BY DEF AuditSignIn, AuditFails
<1>5. /\ callback[b].pc \in {"consumed", "verified", "created"}
      /\ AuditSignIn(b) => callback[b].pc = "created"
  BY DEF RefuseCallback, CreateSession, AuditSignIn
<1> QED BY <1>1, <1>2, <1>3, <1>4, <1>5

\* A callback learns its user, and keeps its flow.
LEMMA Verifies ==
  ASSUME AccountsTypeOK, NEW b \in Callbacks, NEW u \in Users, Authenticate(b, u)
  PROVE  /\ \A a \in Callbacks \ {b} : callback'[a] = callback[a]
         /\ callback'[b].flow = callback[b].flow
         /\ callback'[b].user = {u} /\ callback'[b].pc = "verified"
BY DEF AccountsTypeOK, LoginStates, Authenticate

\* A callback that moves on, or ends, keeps its flow.
LEMMA FlowKept ==
  ASSUME FlowsAreConsumed, LoginIsOnce, flow' = flow, audited \subseteq audited',
         \A b \in Callbacks : callback'[b].flow = callback[b].flow,
         \A b \in Callbacks :
           callback'[b].pc = "signedIn" => callback[b].pc = "signedIn" \/ b \in audited'
  PROVE  FlowsAreConsumed' /\ LoginIsOnce'
BY DEF FlowsAreConsumed, LoginIsOnce

\* A flow that was consumed stays gone, and a callback takes only a fresh one.
LEMMA FlowStep ==
  ASSUME AccountsTypeOK, FlowsAreConsumed, LoginIsOnce, AccountsNext
  PROVE  FlowsAreConsumed' /\ LoginIsOnce'
<1> USE DEF AccountsTypeOK, FlowsAreConsumed, LoginIsOnce
<1>1. CASE OtherAccountsSteps
  BY <1>1, SignInFrame
<1>2. CASE Expire \/ RunRetention
  <2>1. UNCHANGED <<callback, audited>>
    BY <1>2 DEF Expire, RunRetention, handlers
  <2>2. \A f \in Flows : flow[f] = "gone" => flow'[f] = "gone"
    BY <1>2 DEF Expire, RunRetention
  <2>3. \A b \in Callbacks : callback[b].flow \subseteq Flows
    BY DEF LoginStates
  <2> QED BY <2>1, <2>2, <2>3
<1>3. CASE Halt
  <2>1. \A b \in Callbacks : callback'[b] \in {callback[b], [callback[b] EXCEPT !.pc = "refused"]}
    BY <1>3 DEF Halt
  <2>2. \A c \in LoginStates : /\ [c EXCEPT !.pc = "refused"].flow = c.flow
                              /\ [c EXCEPT !.pc = "refused"].pc = "refused"
    BY DEF LoginStates
  <2>3. UNCHANGED <<flow, audited>>
    BY <1>3 DEF Halt
  <2> QED BY FlowKept, <2>1, <2>2, <2>3
<1>4. ASSUME NEW f \in Flows, Login(f) PROVE FlowsAreConsumed' /\ LoginIsOnce'
  <2>1. UNCHANGED <<callback, audited>>
    BY <1>4 DEF Login
  <2>2. \A g \in Flows : flow[g] = "gone" => flow'[g] = "gone"
    BY <1>4 DEF Login
  <2>3. \A b \in Callbacks : callback[b].flow \subseteq Flows
    BY DEF LoginStates
  <2> QED BY <2>1, <2>2, <2>3
<1>5. ASSUME NEW b \in Callbacks, NEW f \in Flows, BeginCallback(b, f)
      PROVE  FlowsAreConsumed' /\ LoginIsOnce'
  <2>1. callback'[b].flow = {f} /\ callback'[b].pc = "consumed"
    BY <1>5 DEF BeginCallback, NoLogin
  <2>2. \A a \in Callbacks \ {b} : callback'[a] = callback[a]
    BY <1>5 DEF BeginCallback
  <2>3. flow[f] = "fresh" /\ flow' = [flow EXCEPT ![f] = "gone"] /\ UNCHANGED audited
    BY <1>5 DEF BeginCallback, ConsumeAuthFlow
  <2>4. \A a \in Callbacks : callback[a].flow \subseteq Flows /\ f \notin callback[a].flow
    BY <2>3 DEF LoginStates
  <2> QED BY <2>1, <2>2, <2>3, <2>4
<1>6. ASSUME NEW b \in Callbacks,
             \/ RefuseCallback(b) \/ CreateSession(b) \/ AuditSignIn(b)
             \/ \E u \in Users : Authenticate(b, u)
      PROVE  FlowsAreConsumed' /\ LoginIsOnce'
  <2>1. UNCHANGED flow /\ audited \subseteq audited'
    BY <1>6 DEF RefuseCallback, CreateSession, AuditSignIn, AuditFails, Authenticate
  <2> QED BY FlowKept, <2>1, <1>6, CallbackMoves, Verifies
<1> QED BY <1>1, <1>2, <1>3, <1>4, <1>5, <1>6 DEF AccountsNext, SignIn

\* What ErasedStaysErased needs.
ErasedParts == OneUser /\ SessionsAreCreated /\ NobodyWritesErased /\ ErasedStaysErased

\* The steps that begin nothing: sessions may end and marks may go.
LEMMA ErasedFrame ==
  ASSUME AccountsTypeOK, ErasedParts,
         UNCHANGED <<callback, erased>>, goals' \subseteq goals, important' \subseteq important,
         \A h \in Requests : \/ request'[h] = NoRequest
                           \/ /\ request'[h].op = request[h].op
                              /\ request'[h].user = request[h].user,
         \A k \in Keys : hidden[k] = "shown" => hidden'[k] = "shown",
         \A b \in Callbacks : session[b] = "none" => session'[b] = "none"
  PROVE  ErasedParts'
<1>1. OneUser'
  BY HandlerTypes DEF ErasedParts, OneUser
<1>2. SessionsAreCreated'
  BY DEF ErasedParts, SessionsAreCreated
<1>3. NobodyWritesErased'
  BY HandlerTypes DEF ErasedParts, NobodyWritesErased, WritingOps
<1>4. \A u \in erased, p \in PullRequests : <<u, p>> \in Keys
  BY DEF AccountsTypeOK, Keys
<1>5. ErasedStaysErased'
  BY <1>4 DEF ErasedParts, ErasedStaysErased
<1> QED BY <1>1, <1>2, <1>3, <1>5 DEF ErasedParts

\* Only the creation of a session brings a deleted user back, and it says so.
LEMMA ErasedSignInStep == AccountsTypeOK /\ ErasedParts /\ SignIn => ErasedParts'
<1> SUFFICES ASSUME AccountsTypeOK, ErasedParts, SignIn PROVE ErasedParts'
  OBVIOUS
<1> USE DEF signInFrame, config, marks
<1>1. ASSUME NEW f \in Flows, Login(f) PROVE ErasedParts'
  BY <1>1, ErasedFrame DEF Login
<1>p. ASSUME NEW b \in Callbacks, UNCHANGED <<goals, important, hidden, request>>,
             \A a \in Callbacks \ {b} : callback'[a] = callback[a] /\ session'[a] = session[a],
             callback'[b].user = {} \/ \E u \in Users : callback'[b].user = {u},
             callback'[b].pc \in {"idle", "consumed", "verified"} => session'[b] = "none",
             callback'[b].pc \in {"verified", "created", "signedIn"} => callback'[b].user # {},
             erased' \subseteq erased,
             \A u \in erased' : callback'[b].user = {u} => session'[b] = "none"
      PROVE  ErasedParts'
  <2>1. OneUser'
    BY <1>p DEF ErasedParts, OneUser
  <2>2. SessionsAreCreated'
    BY <1>p DEF ErasedParts, SessionsAreCreated
  <2>3. NobodyWritesErased'
    BY <1>p DEF ErasedParts, NobodyWritesErased
  <2>4. ErasedStaysErased'
    BY <1>p DEF ErasedParts, ErasedStaysErased
  <2> QED BY <2>1, <2>2, <2>3, <2>4 DEF ErasedParts
<1>2. ASSUME NEW b \in Callbacks, NEW f \in Flows, BeginCallback(b, f) PROVE ErasedParts'
  <2>1. callback'[b].user = {} /\ callback'[b].pc = "consumed" /\ callback[b].pc = "idle"
    BY <1>2 DEF BeginCallback, NoLogin, AccountsTypeOK
  <2>2. session[b] = "none"
    BY <2>1 DEF ErasedParts, SessionsAreCreated
  <2> QED BY <1>2, <1>p, <2>1, <2>2 DEF BeginCallback, AccountsTypeOK
<1>3. ASSUME NEW b \in Callbacks, NEW u \in Users, Authenticate(b, u) PROVE ErasedParts'
  <2>1. session[b] = "none"
    BY <1>3 DEF Authenticate, ErasedParts, SessionsAreCreated
  <2> QED BY <1>3, <1>p, <2>1, Verifies DEF Authenticate
<1>4. ASSUME NEW b \in Callbacks, CreateSession(b) PROVE ErasedParts'
  <2>1. callback'[b].pc = "created" /\ erased' = erased \ callback'[b].user
    BY <1>4, CallbackMoves DEF CreateSession
  <2>2. callback'[b].user # {} /\ callback'[b].user = callback[b].user
    BY <1>4, CallbackMoves DEF CreateSession, ErasedParts, SessionsAreCreated
  <2>3. \A a \in Callbacks \ {b} : callback'[a] = callback[a] /\ session'[a] = session[a]
    BY <1>4, CallbackMoves DEF CreateSession, AccountsTypeOK
  <2> QED BY <1>4, <1>p, <2>1, <2>2, <2>3 DEF CreateSession, ErasedParts, OneUser
<1>5. ASSUME NEW b \in Callbacks, RefuseCallback(b) \/ AuditSignIn(b) PROVE ErasedParts'
  <2>1. /\ UNCHANGED <<goals, important, hidden, request, erased>>
        /\ \A a \in Callbacks \ {b} : session'[a] = session[a]
        /\ session'[b] \in {session[b], "none"}
    <3>1. UNCHANGED <<goals, important, hidden, request, erased>>
      BY <1>5 DEF RefuseCallback, AuditSignIn
    <3>2. session' = session \/ session' = [session EXCEPT ![b] = "none"]
      BY <1>5 DEF RefuseCallback, AuditSignIn, AuditFails
    <3>3. CASE session' = [session EXCEPT ![b] = "none"]
      BY <3>1, <3>3 DEF AccountsTypeOK
    <3>4. CASE session' = session
      BY <3>1, <3>4
    <3> QED BY <3>2, <3>3, <3>4
  <2>2. /\ callback'[b].pc \in {"refused", "signedIn"} /\ callback'[b].user = callback[b].user
        /\ callback'[b].pc = "signedIn" => callback[b].pc = "created"
    BY <1>5, CallbackMoves
  <2>3. \A a \in Callbacks \ {b} : callback'[a] = callback[a] /\ session'[a] = session[a]
    BY <1>5, <2>1, CallbackMoves
  <2> QED BY <1>p, <2>1, <2>2, <2>3 DEF ErasedParts, OneUser, SessionsAreCreated, ErasedStaysErased
<1> QED BY <1>1, <1>2, <1>3, <1>4, <1>5 DEF SignIn

\* A request goes on, with what it was authorized for, or ends.
LEMMA RequestMoves ==
  ASSUME AccountsTypeOK, NEW h \in Requests,
         Ended(h) \/ request' = [request EXCEPT ![h].pc = "found"]
  PROVE  \A g \in Requests : \/ request'[g] = NoRequest
                            \/ /\ request'[g].op = request[g].op
                               /\ request'[g].user = request[g].user
BY DEF Ended, AccountsTypeOK, RequestStates

\* A request moves to "found" from an ignore or a snooze.
LEMMA FoundStep == AccountsTypeOK /\ FoundHides /\ AccountsNext => FoundHides'
<1> SUFFICES ASSUME AccountsTypeOK, FoundHides, AccountsNext PROVE FoundHides'
  OBVIOUS
<1> USE DEF AccountsTypeOK, FoundHides
<1>e. ASSUME NEW h \in Requests, Ended(h) PROVE FoundHides'
  BY <1>e DEF Ended, NoRequest
<1>1. CASE AskServer
  <2>1. PICK h \in Requests, b \in Callbacks, op \in Ops, p \in PullRequests : BeginRequest(h, b, op, p)
    BY <1>1 DEF AskServer
  <2> QED BY <2>1 DEF BeginRequest
<1>2. ASSUME NEW h \in Requests, FindPullRequestToHide(h) PROVE FoundHides'
  <2>1. request' = [request EXCEPT ![h].pc = "found"] \/ Ended(h)
    BY <1>2 DEF FindPullRequestToHide
  <2>2. request[h].op \in {"ignore", "snooze"}
    BY <1>2 DEF FindPullRequestToHide, Runs
  <2> QED BY <1>e, <2>1, <2>2 DEF RequestStates
<1>3. ASSUME NEW h \in Requests,
             \/ Mark(h) \/ HidePullRequest(h) \/ Restore(h) \/ SetGoalPreferences(h) \/ Logout(h)
             \/ RequestFails(h) \/ DeleteAccountData(h)
      PROVE  FoundHides'
  <2>1. Ended(h)
    BY <1>3 DEF Mark, HidePullRequest, Restore, SetGoalPreferences, Logout, RequestFails,
                DeleteAccountData
  <2> QED BY <1>e, <2>1
<1>4. CASE SignIn
  <2>1. UNCHANGED request
    BY <1>4 DEF SignIn, Login, BeginCallback, Authenticate, CreateSession, AuditSignIn,
                RefuseCallback, signInFrame
  <2> QED BY <2>1
<1>5. CASE Halt
  BY <1>5 DEF Halt, NoRequest
<1>6. CASE Expire \/ RunRetention \/ \E b \in Callbacks : DropSession(b)
  <2>1. UNCHANGED request
    BY <1>6 DEF Expire, RunRetention, DropSession, handlers
  <2> QED BY <2>1
<1>7. CASE \/ \E prs \in SUBSET PullRequests : PublishBatch(prs) \/ PublishPullRequests(prs)
           \/ \E next \in Policies, lists \in BOOLEAN : Reload(next, lists)
  <2>1. UNCHANGED request
    BY <1>7 DEF PublishBatch, PublishPullRequests, Reload, handlers
  <2> QED BY <2>1
<1> QED
  BY <1>1, <1>2, <1>3, <1>4, <1>5, <1>6, <1>7 DEF AccountsNext, OtherAccountsSteps, Handle

\* Only a live session begins a request, and a deleted user has none; what runs
\* already and writes is of nobody whose data was deleted.
LEMMA ErasedRequestStep ==
  ASSUME AccountsTypeOK, FoundHides, ErasedParts,
         AskServer \/ \E h \in Requests : Handle(h) \/ DeleteAccountData(h)
  PROVE  ErasedParts'
<1> USE DEF requestFrame, config, marks
<1>1. CASE AskServer
  <2>1. PICK h \in Requests, b \in Callbacks, op \in Ops, p \in PullRequests : BeginRequest(h, b, op, p)
    BY <1>1 DEF AskServer
  <2>2. UNCHANGED <<callback, session, important, hidden, goals, erased>>
    BY <2>1 DEF BeginRequest
  <2>3. /\ \A g \in Requests \ {h} : request'[g] = request[g]
        /\ request'[h].user = callback[b].user
    BY <2>1 DEF BeginRequest, AccountsTypeOK
  <2>4. callback[b].user \cap erased = {}
    BY <2>1 DEF BeginRequest, ErasedParts, ErasedStaysErased, OneUser
  <2>5. OneUser'
    BY <2>2, <2>3 DEF ErasedParts, OneUser
  <2>6. NobodyWritesErased'
    BY <2>2, <2>3, <2>4 DEF ErasedParts, NobodyWritesErased
  <2> QED BY <2>2, <2>5, <2>6 DEF ErasedParts, SessionsAreCreated, ErasedStaysErased
\* A request that writes marks or goals writes those of its user.
<1>w. ASSUME NEW h \in Requests, request[h].op \in WritingOps, Ended(h),
             UNCHANGED <<callback, session, erased>>,
             goals' \subseteq goals \cup request[h].user,
             \A k \in important' \ important : k[1] \in request[h].user,
             \A k \in Keys : k[1] \notin request[h].user => hidden'[k] = hidden[k]
      PROVE  ErasedParts'
  <2>1. request[h].user \cap erased = {}
    BY <1>w DEF ErasedParts, NobodyWritesErased
  <2>2. OneUser' /\ NobodyWritesErased'
    BY <1>w, RequestMoves, HandlerTypes DEF ErasedParts, OneUser, NobodyWritesErased, WritingOps
  <2>3. \A u \in erased, p \in PullRequests : <<u, p>> \in Keys
    BY DEF AccountsTypeOK, Keys
  <2>4. ErasedStaysErased'
    BY <1>w, <2>1, <2>3 DEF ErasedParts, ErasedStaysErased
  <2> QED BY <1>w, <2>2, <2>4 DEF ErasedParts, SessionsAreCreated
<1>2. ASSUME NEW h \in Requests, Mark(h) PROVE ErasedParts'
  BY <1>2, <1>w DEF Mark, Marked, KeysOf, Runs, WritingOps
<1>3. ASSUME NEW h \in Requests, FindPullRequestToHide(h) PROVE ErasedParts'
  BY <1>3, RequestMoves, ErasedFrame DEF FindPullRequestToHide
<1>4. ASSUME NEW h \in Requests, HidePullRequest(h) PROVE ErasedParts'
  BY <1>4, <1>w DEF HidePullRequest, KeysOf, WritingOps, FoundHides
<1>5. ASSUME NEW h \in Requests, Restore(h) PROVE ErasedParts'
  <2>1. \A k \in Keys : hidden[k] = "shown" => hidden'[k] = "shown"
    BY <1>5 DEF Restore
  <2> QED BY <1>5, <2>1, RequestMoves, ErasedFrame DEF Restore
<1>6. ASSUME NEW h \in Requests, SetGoalPreferences(h) PROVE ErasedParts'
  BY <1>6, <1>w DEF SetGoalPreferences, Runs, WritingOps
<1>7. ASSUME NEW h \in Requests, Logout(h) \/ RequestFails(h) PROVE ErasedParts'
  <2>1. \A b \in Callbacks : session[b] = "none" => session'[b] = "none"
    BY <1>7 DEF Logout, RequestFails
  <2> QED BY <1>7, <2>1, RequestMoves, ErasedFrame DEF Logout, RequestFails
<1>8. ASSUME NEW h \in Requests, DeleteAccountData(h) PROVE ErasedParts'
  <2>1. /\ UNCHANGED callback /\ Ended(h)
        /\ goals' = goals \ request[h].user
        /\ \A k \in important' : k \in important /\ k[1] \notin request[h].user
        /\ \A k \in Keys : hidden'[k] = IF k[1] \in request[h].user THEN "shown" ELSE hidden[k]
    BY <1>8 DEF DeleteAccountData
  <2>2. \A b \in Callbacks :
          session'[b] = IF callback[b].user = request[h].user THEN "none" ELSE session[b]
    BY <1>8 DEF DeleteAccountData, SessionsDeleted
  <2>3. OneUser' /\ SessionsAreCreated'
    BY <2>1, <2>2, RequestMoves, HandlerTypes DEF ErasedParts, OneUser, SessionsAreCreated
  <2>4. /\ erased' \subseteq erased \cup request[h].user
        /\ erased' # erased => \A g \in Requests \ {h} :
             request[g].op \in WritingOps => request[g].user # request[h].user
    BY <1>8 DEF DeleteAccountData
  <2>5. request'[h].op = "list" /\ \A g \in Requests \ {h} : request'[g] = request[g]
    BY <2>1, HandlerTypes DEF Ended, AccountsTypeOK
  <2>6. NobodyWritesErased'
    <3> SUFFICES ASSUME NEW g \in Requests \ {h}, request[g].op \in WritingOps,
                        NEW u \in request[g].user, u \in erased'
                 PROVE  FALSE
      BY <2>5 DEF NobodyWritesErased, WritingOps
    <3>1. u \notin erased
      BY DEF ErasedParts, NobodyWritesErased
    <3>2. u \in request[h].user
      BY <2>4, <3>1
    <3>3. request[g].user = request[h].user
      <4>1. \A x \in Requests : u \in request[x].user => request[x].user = {u}
        BY DEF ErasedParts, OneUser
      <4> QED BY <3>2, <4>1
    <3> QED BY <2>4, <3>1, <3>3
  <2>7. \A u \in erased', p \in PullRequests : <<u, p>> \in Keys
    BY <2>4 DEF AccountsTypeOK, Keys, RequestStates
  <2>8. ErasedStaysErased'
    <3> SUFFICES ASSUME NEW u \in erased'
                 PROVE  /\ u \notin goals'
                        /\ \A p \in PullRequests : <<u, p>> \notin important' /\ hidden'[<<u, p>>] = "shown"
                        /\ \A b \in Callbacks : callback[b].user = {u} => session'[b] = "none"
      BY <2>1 DEF ErasedStaysErased
    <3>1. CASE u \in request[h].user
      <4>1. request[h].user = {u}
        BY <3>1 DEF ErasedParts, OneUser
      <4> QED BY <2>1, <2>2, <2>7, <4>1
    <3>2. CASE u \in erased
      BY <2>1, <2>2, <2>7, <3>2 DEF ErasedParts, ErasedStaysErased
    <3> QED BY <2>4, <3>1, <3>2
  <2> QED BY <2>3, <2>6, <2>8 DEF ErasedParts
<1> QED BY <1>1, <1>2, <1>3, <1>4, <1>5, <1>6, <1>7, <1>8 DEF Handle

\* Time, publications, reloads and restarts.
LEMMA ErasedMaintenanceStep ==
  ASSUME AccountsTypeOK, ErasedParts,
         \/ Expire \/ RunRetention \/ Halt
         \/ \E b \in Callbacks : DropSession(b)
         \/ \E prs \in SUBSET PullRequests : PublishBatch(prs) \/ PublishPullRequests(prs)
         \/ \E next \in Policies, lists \in BOOLEAN : Reload(next, lists)
  PROVE  ErasedParts'
<1> USE DEF handlers, config, marks, AccountsTypeOK
<1>1. CASE Expire \/ RunRetention \/ \E b \in Callbacks : DropSession(b)
  <2>1. UNCHANGED <<callback, request, erased, goals, important, hidden>>
    BY <1>1 DEF Expire, RunRetention, DropSession, requestFrame
  <2>2. \A b \in Callbacks : session[b] = "none" => session'[b] = "none"
    BY <1>1 DEF Expire, RunRetention, DropSession
  <2> QED BY <2>1, <2>2, ErasedFrame
<1>2. ASSUME NEW prs \in SUBSET PullRequests, PublishBatch(prs) \/ PublishPullRequests(prs)
      PROVE  ErasedParts'
  <2>1. \A k \in Keys : hidden[k] = "shown" => hidden'[k] = "shown"
    BY <1>2 DEF PublishBatch, PublishPullRequests, Kept
  <2> QED BY <1>2, <2>1, ErasedFrame DEF PublishBatch, PublishPullRequests, Kept
<1>3. ASSUME NEW next \in Policies, NEW lists \in BOOLEAN, Reload(next, lists)
      PROVE  ErasedParts'
  <2>1. \A k \in Keys : hidden[k] = "shown" => hidden'[k] = "shown"
    BY <1>3 DEF Reload, Kept
  <2> QED BY <1>3, <2>1, ErasedFrame DEF Reload, Kept
<1>4. CASE Halt
  <2>1. UNCHANGED <<session, erased, goals, important, hidden>>
    BY <1>4 DEF Halt
  <2>2. \A h \in Requests : request'[h] = NoRequest
    BY <1>4 DEF Halt
  <2>3. \A b \in Callbacks : /\ callback'[b].user = callback[b].user
                             /\ callback'[b].pc \in {callback[b].pc, "refused"}
    <3>1. \A b \in Callbacks : callback'[b] \in {callback[b], [callback[b] EXCEPT !.pc = "refused"]}
      BY <1>4 DEF Halt
    <3>2. \A c \in LoginStates : /\ [c EXCEPT !.pc = "refused"].user = c.user
                                /\ [c EXCEPT !.pc = "refused"].pc = "refused"
      BY DEF LoginStates
    <3>3. \A b \in Callbacks : callback[b] \in LoginStates
      BY DEF AccountsTypeOK
    <3>4. ASSUME NEW b \in Callbacks
          PROVE  /\ callback'[b].user = callback[b].user
                 /\ callback'[b].pc \in {callback[b].pc, "refused"}
      <4> DEFINE c == callback[b]
      <4>1. c \in LoginStates /\ callback'[b] \in {c, [c EXCEPT !.pc = "refused"]}
        BY <3>1, <3>3
      <4>2. [c EXCEPT !.pc = "refused"].user = c.user /\ [c EXCEPT !.pc = "refused"].pc = "refused"
        BY <3>2, <4>1
      <4> HIDE DEF c
      <4>3. callback'[b].user = c.user /\ callback'[b].pc \in {c.pc, "refused"}
        BY <4>1, <4>2
      <4> QED BY <4>3 DEF c
    <3> QED BY <3>4
  <2>4. /\ OneUser'
        /\ SessionsAreCreated'
        /\ NobodyWritesErased'
    <3>1. OneUser'
      BY <2>2, <2>3, HandlerTypes DEF ErasedParts, OneUser
    <3>2. SessionsAreCreated'
      BY <2>1, <2>3 DEF ErasedParts, SessionsAreCreated
    <3>3. NobodyWritesErased'
      <4>1. \A h \in Requests : request'[h].op \notin WritingOps
        BY <2>2 DEF NoRequest, WritingOps
      <4> QED BY <4>1 DEF NobodyWritesErased
    <3> QED BY <3>1, <3>2, <3>3
  <2>5. ErasedStaysErased'
    BY <2>1, <2>3 DEF ErasedParts, ErasedStaysErased
  <2> QED BY <2>4, <2>5 DEF ErasedParts
<1> QED BY <1>1, <1>2, <1>3, <1>4

\* Every step of Accounts.
LEMMA ErasedStep == AccountsTypeOK /\ FoundHides /\ ErasedParts /\ AccountsNext => ErasedParts'
BY ErasedSignInStep, ErasedRequestStep, ErasedMaintenanceStep DEF AccountsNext, OtherAccountsSteps

\* Whatever takes a pull request from the collection takes its marks along.
LEMMA MarksStep == AccountsTypeOK /\ MarksFollowMembership /\ AccountsNext => MarksFollowMembership'
<1> SUFFICES ASSUME AccountsTypeOK, MarksFollowMembership, AccountsNext PROVE MarksFollowMembership'
  OBVIOUS
<1> USE DEF marks, config, handlers, requestFrame, signInFrame, MarksFollowMembership
<1>1. CASE SignIn \/ Expire \/ RunRetention \/ Halt \/ AskServer \/ \E b \in Callbacks : DropSession(b)
  <2>1. UNCHANGED <<important, hidden, shown, late>>
    BY <1>1 DEF SignIn, Login, BeginCallback, Authenticate, CreateSession, AuditSignIn, RefuseCallback,
                Expire, RunRetention, Halt, AskServer, BeginRequest, DropSession
  <2> QED BY <2>1
<1>2. ASSUME NEW h \in Requests, Mark(h) PROVE MarksFollowMembership'
  BY <1>2 DEF Mark, Marked
<1>3. ASSUME NEW h \in Requests, HidePullRequest(h) PROVE MarksFollowMembership'
  <2>1. UNCHANGED <<important, shown>> /\ late \subseteq late'
    BY <1>3 DEF HidePullRequest
  <2>2. \A k \in Keys : hidden'[k] = hidden[k] \/ k[2] \in shown \/ k \in late'
    BY <1>3 DEF HidePullRequest
  <2> QED BY <2>1, <2>2
<1>4. ASSUME NEW h \in Requests, Restore(h) PROVE MarksFollowMembership'
  BY <1>4 DEF Restore
<1>5. ASSUME NEW h \in Requests, DeleteAccountData(h) PROVE MarksFollowMembership'
  BY <1>5 DEF DeleteAccountData
<1>6. ASSUME NEW h \in Requests,
             FindPullRequestToHide(h) \/ SetGoalPreferences(h) \/ Logout(h) \/ RequestFails(h)
      PROVE  MarksFollowMembership'
  <2>1. UNCHANGED <<important, hidden, shown, late>>
    BY <1>6 DEF FindPullRequestToHide, SetGoalPreferences, Logout, RequestFails
  <2> QED BY <2>1
<1>7. ASSUME NEW prs \in SUBSET PullRequests, PublishBatch(prs) PROVE MarksFollowMembership'
  BY <1>7 DEF PublishBatch
<1>8. ASSUME NEW prs \in SUBSET PullRequests, PublishPullRequests(prs) PROVE MarksFollowMembership'
  BY <1>8 DEF PublishPullRequests, Kept
<1>9. ASSUME NEW next \in Policies, NEW lists \in BOOLEAN, Reload(next, lists)
      PROVE  MarksFollowMembership'
  BY <1>9 DEF Reload, Kept
<1> QED
  BY <1>1, <1>2, <1>3, <1>4, <1>5, <1>6, <1>7, <1>8, <1>9 DEF AccountsNext, OtherAccountsSteps, Handle

\* Nobody has signed in, and nothing is marked.
LEMMA AccountsInvInit == AccountsInit => AccountsInv
<1> SUFFICES ASSUME AccountsInit PROVE AccountsInv
  OBVIOUS
<1>1. AccountsTypeOK
  BY AccountsTypeInit
<1>2. /\ \A b \in Callbacks : /\ callback[b].pc = "idle" /\ callback[b].flow = {} /\ callback[b].user = {}
                           /\ session[b] = "none"
      /\ \A h \in Requests : request[h] = NoRequest
      /\ \A k \in Keys : hidden[k] = "shown"
      /\ important = {} /\ erased = {}
  BY HandlerTypes DEF AccountsInit
<1> QED
  BY <1>1, <1>2, HandlerTypes
  DEF AccountsInv, FoundHides, FlowsAreConsumed, LoginIsOnce, OneUser, SessionsAreCreated,
      NobodyWritesErased, ErasedStaysErased, MarksFollowMembership, NoRequest

\* A step of the accounts keeps every part of their invariant.
LEMMA AccountsInvStep == AccountsInv /\ AccountsNext => AccountsInv'
BY AccountsTypeStep, FoundStep, FlowStep, ErasedStep, MarksStep DEF AccountsInv, ErasedParts

\* A step that leaves the accounts alone keeps it too.
LEMMA AccountsInvStutter == AccountsInv /\ UNCHANGED accountVars => AccountsInv'
BY DEF accountVars, config, marks, AccountsInv, AccountsTypeOK, FoundHides, FlowsAreConsumed,
       LoginIsOnce, OneUser, SessionsAreCreated, NobodyWritesErased, ErasedStaysErased,
       MarksFollowMembership

-----------------------------------------------------------------------------
(* Progress: the inductive invariant *)

Collections == [at : Times, cutoff : Times, got : SUBSET Activities,
                thread : {"unseen", "open", "resolved"}, left : SUBSET Numbers]

\* The tables account for an activity: recorded, deleted by its actor, or
\* skipped while a collection took longer than the overlap.
AccountedFor(a) == a \in events \cup forgotten \/ occurred[a] \in missed

\* A collection started from the checkpoint of the tables, and what happened
\* before it is accounted for, collected, or on a timeline it has yet to read.
CollectionCovers ==
  collection # Nothing =>
    /\ staged = Nothing
    /\ collection.at <= clock
    /\ collection.cutoff = Cutoff(checkpoint)
    /\ \A a \in Activities : occurred[a] < collection.at =>
         \/ AccountedFor(a)
         \/ a \in collection.got
         \/ PullRequestOf[a] \in collection.left /\ collection.cutoff <= occurred[a]

\* A staged payload has all that a collection after it does not look at, but for
\* what its own publication will call skipped.
PayloadCovers ==
  staged # Nothing =>
    /\ staged.at <= clock
    /\ \A a \in Activities : occurred[a] < Cutoff(staged.at) =>
         \/ AccountedFor(a)
         \/ a \in staged.got
         \/ staged.began <= occurred[a] /\ occurred[a] + Overlap < staged.at

ProgressInv ==
  /\ ProgressTypeOK
  /\ checkpoint <= clock
  /\ CollectionCovers /\ PayloadCovers /\ OnlySlowCollectionsMiss

ProgressNext ==
  \/ Tick \/ ResolveOrReopen \/ CollectProgress
  \/ \E a \in Activities : Happen(a)

-----------------------------------------------------------------------------
(* Progress: times and types *)

\* A cutoff is a time, no later than the checkpoint it comes from, and what lies
\* before it lies more than an overlap before the checkpoint.
LEMMA Cutoffs ==
  \A t \in Times : /\ Cutoff(t) \in Times /\ Cutoff(t) <= t
                   /\ \A o \in Nat : o < Cutoff(t) => o + Overlap < t
BY HorizonAssumption DEF Cutoff, Times

\* What happened has a time; what did not happen lies after every time.
LEMMA Occurrences ==
  ProgressTypeOK => \A a \in Activities : /\ occurred[a] \in Nat
                                          /\ \A t \in Times : occurred[a] < t => occurred[a] \in Times
BY HorizonAssumption DEF ProgressTypeOK, Times, Never

\* The parts of a collection and of a payload under way.
LEMMA Underway ==
  ProgressTypeOK => /\ collection # Nothing => collection \in Collections
                    /\ staged # Nothing => staged \in Payload
BY DEF ProgressTypeOK, Collections

\* ReadTimeline's collection, by its fields.
LEMMA ReadTimelineFields ==
  ASSUME ProgressTypeOK, NEW n \in Numbers, ReadTimeline(n)
  PROVE  /\ collection' \in Collections
         /\ collection'.at = collection.at /\ collection'.cutoff = collection.cutoff
         /\ collection'.left = collection.left \ {n}
         /\ collection'.got = collection.got
              \cup {a \in Activities : /\ PullRequestOf[a] = n
                                       /\ occurred[a] \in collection.cutoff .. clock}
<1> DEFINE left == collection.left \ {n}
           got == collection.got \cup {a \in Activities : /\ PullRequestOf[a] = n
                                                          /\ occurred[a] \in collection.cutoff .. clock}
           thread == IF n # ThreadOn THEN collection.thread ELSE IF resolved THEN "resolved" ELSE "open"
<1>1. collection \in Collections
  BY Underway DEF ReadTimeline
<1>2. left \in SUBSET Numbers /\ got \in SUBSET Activities /\ thread \in {"unseen", "open", "resolved"}
  BY <1>1 DEF Collections
<1>3. collection' = [collection EXCEPT !.left = left, !.got = got, !.thread = thread]
  BY DEF ReadTimeline
<1> HIDE DEF left, got, thread
<1>4. /\ collection' \in Collections
      /\ collection'.at = collection.at /\ collection'.cutoff = collection.cutoff
      /\ collection'.left = left /\ collection'.got = got
  BY <1>1, <1>2, <1>3 DEF Collections
<1> QED BY <1>4 DEF left, got

\* The progress tables have their types at the start.
LEMMA ProgressTypeInit == ProgressInit => ProgressTypeOK
<1>1. 0 \in Times
  BY HorizonAssumption DEF Times
<1> QED BY <1>1 DEF ProgressInit, ProgressTypeOK

\* A payload and a collection carry activities and times.
LEMMA ProgressTypeStep == ProgressTypeOK /\ ProgressNext => ProgressTypeOK'
<1> SUFFICES ASSUME ProgressTypeOK, ProgressNext PROVE ProgressTypeOK'
  OBVIOUS
<1> USE DEF ProgressTypeOK, github, tables
<1>1. CASE Tick
  BY <1>1, HorizonAssumption DEF Tick, Times
<1>2. CASE ResolveOrReopen
  BY <1>2 DEF ResolveOrReopen
<1>3. ASSUME NEW a \in Activities, Happen(a) PROVE ProgressTypeOK'
  BY <1>3 DEF Happen
<1>4. CASE ListCandidates
  BY <1>4, Cutoffs DEF ListCandidates
<1>5. ASSUME NEW n \in Numbers, ReadTimeline(n) PROVE ProgressTypeOK'
  <2>1. collection' \in Collections
    BY <1>5, ReadTimelineFields
  <2> QED BY <1>5, <2>1 DEF ReadTimeline, Collections
<1>6. CASE StageProgress
  <2>1. collection \in Collections
    BY <1>6, Underway DEF StageProgress
  <2>2. staged' \in Payload
    BY <1>6, <2>1 DEF StageProgress, Payload, Collections
  <2> QED BY <1>6, <2>2 DEF StageProgress
<1>7. CASE LoseCollection
  BY <1>7 DEF LoseCollection
<1>8. CASE RecordProgressSnapshot
  <2>1. staged \in Payload
    BY <1>8, Underway DEF RecordProgressSnapshot
  <2>2. /\ staged.at \in Times /\ staged.got \subseteq Activities
        /\ staged.thread \in {"unseen", "open", "resolved"}
    BY <2>1 DEF Payload
  <2>3. events' \subseteq Rows
    BY <1>8, <2>2 DEF RecordProgressSnapshot, Transition, Checkpoint, Rows
  <2> QED BY <1>8, <2>2, <2>3 DEF RecordProgressSnapshot, Checkpoint
<1> QED BY <1>1, <1>2, <1>3, <1>4, <1>5, <1>6, <1>7, <1>8 DEF ProgressNext, CollectProgress

-----------------------------------------------------------------------------
(* Progress: what a later collection does not look at *)

\* The first collection looks at everything.
LEMMA ProgressInvInit == ProgressInit => ProgressInv
<1> SUFFICES ASSUME ProgressInit PROVE ProgressInv
  OBVIOUS
<1>1. ProgressTypeOK /\ Cutoff(checkpoint) = 0
  BY ProgressTypeInit, HorizonAssumption DEF ProgressInit, Cutoff
<1>2. OnlySlowCollectionsMiss
  BY <1>1, Occurrences DEF OnlySlowCollectionsMiss
<1> QED BY <1>1, <1>2 DEF ProgressInit, ProgressInv, CollectionCovers, PayloadCovers

\* Nothing of the tables is forgotten without a trace: what is accounted for
\* stays so, unless it happens only now.
LEMMA AccountedForStays ==
  ASSUME NEW a \in Activities, AccountedFor(a), occurred'[a] = occurred[a],
         events \cup forgotten \subseteq events' \cup forgotten', missed \subseteq missed'
  PROVE  AccountedFor(a)'
BY DEF AccountedFor

\* Time goes on, and what happens now lies after every cutoff.
LEMMA GitHubStep ==
  ASSUME ProgressInv, Tick \/ ResolveOrReopen \/ \E a \in Activities : Happen(a)
  PROVE  ProgressInv'
<1>1. /\ UNCHANGED <<events, forgotten, missed, checkpoint, staged, collection>>
      /\ clock <= clock' /\ ProgressTypeOK /\ ProgressTypeOK'
  <2>1. ProgressTypeOK /\ ProgressTypeOK'
    BY ProgressTypeStep DEF ProgressNext, ProgressInv
  <2> QED BY <2>1, HorizonAssumption DEF Tick, ResolveOrReopen, Happen, ProgressTypeOK, Times
<1>2. \A a \in Activities : occurred'[a] = occurred[a] \/ occurred'[a] = clock
  <2>1. CASE Tick \/ ResolveOrReopen
    BY <2>1 DEF Tick, ResolveOrReopen
  <2>2. CASE \E a \in Activities : Happen(a)
    BY <1>1, <2>2 DEF Happen, ProgressTypeOK
  <2> QED BY <2>1, <2>2
<1>3. \A t \in Times : t <= clock =>
        \A a \in Activities : occurred'[a] < t => occurred'[a] = occurred[a]
  BY <1>1, <1>2, HorizonAssumption DEF ProgressTypeOK, Times
<1>4. Cutoff(checkpoint) \in Times /\ Cutoff(checkpoint) <= clock
  BY <1>1, Cutoffs, HorizonAssumption DEF ProgressInv, ProgressTypeOK, Times
<1>5. OnlySlowCollectionsMiss'
  <2>1. ASSUME NEW a \in Activities, occurred'[a] < Cutoff(checkpoint)
        PROVE  occurred'[a] = occurred[a]
    BY <1>3, <1>4, <2>1
  <2> QED BY <1>1, <2>1 DEF ProgressInv, OnlySlowCollectionsMiss, Cutoff
<1>6. CollectionCovers'
  <2> SUFFICES ASSUME collection # Nothing
               PROVE  CollectionCovers'
    BY <1>1 DEF CollectionCovers
  <2>1. collection.at \in Times /\ collection.at <= clock
    BY <1>1, Underway DEF Collections, ProgressInv, CollectionCovers
  <2>2. \A a \in Activities : occurred'[a] < collection.at => occurred'[a] = occurred[a]
    BY <1>3, <2>1
  <2>3. collection.at <= clock'
    BY <1>1, <2>1, HorizonAssumption DEF ProgressTypeOK, Times
  <2> QED BY <1>1, <2>2, <2>3 DEF ProgressInv, CollectionCovers, AccountedFor, Cutoff
<1>7. PayloadCovers'
  <2> SUFFICES ASSUME staged # Nothing
               PROVE  PayloadCovers'
    BY <1>1 DEF PayloadCovers
  <2>1. staged.at \in Times /\ staged.at <= clock
    BY <1>1, Underway DEF Payload, ProgressInv, PayloadCovers
  <2>2. Cutoff(staged.at) \in Times /\ Cutoff(staged.at) <= clock
    BY <1>1, <2>1, Cutoffs, HorizonAssumption DEF ProgressTypeOK, Times
  <2>3. \A a \in Activities : occurred'[a] < Cutoff(staged.at) => occurred'[a] = occurred[a]
    BY <1>3, <2>2
  <2>4. staged.at <= clock'
    BY <1>1, <2>1, HorizonAssumption DEF ProgressTypeOK, Times
  <2> QED BY <1>1, <2>3, <2>4 DEF ProgressInv, PayloadCovers, AccountedFor, Cutoff
<1>8. (checkpoint <= clock)'
  BY <1>1, HorizonAssumption DEF ProgressInv, ProgressTypeOK, Times
<1> QED BY <1>1, <1>5, <1>6, <1>7, <1>8 DEF ProgressInv

\* A collection looks at everything from its cutoff on, and its payload covers
\* what happened before it began.
LEMMA CollectStep ==
  ASSUME ProgressInv, CollectProgress
  PROVE  ProgressInv'
<1>1. ProgressTypeOK /\ ProgressTypeOK'
  BY ProgressTypeStep DEF ProgressNext, ProgressInv
<1>2. CASE ListCandidates
  <2>1. /\ collection' = [at |-> clock, cutoff |-> Cutoff(checkpoint), got |-> {}, thread |-> "unseen",
                          left |-> {n \in Numbers : UpdatedSince(n, Cutoff(checkpoint))}]
        /\ staged = Nothing
        /\ UNCHANGED <<clock, occurred, events, checkpoint, forgotten, missed, staged>>
    BY <1>2 DEF ListCandidates, github, tables
  <2>2. /\ collection'.at = clock /\ collection'.cutoff = Cutoff(checkpoint)
        /\ collection'.left = {n \in Numbers : UpdatedSince(n, Cutoff(checkpoint))}
    BY <2>1
  <2>3. CollectionCovers'
    <3>1. ASSUME NEW a \in Activities, occurred[a] < clock, ~(occurred[a] < Cutoff(checkpoint))
          PROVE  PullRequestOf[a] \in collection'.left /\ Cutoff(checkpoint) <= occurred[a]
      <4>1. occurred[a] \in Nat /\ clock \in Nat /\ Cutoff(checkpoint) \in Nat
        BY <1>1, Occurrences, Cutoffs, HorizonAssumption DEF ProgressTypeOK, Times
      <4>2. occurred[a] \in Cutoff(checkpoint) .. clock /\ Cutoff(checkpoint) <= occurred[a]
        BY <3>1, <4>1
      <4> QED BY <2>2, <4>2 DEF UpdatedSince, Numbers
    <3>2. ASSUME NEW a \in Activities, occurred[a] < Cutoff(checkpoint)
          PROVE  AccountedFor(a)
      BY <3>2 DEF ProgressInv, OnlySlowCollectionsMiss, AccountedFor
    <3>3. clock <= clock
      BY <1>1, HorizonAssumption DEF ProgressTypeOK, Times
    <3> QED BY <2>1, <2>2, <3>1, <3>2, <3>3 DEF CollectionCovers, AccountedFor, Cutoff
  <2> QED BY <1>1, <2>1, <2>3 DEF ProgressInv, PayloadCovers, OnlySlowCollectionsMiss, Cutoff
<1>3. ASSUME NEW n \in Numbers, ReadTimeline(n) PROVE ProgressInv'
  <2>1. /\ UNCHANGED <<clock, occurred, events, checkpoint, forgotten, missed, staged>>
        /\ collection # Nothing /\ staged = Nothing /\ collection \in Collections
    BY <1>1, <1>3, Underway DEF ReadTimeline, github, tables, ProgressInv, CollectionCovers
  <2>2. /\ collection'.at = collection.at /\ collection'.cutoff = collection.cutoff
        /\ collection'.left = collection.left \ {n}
        /\ collection'.got = collection.got
             \cup {a \in Activities : /\ PullRequestOf[a] = n
                                      /\ occurred[a] \in collection.cutoff .. clock}
    BY <1>1, <1>3, ReadTimelineFields
  <2>3. CollectionCovers'
    <3>1. ASSUME NEW a \in Activities, occurred[a] < collection.at,
                 PullRequestOf[a] = n, collection.cutoff <= occurred[a]
          PROVE  a \in collection'.got
      <4>1. /\ collection.at \in Nat /\ collection.cutoff \in Nat
            /\ occurred[a] \in Nat /\ clock \in Nat /\ collection.at <= clock
        BY <1>1, <2>1, Occurrences, HorizonAssumption
        DEF ProgressTypeOK, Times, Collections, ProgressInv, CollectionCovers
      <4>2. occurred[a] \in collection.cutoff .. clock
        BY <3>1, <4>1
      <4> QED BY <2>2, <3>1, <4>2
    <3>2. /\ collection.at <= clock /\ collection.cutoff = Cutoff(checkpoint)
          /\ \A a \in Activities : occurred[a] < collection.at =>
               \/ AccountedFor(a)
               \/ a \in collection.got
               \/ PullRequestOf[a] \in collection.left /\ collection.cutoff <= occurred[a]
      BY <2>1 DEF ProgressInv, CollectionCovers
    <3>3. \A a \in Activities : occurred[a] < collection.at =>
            \/ AccountedFor(a)
            \/ a \in collection'.got
            \/ PullRequestOf[a] \in collection'.left /\ collection.cutoff <= occurred[a]
      BY <2>2, <3>1, <3>2
    <3> QED BY <2>1, <2>2, <3>2, <3>3 DEF CollectionCovers, AccountedFor, Cutoff
  <2> QED BY <1>1, <2>1, <2>3 DEF ProgressInv, PayloadCovers, OnlySlowCollectionsMiss, Cutoff
<1>4. CASE StageProgress
  <2>1. /\ UNCHANGED <<clock, occurred, events, checkpoint, forgotten, missed>>
        /\ collection \in Collections /\ collection.left = {} /\ collection # Nothing
        /\ collection' = Nothing
        /\ staged' = [at |-> clock, got |-> collection.got, thread |-> collection.thread,
                      began |-> collection.at]
    BY <1>1, <1>4, Underway DEF StageProgress, github, tables
  <2>2. staged'.at = clock /\ staged'.got = collection.got /\ staged'.began = collection.at
    BY <2>1
  <2>3. clock \in Times /\ clock <= clock /\ collection.at \in Nat
    BY <1>1, <2>1, HorizonAssumption DEF ProgressTypeOK, Times, Collections
  <2>4. ASSUME NEW a \in Activities, occurred[a] < Cutoff(clock)
        PROVE  \/ AccountedFor(a)
               \/ a \in collection.got
               \/ collection.at <= occurred[a] /\ occurred[a] + Overlap < clock
    <3>1. occurred[a] \in Nat /\ occurred[a] + Overlap < clock
      BY <1>1, <2>3, <2>4, Occurrences, Cutoffs
    <3>2. CASE occurred[a] < collection.at
      BY <2>1, <3>2 DEF ProgressInv, CollectionCovers
    <3>3. CASE ~(occurred[a] < collection.at)
      BY <2>3, <3>1, <3>3
    <3> QED BY <3>2, <3>3
  <2>5. PayloadCovers'
    BY <2>1, <2>2, <2>3, <2>4 DEF PayloadCovers, AccountedFor, Cutoff
  <2> QED BY <1>1, <2>1, <2>5 DEF ProgressInv, CollectionCovers, OnlySlowCollectionsMiss, Cutoff
<1>5. CASE LoseCollection
  <2>1. /\ UNCHANGED <<clock, occurred, events, checkpoint, forgotten, missed, staged>>
        /\ collection' = Nothing
    BY <1>5 DEF LoseCollection, github, tables
  <2> QED BY <1>1, <2>1
          DEF ProgressInv, CollectionCovers, PayloadCovers, OnlySlowCollectionsMiss, AccountedFor, Cutoff
<1>6. CASE RecordProgressSnapshot
  <2>1. /\ UNCHANGED <<clock, occurred, collection, forgotten>>
        /\ staged # Nothing /\ staged \in Payload /\ staged' \in {Nothing, staged}
        /\ checkpoint' = staged.at
        /\ events \cup staged.got \subseteq events'
        /\ missed' = missed \cup {t \in Times : staged.began <= t /\ t + Overlap < staged.at}
    BY <1>1, <1>6, Underway DEF RecordProgressSnapshot, github, Checkpoint
  <2>2. collection = Nothing /\ staged.at <= clock /\ staged.at \in Times
    BY <2>1 DEF ProgressInv, CollectionCovers, PayloadCovers, Payload
  <2>3. ASSUME NEW a \in Activities, AccountedFor(a)
        PROVE  AccountedFor(a)'
    BY <2>1, <2>3 DEF AccountedFor
  <2>4. ASSUME NEW a \in Activities, occurred[a] < Cutoff(staged.at)
        PROVE  AccountedFor(a)'
    <3>1. occurred[a] \in Times
      BY <1>1, <2>2, <2>4, Cutoffs, Occurrences
    <3>2. CASE AccountedFor(a)
      BY <2>3, <3>2
    <3>3. CASE a \in staged.got
      BY <2>1, <3>3 DEF AccountedFor
    <3>4. CASE staged.began <= occurred[a] /\ occurred[a] + Overlap < staged.at
      BY <2>1, <3>1, <3>4 DEF AccountedFor
    <3> QED BY <2>1, <2>4, <3>2, <3>3, <3>4 DEF ProgressInv, PayloadCovers
  <2>5. OnlySlowCollectionsMiss'
    <3>1. ASSUME NEW a \in Activities, occurred'[a] < Cutoff(checkpoint')
          PROVE  AccountedFor(a)'
      BY <2>1, <2>4, <3>1
    <3> QED BY <3>1 DEF OnlySlowCollectionsMiss, AccountedFor, Cutoff
  <2>6. PayloadCovers'
    <3>1. CASE staged' = Nothing
      BY <3>1 DEF PayloadCovers
    <3>2. CASE staged' = staged
      BY <2>1, <2>2, <2>4, <3>2 DEF PayloadCovers, Cutoff
    <3> QED BY <2>1, <3>1, <3>2
  <2>7. CollectionCovers' /\ checkpoint' <= clock'
    BY <2>1, <2>2 DEF CollectionCovers
  <2> QED BY <1>1, <2>5, <2>6, <2>7 DEF ProgressInv
<1> QED BY <1>2, <1>3, <1>4, <1>5, <1>6 DEF CollectProgress

\* Deleting one's data moves rows to the history of what was deleted.
LEMMA DeleteProgressStep ==
  ASSUME ProgressInv, NEW us, DeleteProgress(us)
  PROVE  ProgressInv'
<1>1. /\ UNCHANGED <<clock, occurred, resolved, observed, checkpoint, missed, staged, collection>>
      /\ events' \cup forgotten' = events \cup forgotten
      /\ events' \subseteq Rows /\ forgotten' \subseteq Rows
  BY DEF DeleteProgress, github, ProgressInv, ProgressTypeOK
<1>2. ProgressTypeOK'
  BY <1>1 DEF ProgressInv, ProgressTypeOK
<1>3. \A a \in Activities : AccountedFor(a) <=> AccountedFor(a)'
  BY <1>1 DEF AccountedFor
<1>4. OnlySlowCollectionsMiss'
  BY <1>1 DEF ProgressInv, OnlySlowCollectionsMiss, Cutoff
<1>5. CollectionCovers' /\ PayloadCovers'
  BY <1>1, <1>3 DEF ProgressInv, CollectionCovers, PayloadCovers, Cutoff
<1> QED BY <1>1, <1>2, <1>4, <1>5 DEF ProgressInv

\* A crash ends the collection under way, and nothing else here.
LEMMA CrashStep ==
  ASSUME ProgressInv, collection' = Nothing, UNCHANGED <<github, tables, staged>>
  PROVE  ProgressInv'
BY DEF github, tables, ProgressInv, ProgressTypeOK, CollectionCovers, PayloadCovers,
       OnlySlowCollectionsMiss, AccountedFor, Cutoff

\* A step that leaves the progress tables alone keeps their invariant.
LEMMA ProgressInvStutter == ProgressInv /\ UNCHANGED progressVars => ProgressInv'
BY DEF progressVars, ProgressInv, ProgressTypeOK, CollectionCovers, PayloadCovers,
       OnlySlowCollectionsMiss, AccountedFor, Cutoff

-----------------------------------------------------------------------------
(* The composition *)

Inv == AccountsInv /\ ProgressInv

\* Every step of the composition keeps both invariants: a deletion of personal
\* data and a crash are steps of both components, every other action of one of them.
LEMMA InvStep == Inv /\ [Next]_vars => Inv'
<1> SUFFICES ASSUME Inv, [Next]_vars PROVE Inv'
  OBVIOUS
<1>1. ASSUME AccountsNext, UNCHANGED progressVars PROVE Inv'
  BY <1>1, AccountsInvStep, ProgressInvStutter DEF Inv
<1>2. ASSUME ProgressNext, UNCHANGED accountVars PROVE Inv'
  BY <1>2, AccountsInvStutter, GitHubStep, CollectStep DEF Inv, ProgressNext
<1>3. CASE Serve
  <2>1. CASE AccountsStep(SignIn)
    BY <1>1, <2>1 DEF AccountsStep, AccountsNext
  <2>2. ASSUME NEW h \in Requests, AccountsStep(Handle(h)) PROVE Inv'
    BY <1>1, <2>2 DEF AccountsStep, AccountsNext, OtherAccountsSteps
  <2>3. ASSUME NEW h \in Requests, DeletePersonalData(h) PROVE Inv'
    <3>1. AccountsInv'
      BY <2>3, AccountsInvStep DEF DeletePersonalData, AccountsNext, OtherAccountsSteps, Inv
    <3>2. ProgressInv'
      BY <2>3, DeleteProgressStep DEF DeletePersonalData, Inv
    <3> QED BY <3>1, <3>2 DEF Inv
  <2> QED BY <1>3, <2>1, <2>2, <2>3 DEF Serve
<1>4. CASE AccountsStep(AskServer)
  BY <1>1, <1>4 DEF AccountsStep, AccountsNext, OtherAccountsSteps
<1>5. CASE Time
  BY <1>1, <1>2, <1>5 DEF Time, AccountsStep, ProgressStep, AccountsNext, ProgressNext
<1>6. CASE Maintenance
  BY <1>1, <1>6 DEF Maintenance, AccountsStep, AccountsNext, OtherAccountsSteps
<1>7. CASE Publications
  BY <1>1, <1>7 DEF Publications, AccountsStep, AccountsNext, OtherAccountsSteps
<1>8. CASE Reloads
  BY <1>1, <1>8 DEF Reloads, AccountsStep, AccountsNext, OtherAccountsSteps
<1>9. CASE OnGitHub \/ ProgressStep(CollectProgress)
  BY <1>2, <1>9 DEF OnGitHub, ProgressStep, ProgressNext
<1>10. CASE Crash
  <2>1. AccountsInv'
    BY <1>10, AccountsInvStep DEF Crash, AccountsNext, Inv
  <2>2. ProgressInv'
    BY <1>10, CrashStep DEF Crash, Inv
  <2> QED BY <2>1, <2>2 DEF Inv
<1>11. CASE UNCHANGED vars
  BY <1>11, AccountsInvStutter, ProgressInvStutter DEF Inv, vars
<1> QED
  BY <1>3, <1>4, <1>5, <1>6, <1>7, <1>8, <1>9, <1>10, <1>11 DEF Next

\* The inductive invariant of Personal holds in every reachable state.
THEOREM Invariance == Spec => []Inv
<1>1. Init => Inv
  BY AccountsInvInit, ProgressInvInit DEF Init, Inv
<1> QED BY <1>1, InvStep, PTL DEF Spec

\* Types: handlers, sessions, marks and payloads have the shapes the Store's
\* tables and the handlers' locals have.
THEOREM TypeCorrectness == Spec => []TypeOK
<1>1. Inv => TypeOK
  BY DEF Inv, AccountsInv, ProgressInv, TypeOK
<1> QED BY <1>1, Invariance, PTL

\* A login flow signs in at most once, and every cookie has its audit event,
\* however callbacks race, fail and are cut off (serveAuthCallback,
\* ConsumeAuthFlow, RecordAudit).
THEOREM LoginIsOnceHolds == Spec => []LoginIsOnce
<1>1. Inv => LoginIsOnce
  BY DEF Inv, AccountsInv
<1> QED BY <1>1, Invariance, PTL

\* What a user deleted stays deleted until the next sign-in (DeletePersonalData
\* against the handlers of the user's other browsers).
THEOREM ErasedStaysErasedHolds == Spec => []ErasedStaysErased
<1>1. Inv => ErasedStaysErased
  BY DEF Inv, AccountsInv
<1> QED BY <1>1, Invariance, PTL

\* Marks leave with the pull request, but for an ignore or a snooze that looked
\* it up before (PublishPullRequests, SyncCollections, SetPullRequestHidden).
THEOREM MarksFollowMembershipHolds == Spec => []MarksFollowMembership
<1>1. Inv => MarksFollowMembership
  BY DEF Inv, AccountsInv
<1> QED BY <1>1, Invariance, PTL

\* No collection, restarted or repeated, skips an activity, but one that takes
\* longer than the overlap (collectProgressEvents, RecordProgressSnapshot).
THEOREM OnlySlowCollectionsMissHolds == Spec => []OnlySlowCollectionsMiss
<1>1. Inv => OnlySlowCollectionsMiss
  BY DEF Inv, ProgressInv
<1> QED BY <1>1, Invariance, PTL
=============================================================================
