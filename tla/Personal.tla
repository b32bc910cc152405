------------------------------ MODULE Personal ------------------------------
(***************************************************************************)
(* A maintainer's private data as a whole: accounts and marks, and the     *)
(* progress that the refreshes of the repository record.  They meet in     *)
(* DeletePersonalData, which deletes both in one transaction, and in a     *)
(* crash, which ends the handlers and the collection under way.            *)
(***************************************************************************)
EXTENDS Accounts, Progress

vars == <<accountVars, progressVars>>

Init == AccountsInit /\ ProgressInit

AccountsStep(A) == A /\ UNCHANGED progressVars
ProgressStep(A) == A /\ UNCHANGED accountVars

DeletePersonalData(h) == DeleteAccountData(h) /\ DeleteProgress(request[h].user)

Crash ==
  /\ Halt
  /\ collection' = Nothing
  /\ UNCHANGED <<github, tables, staged>>

Serve ==
  \/ AccountsStep(SignIn)
  \/ \E h \in Requests : AccountsStep(Handle(h)) \/ DeletePersonalData(h)

Time == AccountsStep(Expire) \/ ProgressStep(Tick)
Maintenance ==
  \/ AccountsStep(RunRetention)
  \/ AccountsStep(\E b \in Callbacks : DropSession(b))
Publications == \E prs \in SUBSET PullRequests :
                  AccountsStep(PublishBatch(prs) \/ PublishPullRequests(prs))
Reloads == \E next \in Policies, lists \in BOOLEAN : AccountsStep(Reload(next, lists))
OnGitHub == ProgressStep(ResolveOrReopen \/ \E a \in Activities : Happen(a))

Next ==
  \/ Serve \/ AccountsStep(AskServer) \/ Time \/ Maintenance \/ Publications \/ Reloads
  \/ OnGitHub \/ ProgressStep(CollectProgress) \/ Crash

Spec == Init /\ [][Next]_vars

TypeOK == AccountsTypeOK /\ ProgressTypeOK
=============================================================================
