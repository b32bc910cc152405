------------------------------- MODULE Routing -------------------------------
(***************************************************************************)
(* How the scheduler and the evidence worker call GitHub: Router tries the *)
(* profiles of the repository's owner in order; the client of a GitHub App *)
(* caches one installation token for each repository under a mutex, which  *)
(* it holds while it asks GitHub for a new one; a request that meets a     *)
(* rate limit waits and is repeated within a budget.  Both workers share   *)
(* the clients, so their operations meet at the cache and at the mutex.    *)
(*                                                                         *)
(* Granularity.  One action for each return of an HTTP call, end of a wait *)
(* or hold of the mutex.  A call takes no time, but anything may happen    *)
(* before its answer; time passes in waits for rate limits.  One operation *)
(* for each caller and one repository: the mutex is the same for all.      *)
(***************************************************************************)
EXTENDS Naturals, Sequences

CONSTANTS Callers,     \* the jobs of the two workers
          Dated,       \* those of the scheduler, which give each attempt one deadline
          TimeoutOf,   \* TimeoutOf[o]: the job timeout of o's worker
          Profiles,    \* the types of the owner's profiles, in order
          Budget,      \* Options.RateLimitBudget
          MaxRetries,  \* Options.RateLimitMaxRetries
          Waits,       \* how long a rate limit may last
          RequestsOf,  \* RequestsOf[o]: the requests o makes with its token
          Horizon      \* bound: the clock stops here

App == "github_app"
PAT == "fine_grained_pat"

ASSUME CallersAssumption == Dated \subseteq Callers /\ TimeoutOf \in [Callers -> Nat]
ASSUME ProfilesAssumption == Profiles \in Seq({App, PAT}) /\ Profiles # <<>>
ASSUME NumbersAssumption ==
  /\ Budget \in Nat /\ MaxRetries \in Nat /\ Waits \subseteq Nat
  /\ RequestsOf \in [Callers -> Nat \ {0}] /\ Horizon \in Nat
\* The evidence worker's job timeout, five minutes, is within the budget, ten:
\* serve sets neither, so both have their defaults.
ASSUME TimeoutsAssumption == \A o \in Callers \ Dated : TimeoutOf[o] <= Budget

VARIABLES
  clock,
  issued,    \* issued[p]: installation tokens GitHub has issued to profile p, by number
  revoked,   \* revoked[p]: GitHub refuses the tokens up to this one
  tokens,    \* Client.tokens[p]: the cached token with five minutes to live, 0 for none
  mutex,     \* Client.tokenMu[p]: who holds it and, behind, who waits for it
  operation, \* the call that each caller is in
  due,       \* due[o]: when o's context is done
  known      \* history: the tokens issued when GitHub first refused o's token

client == <<tokens, mutex>>
github == <<issued, revoked>>
vars == <<clock, github, client, operation, due, known>>

-----------------------------------------------------------------------------

Indexes == DOMAIN Profiles
StaticToken == 0

\* A call: what it does or waits for, the kind of request it is about, its
\* profile, whether it is the second attempt there, and the state of doRequest.
\* History: since when it waits for the mutex.
Call == [pc : {"idle", "locking", "calling", "sleeping", "ended"},
         goal : {"access", "token", "data", "evict"},
         profile : Indexes, again : BOOLEAN, credential : Nat, answered : Nat,
         retries : 0..MaxRetries, until : Nat, limit : Nat, since : Nat]
Idle == [pc |-> "idle", goal |-> "access", profile |-> 1, again |-> FALSE,
         credential |-> StaticToken, answered |-> 0, retries |-> 0, until |-> 0, limit |-> 0,
         since |-> 0]

\* canAdvance holds of denials and invalid credentials.
Advancing == {"permission_missing", "credential_invalid"}
Failures == Advancing \cup {"rate_limited", "github_unavailable"}

Init ==
  /\ clock = 0
  /\ issued = [p \in Indexes |-> 0] /\ revoked = [p \in Indexes |-> 0]
  /\ tokens = [p \in Indexes |-> 0] /\ mutex = [p \in Indexes |-> <<>>]
  /\ operation = [o \in Callers |-> Idle]
  /\ due = [o \in Callers |-> 0]
  /\ known = [o \in Callers |-> 0]

Done(o) == clock >= due[o]
Running(o) == operation[o].pc \notin {"idle", "ended"}
Holds(o) == LET p == operation[o].profile
            IN mutex[p] # <<>> /\ Head(mutex[p]) = o

\* The mutex of whoever holds it passes to the next; who has none leaves none.
Unlocked(o, queues) ==
  [p \in Indexes |-> IF queues[p] # <<>> /\ Head(queues[p]) = o THEN Tail(queues[p]) ELSE queues[p]]
Joined(o, p, queues) ==
  IF Profiles[p] = App THEN [queues EXCEPT ![p] = Append(@, o)] ELSE queues

\* An attempt at profile p begins: a PAT needs no token.
Begun(p, again) ==
  [pc |-> IF Profiles[p] = App THEN "locking" ELSE "calling",
   goal |-> IF Profiles[p] = App THEN "access" ELSE "data",
   profile |-> p, again |-> again, credential |-> StaticToken, answered |-> 0,
   retries |-> 0, until |-> 0, limit |-> clock + Budget,
   since |-> IF Profiles[p] = App THEN clock ELSE 0]

OwnBudget(o, call, goal) ==
  [call EXCEPT !.pc = "calling", !.goal = goal, !.retries = 0, !.since = 0,
               !.limit = clock + Budget]

\* doRequest begins; without a deadline in its context it takes a budget of its own.
Requesting(o, call, goal) ==
  [call EXCEPT !.pc = "calling", !.goal = goal, !.retries = 0, !.since = 0,
               !.limit = IF o \in Dated THEN @ ELSE clock + Budget]

Enters(o, p, again) ==
  /\ operation' = [operation EXCEPT ![o] = Begun(p, again)]
  /\ mutex' = Joined(o, p, Unlocked(o, mutex))

Ends(o) ==
  /\ operation' = [operation EXCEPT ![o] = [Idle EXCEPT !.pc = "ended"]]
  /\ mutex' = Unlocked(o, mutex)
  /\ known' = [known EXCEPT ![o] = 0]

\* The client returned a failure: the router goes on with the next profile,
\* unless the context is done, or returns it.
Fails(o, failure) ==
  LET p == operation[o].profile
  IN IF failure \in Advancing /\ p < Len(Profiles) /\ ~Done(o)
     THEN Enters(o, p + 1, FALSE) /\ known' = [known EXCEPT ![o] = 0]
     ELSE Ends(o)

-----------------------------------------------------------------------------
(* Callers, GitHub and time *)

Start(o) ==
  /\ operation[o].pc = "idle" /\ clock + TimeoutOf[o] <= Horizon
  /\ Enters(o, 1, FALSE)
  /\ due' = [due EXCEPT ![o] = clock + TimeoutOf[o]]
  /\ UNCHANGED <<clock, github, tokens, known>>

\* The worker is stopped, by a reload or the end of the process.
Cancel(o) ==
  /\ Running(o) /\ ~Done(o)
  /\ due' = [due EXCEPT ![o] = clock]
  /\ UNCHANGED <<clock, github, client, operation, known>>

\* A permission or the repository grant of the installation changed.
Revoke(p) ==
  /\ revoked[p] < issued[p]
  /\ revoked' = [revoked EXCEPT ![p] = issued[p]]
  /\ UNCHANGED <<clock, issued, client, operation, due, known>>

\* The cached token has less than five minutes left.
Age(p) ==
  /\ tokens[p] # 0
  /\ tokens' = [tokens EXCEPT ![p] = 0]
  /\ UNCHANGED <<clock, github, mutex, operation, due, known>>

\* Time passes while everybody waits: for a rate limit that is not over, with
\* a context that is not done, or for a mutex that another holds meanwhile.
Elapse ==
  /\ clock < Horizon
  /\ \A o \in Callers :
       CASE operation[o].pc = "calling" -> FALSE
         [] operation[o].pc = "sleeping" -> clock < operation[o].until /\ ~Done(o)
         [] operation[o].pc = "locking" -> ~Holds(o)
         [] OTHER -> TRUE
  /\ clock' = clock + 1
  /\ UNCHANGED <<github, client, operation, due, known>>

-----------------------------------------------------------------------------
(* The client *)

\* accessToken found a token in the cache.
UseToken(o) ==
  LET call == operation[o]
  IN /\ call.pc = "locking" /\ call.goal = "access" /\ Holds(o)
     /\ tokens[call.profile] # 0
     /\ operation' = [operation EXCEPT ![o] =
          Requesting(o, [call EXCEPT !.credential = tokens[call.profile]], "data")]
     /\ mutex' = Unlocked(o, mutex)
     /\ UNCHANGED <<clock, github, tokens, due, known>>

\* accessToken found none and asks GitHub, with the mutex.
RequestToken(o) ==
  LET call == operation[o]
  IN /\ call.pc = "locking" /\ call.goal = "access" /\ Holds(o)
     /\ tokens[call.profile] = 0
     /\ operation' = [operation EXCEPT ![o] = Requesting(o, call, "token")]
     /\ UNCHANGED <<clock, github, client, due, known>>

\* GitHub issued a token: it is cached and used.
IssueToken(o) ==
  LET p == operation[o].profile
      number == issued[p] + 1
  IN /\ operation[o].pc = "calling" /\ operation[o].goal = "token" /\ clock <= due[o]
     /\ issued' = [issued EXCEPT ![p] = number]
     /\ tokens' = [tokens EXCEPT ![p] = number]
     /\ operation' = [operation EXCEPT ![o] =
          Requesting(o, [operation[o] EXCEPT !.credential = number], "data")]
     /\ mutex' = Unlocked(o, mutex)
     /\ UNCHANGED <<clock, revoked, due, known>>

Calling(o, goal) ==
  operation[o].pc = "calling" /\ operation[o].goal = goal /\ clock <= due[o]
Accepted(o) ==
  LET call == operation[o]
  IN Profiles[call.profile] = App => call.credential > revoked[call.profile]

\* GitHub answered with what was asked for; after the last request the
\* operation has its result.
AnswerData(o) ==
  LET call == operation[o]
      counted == [call EXCEPT !.answered = @ + 1]
  IN /\ Calling(o, "data") /\ Accepted(o)
     /\ IF counted.answered < RequestsOf[o]
        THEN /\ operation' = [operation EXCEPT ![o] = Requesting(o, counted, "data")]
             /\ UNCHANGED <<mutex, known>>
        ELSE Ends(o)
     /\ UNCHANGED <<clock, github, tokens, due>>

\* 401 for an installation token: the first attempt evicts it and is repeated.
RefuseToken(o) ==
  /\ Calling(o, "data") /\ ~Accepted(o)
  /\ IF operation[o].again
     THEN Fails(o, "credential_invalid")
     ELSE /\ operation' = [operation EXCEPT ![o].pc = "locking", ![o].goal = "evict",
                                     ![o].since = clock]
          /\ mutex' = Joined(o, operation[o].profile, mutex)
          /\ known' = [known EXCEPT ![o] = issued[operation[o].profile]]
  /\ UNCHANGED <<clock, github, tokens, due>>

EvictedNot(p) == tokens
Evicted(p) == [tokens EXCEPT ![p] = 0]

\* evictToken, and the second attempt with a deadline of its own.
EvictToken(o) ==
  /\ operation[o].pc = "locking" /\ operation[o].goal = "evict" /\ Holds(o)
  /\ tokens' = Evicted(operation[o].profile)
  /\ Enters(o, operation[o].profile, TRUE)
  /\ UNCHANGED <<clock, github, due, known>>

\* Any other failure: a denial, the refusal of the App's own key or of a PAT, an
\* answer in the 500s or none.
RefuseRequest(o) ==
  /\ \/ Calling(o, "token")
     \/ Calling(o, "data") /\ Accepted(o)
  /\ \E failure \in Failures \ {"rate_limited"} :
       /\ failure = "credential_invalid" =>
            (Calling(o, "token") \/ Profiles[operation[o].profile] = PAT)
       /\ Fails(o, failure)
  /\ UNCHANGED <<clock, github, tokens, due>>

OnceTooOften(call) == call.retries > MaxRetries
Exhausted(call) == call.retries >= MaxRetries

\* 403 or 429 with a wait: doRequest gives up or sleeps.
Limit(o) ==
  LET call == operation[o]
  IN /\ Calling(o, "token") \/ Calling(o, "data")
     /\ \E wait \in Waits :
          IF Exhausted(call) \/ clock + wait > call.limit
          THEN Fails(o, "rate_limited")
          ELSE /\ operation' = [operation EXCEPT ![o].pc = "sleeping",
                                  ![o].retries = @ + 1, ![o].until = clock + wait]
               /\ UNCHANGED <<mutex, known>>
     /\ UNCHANGED <<clock, github, tokens, due>>

Wake(o) ==
  /\ operation[o].pc = "sleeping" /\ clock >= operation[o].until
  /\ operation' = [operation EXCEPT ![o].pc = "calling", ![o].until = 0]
  /\ UNCHANGED <<clock, github, client, due, known>>

\* The context is done: a call or a wait returns its error, and so does the
\* router.  A wait for the mutex does not look at it.
Interrupt(o) ==
  /\ operation[o].pc \in {"calling", "sleeping"} /\ Done(o)
  /\ Ends(o)
  /\ UNCHANGED <<clock, github, tokens, due>>

-----------------------------------------------------------------------------

Environment(o) == Start(o) \/ Cancel(o)
Advance(o) ==
  \/ UseToken(o) \/ RequestToken(o) \/ IssueToken(o) \/ EvictToken(o)
  \/ AnswerData(o) \/ RefuseToken(o) \/ RefuseRequest(o)
  \/ Limit(o) \/ Wake(o) \/ Interrupt(o)
Next ==
  \/ \E o \in Callers : Environment(o) \/ Advance(o)
  \/ \E p \in Indexes : Revoke(p) \/ Age(p)
  \/ Elapse

Spec == Init /\ [][Next]_vars

-----------------------------------------------------------------------------
(* Properties *)

\* Every variable has its type.
TypeOK ==
  /\ clock \in 0..Horizon
  /\ issued \in [Indexes -> Nat] /\ revoked \in [Indexes -> Nat]
  /\ tokens \in [Indexes -> Nat]
  /\ mutex \in [Indexes -> Seq(Callers)]
  /\ operation \in [Callers -> Call]
  /\ due \in [Callers -> 0..Horizon]
  /\ known \in [Callers -> Nat]

\* An operation leaves an App for its backup, or fails, as "credential invalid"
\* only after GitHub refused a token that it issued after it had refused the
\* operation's first one: never for what another operation left in the cache.
StaleTokenIsNotBlamed ==
  [][\A o \in Callers :
       (RefuseToken(o) /\ operation[o].again) =>
         known[o] > 0 /\ operation[o].credential > known[o]]_vars

\* Nobody waits for the mutex longer than one budget, however many wait ahead
\* and whatever rate limits they meet while they hold it: all of them have
\* their deadlines from before.  A job that is canceled is not interrupted in
\* that wait, so this bounds how long it delays the stop of its worker.
MutexWaitIsBounded ==
  \A o \in Callers : operation[o].pc = "locking" => clock <= operation[o].since + Budget
=============================================================================
