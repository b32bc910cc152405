------------------------------ MODULE MCRouting ------------------------------
(***************************************************************************)
(* A finite instance of Routing: a job of the scheduler and two of the     *)
(* evidence worker, an App with a backup, and bounds on what GitHub and    *)
(* the operators do.  A unit of time is the five minutes of the evidence   *)
(* worker's job timeout.                                                   *)
(***************************************************************************)
EXTENDS Routing, TLC

CONSTANTS refresh, contribution, diff,
          Events,                        \* bound on the events of all kinds together
          Revocations, Agings, Cancels   \* bounds on the events of each kind

VARIABLE budget

mcvars == <<vars, budget>>

MCTimeoutOf == (refresh :> 3 @@ contribution :> 1 @@ diff :> 1)
MCRequestsOf == (refresh :> 2 @@ contribution :> 1 @@ diff :> 1)
MCProfiles == <<App, PAT>>
MCSymmetry == Permutations({contribution, diff})

MCInit ==
  /\ Init
  /\ budget = ("any" :> Events @@ "revoke" :> Revocations @@ "age" :> Agings
               @@ "cancel" :> Cancels)

Free(A) == A /\ UNCHANGED budget
Paid(kind, A) == /\ budget[kind] > 0 /\ budget["any"] > 0
                 /\ A
                 /\ budget' = [budget EXCEPT ![kind] = @ - 1, !["any"] = @ - 1]

MCNext ==
  \/ Free(Elapse \/ \E o \in Callers : Start(o) \/ Advance(o))
  \/ Paid("cancel", \E o \in Callers : Cancel(o))
  \/ Paid("revoke", \E p \in Indexes : Revoke(p))
  \/ Paid("age", \E p \in Indexes : Age(p))

MCSpec == MCInit /\ [][MCNext]_mcvars
=============================================================================
