-------------------------- MODULE PublishedGroups --------------------------
(***************************************************************************)
(* What feature correlation promises a reader of the groups: the groups of *)
(* a collection are replaced as a whole, by the groups of one valid answer *)
(* about the pull requests the collection shows at that moment, and they   *)
(* are withdrawn as a whole when the collection stops asking for them.     *)
(* Nothing else touches them: no failure, restart, reload or other         *)
(* collection.                                                             *)
(***************************************************************************)
CONSTANTS Collections,
          Inputs,         \* what a collection may show
          Answers(_)      \* the sets of groups that are valid for an input

VARIABLES shown,          \* shown[c]: the pull requests of the collection
          groups          \* groups[c]: its rows, each with the input it is about

vars == <<shown, groups>>

Init ==
  /\ shown \in [Collections -> Inputs]
  /\ groups = [c \in Collections |-> {}]

Change(c) ==
  /\ shown' \in {[shown EXCEPT ![c] = input] : input \in Inputs}
  /\ UNCHANGED groups

Replace(c) ==
  /\ \E answer \in Answers(shown[c]) :
       groups' = [groups EXCEPT ![c] = {[id |-> id, about |-> shown[c]] : id \in answer}]
  /\ UNCHANGED shown

Withdraw(S) ==
  /\ groups' = [c \in Collections |-> IF c \in S THEN {} ELSE groups[c]]
  /\ UNCHANGED shown

Next ==
  \/ \E c \in Collections : Change(c) \/ Replace(c)
  \/ \E S \in SUBSET Collections : Withdraw(S)

Spec == Init /\ [][Next]_vars
=============================================================================
