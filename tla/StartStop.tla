----------------------------- MODULE StartStop -----------------------------
(***************************************************************************)
(* What the life cycle promises: the actors start from the leaves up, the  *)
(* root last; once the root has started they stop from the leaves up, each *)
(* of them once, and run() returns when the root has stopped.              *)
(***************************************************************************)
CONSTANTS Actors, Root, Children

VARIABLES
    state,    \* of each actor
    returned  \* whether Core::run has returned

vars == <<state, returned>>

Init ==
    /\ state = [a \in Actors |-> "CTOR_FINISHED"]
    /\ returned = FALSE

Start(a) ==
    /\ state[a] = "CTOR_FINISHED"
    /\ \A c \in Children[a] : state[c] = "STARTED"
    /\ state' = [state EXCEPT ![a] = "STARTED"]
    /\ UNCHANGED returned

Stop(a) ==
    /\ state[a] = "STARTED"
    /\ state[Root] = "STARTED"
    /\ \A c \in Children[a] : state[c] = "STOPPED"
    /\ state' = [state EXCEPT ![a] = "STOPPED"]
    /\ UNCHANGED returned

Return ==
    /\ state[Root] = "STOPPED"
    /\ returned' = TRUE
    /\ UNCHANGED state

Next ==
    \/ \E a \in Actors : Start(a) \/ Stop(a)
    \/ Return

Spec == Init /\ [][Next]_vars

=============================================================================
