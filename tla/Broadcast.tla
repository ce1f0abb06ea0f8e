----------------------------- MODULE Broadcast -----------------------------
(***************************************************************************)
(* What the actors rely on when they publish and listen: a publish reaches *)
(* in one step every port that is registered for the type of the message,  *)
(* and each port hands out its messages in the order they were published.  *)
(* A message that nobody is registered for is dropped.                     *)
(***************************************************************************)
EXTENDS Sequences

CONSTANTS Ports, Types, Messages, Typed

VARIABLES
    subscribed,  \* the ports registered for each type
    published,   \* the messages published so far
    inbox,       \* what each port has still to hand out
    delivered    \* what each port has handed out

vars == <<subscribed, published, inbox, delivered>>

Init ==
    /\ subscribed = [t \in Types |-> {}]
    /\ published = {}
    /\ inbox = [p \in Ports |-> <<>>]
    /\ delivered = [p \in Ports |-> <<>>]

Subscribe(p, t) ==
    /\ p \notin subscribed[t]
    /\ subscribed' = [subscribed EXCEPT ![t] = @ \cup {p}]
    /\ UNCHANGED <<published, inbox, delivered>>

Publish(m) ==
    /\ m \notin published
    /\ published' = published \cup {m}
    /\ inbox' = [p \in Ports |-> IF p \in subscribed[Typed[m]]
                                 THEN Append(inbox[p], m)
                                 ELSE inbox[p]]
    /\ UNCHANGED <<subscribed, delivered>>

Deliver(p) ==
    /\ inbox[p] # <<>>
    /\ delivered' = [delivered EXCEPT ![p] = Append(@, Head(inbox[p]))]
    /\ inbox' = [inbox EXCEPT ![p] = Tail(@)]
    /\ UNCHANGED <<subscribed, published>>

Next ==
    \/ \E p \in Ports, t \in Types : Subscribe(p, t)
    \/ \E m \in Messages : Publish(m)
    \/ \E p \in Ports : Deliver(p)

Spec == Init /\ [][Next]_vars

=============================================================================
