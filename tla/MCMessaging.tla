---------------------------- MODULE MCMessaging ----------------------------
(* Two ports, two types and a few messages and listens for TLC. *)
EXTENDS Messaging, TLC

CONSTANTS p1, p2, a, b, m1, m2, h1, h2, h3, h4

TwoPorts == {p1, p2}
TwoTypes == {a, b}
TwoMessages == {m1, m2}
FourHandles == {h1, h2, h3, h4}

\* The constructor of p1 listens to both types, that of p2 to one of them; in
\* a callback p1 may listen to a for the second time.
Constructors == {h1, h2, h3}
PortOfHandle == h1 :> p1 @@ h2 :> p2 @@ h3 :> p1 @@ h4 :> p1

\* Both messages are of the type that both ports listen to.
TypeOfAll == h1 :> a @@ h2 :> a @@ h3 :> b @@ h4 :> a @@ m1 :> a @@ m2 :> a

=============================================================================
