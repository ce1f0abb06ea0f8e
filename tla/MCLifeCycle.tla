---------------------------- MODULE MCLifeCycle ----------------------------
(* Small trees of actors for TLC: root r with children c1 and c2; in the   *)
(* larger tree c1 has the children g1 and g2.                              *)
EXTENDS LifeCycle, TLC

CONSTANTS r, c1, c2, g1, g2, kr, k1, k2, l1, l2

SmallTree == {r, c1, c2}
SmallChildren == r :> {c1, c2} @@ c1 :> {} @@ c2 :> {}
LargeTree == {r, c1, c2, g1, g2}
LargeChildren == r :> {c1, c2} @@ c1 :> {g1, g2} @@ c2 :> {} @@ g1 :> {} @@ g2 :> {}

AllClasses == {kr, k1, k2, l1, l2}
Distinct == r :> kr @@ c1 :> k1 @@ c2 :> k2
LargeDistinct == Distinct @@ g1 :> l1 @@ g2 :> l2
Twins == r :> kr @@ c1 :> k1 @@ c2 :> k1

\* One actor publishes Stop when the root has started: the root itself, as in
\* start_stop.cpp, or one of two leaves; or nobody does.
PoliteUsers == {{}, {<<r, kr>>}, {<<c2, kr>>}, {<<g1, kr>>}}
\* A child stops the system as soon as it has started itself, or two actors
\* publish Stop when the root has started.
HastyOrTwo == {{<<c1, k1>>}, {<<c1, kr>>, <<c2, kr>>}}
\* Parents that listen late to the start of the root and to the stop of an
\* actor of another branch, and a leaf that listens to the stop of a parent.
SeveralLate == {<<c1, Message("StartCnf", kr)>>, <<c1, Message("StopCnf", k2)>>,
                <<c2, Message("StopCnf", k1)>>}
\* As start_stop.cpp:131.
LateForGrandchild == {<<r, Message("StartCnf", l1)>>}
NobodyLate == {}
\* The root of the small tree alone.
RootUser == {{<<r, kr>>}}

=============================================================================
