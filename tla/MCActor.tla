------------------------------ MODULE MCActor ------------------------------
(* One actor, a small pool and a few callbacks for TLC. *)
EXTENDS Actor

CONSTANTS w1, w2, w3, c1, c2, c3

TwoWorkers == {w1, w2}
ThreeWorkers == {w1, w2, w3}
TwoCallbacks == {c1, c2}
ThreeCallbacks == {c1, c2, c3}

NoDerivedCall == {}
\* What the comments at actor.hpp:51 and :78 ask for.
DerivedAsDocumented == {"ctorFinished", "waitForReadyToDtor"}

=============================================================================
