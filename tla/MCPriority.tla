----------------------------- MODULE MCPriority -----------------------------
(* Small pools for TLC. *)
EXTENDS Priority, TLC

CONSTANTS d1, d2, d3, c1, c2, c3

ThreeDispatchers == {d1, d2, d3}
ThreeCallbacks == {c1, c2, c3}

=============================================================================
