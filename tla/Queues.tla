------------------------------- MODULE Queues -------------------------------
(* How often something occurs in a queue.                                   *)
EXTENDS Naturals, Sequences, FiniteSets

\* The elements of s that are in S, and the copies of m in s.
Among(s, S) == Cardinality({i \in DOMAIN s : s[i] \in S})
Waiting(s, m) == Cardinality({i \in DOMAIN s : s[i] = m})

One(b) == IF b THEN 1 ELSE 0
=============================================================================
