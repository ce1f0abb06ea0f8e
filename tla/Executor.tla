------------------------------ MODULE Executor ------------------------------
(***************************************************************************)
(* What the actors rely on when they hand a callback to their Priority:    *)
(* a first-in first-out pool of workers.  It is opened once, drained and   *)
(* closed once; a task starts only after the pool was opened and the pool  *)
(* closes only when every task that was submitted has ended.  Threads,     *)
(* mutexes and condition variables are not part of the promise.            *)
(***************************************************************************)
EXTENDS Sequences

CONSTANTS Workers, Tasks, NoTask

VARIABLES
    phase,    \* "new", "open", "draining" or "closed"
    queue,    \* the tasks submitted and not yet taken
    running,  \* the task of each worker
    done      \* the tasks that have ended

vars == <<phase, queue, running, done>>

Init ==
    /\ phase = "new"
    /\ queue = <<>>
    /\ running = [w \in Workers |-> NoTask]
    /\ done = {}

New(t) ==
    /\ t \notin done
    /\ \A i \in DOMAIN queue : queue[i] # t
    /\ \A w \in Workers : running[w] # t

Submit(t) ==
    /\ phase # "closed"
    /\ New(t)
    /\ queue' = Append(queue, t)
    /\ UNCHANGED <<phase, running, done>>

Begin(w) ==
    /\ phase \in {"open", "draining"}
    /\ running[w] = NoTask
    /\ queue # <<>>
    /\ running' = [running EXCEPT ![w] = Head(queue)]
    /\ queue' = Tail(queue)
    /\ UNCHANGED <<phase, done>>

Finish(w) ==
    /\ running[w] # NoTask
    /\ done' = done \cup {running[w]}
    /\ running' = [running EXCEPT ![w] = NoTask]
    /\ UNCHANGED <<phase, queue>>

Open ==
    /\ phase = "new"
    /\ phase' = "open"
    /\ UNCHANGED <<queue, running, done>>

Drain ==
    /\ phase = "open"
    /\ phase' = "draining"
    /\ UNCHANGED <<queue, running, done>>

Close ==
    /\ phase \in {"open", "draining"}
    /\ queue = <<>>
    /\ \A w \in Workers : running[w] = NoTask
    /\ phase' = "closed"
    /\ UNCHANGED <<queue, running, done>>

Next ==
    \/ \E t \in Tasks : Submit(t)
    \/ \E w \in Workers : Begin(w) \/ Finish(w)
    \/ Open
    \/ Drain
    \/ Close

Spec == Init /\ [][Next]_vars

=============================================================================
