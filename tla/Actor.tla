------------------------------- MODULE Actor -------------------------------
(***************************************************************************)
(* adst::ep::test_engine::core::Actor as a serial executor on top of a     *)
(* Priority (rapi_core/src/actor.cpp): the port pushes callbacks from any  *)
(* thread, the actor puts its consume() into the priority's queue when it  *)
(* is not there yet, and whichever dispatcher takes the entry runs the     *)
(* callbacks until none is left.  The constructor and the destructor of    *)
(* the derived class take part: callbacks may arrive while the constructor *)
(* is still running, and the destructor has to wait for the dispatcher.    *)
(*                                                                         *)
(* One action per critical section of callBackMutex_.  The priority is     *)
(* used as Executor promises: an entry in its queue is taken by one worker.*)
(***************************************************************************)
EXTENDS Naturals, Sequences

CONSTANTS
    Workers,      \* the dispatcher threads of the priority
    Callbacks,    \* what the port schedules; each of them at most once
    NoCallback,
    DerivedCalls  \* which of the two calls the derived class makes itself, in
                  \* addition to ActorLifeCycle, as actor.hpp:50 and :78 ask

ASSUME ActorAssumption ==
    /\ NoCallback \notin Callbacks
    /\ DerivedCalls \subseteq {"ctorFinished", "waitForReadyToDtor"}

VARIABLES
    scheduled,      \* scheduled_
    callBackQueue,  \* callBackQueue_
    entries,        \* how many consume() of this actor the priority has queued
    wpc,            \* where each worker is: outside, in consume(), in a callback
    running,        \* the callback each worker is inside of
    done,           \* the callbacks that have returned (history)
    opc             \* where the thread is that constructs and destroys the actor

vars == <<scheduled, callBackQueue, entries, wpc, running, done, opc>>

(***************************************************************************)
(* The owner.                                                              *)
(*   derivedCtor  in the constructor of the derived class                  *)
(*   ctor         in the constructor of ActorLifeCycle                     *)
(*   alive        constructed                                              *)
(*   dtorCheck    in ~ActorLifeCycle, wants callBackMutex_ for its wait    *)
(*   dtorWait     blocked in constDestEvent_                               *)
(*   derivedDtor  past waitForReadyToDtor; ctorDtorLock_ keeps the mutex   *)
(*   destroyed    the actor is gone                                        *)
(*   threw        unique_lock::lock threw inside a destructor              *)
(***************************************************************************)
OwnerPCs == {"derivedCtor", "ctor", "alive", "dtorCheck", "dtorWait",
             "derivedDtor", "destroyed", "threw"}

UnderConstruction == opc \in {"derivedCtor", "ctor"}

\* waitForReadyToDtor returns with callBackMutex_ locked for good.
MutexFree == opc \notin {"derivedDtor", "destroyed", "threw"}

Init ==
    /\ scheduled = TRUE
    /\ callBackQueue = <<>>
    /\ entries = 0
    /\ wpc = [w \in Workers |-> "outside"]
    /\ running = [w \in Workers |-> NoCallback]
    /\ done = {}
    /\ opc = IF "ctorFinished" \in DerivedCalls THEN "derivedCtor" ELSE "ctor"

Fresh(c) ==
    /\ c \notin done
    /\ \A i \in DOMAIN callBackQueue : callBackQueue[i] # c
    /\ \A w \in Workers : running[w] # c

-----------------------------------------------------------------------------

\* Fault: an entry per callback instead of one per actor.
NeverScheduled == TRUE

\* Whether schedule has to put the actor into the priority's queue.
NotScheduled == ~scheduled

\* Called by the port on any thread: another actor's publish, the owner's
\* listen, or a callback of this actor itself.
Schedule ==
    /\ MutexFree
    /\ \E c \in Callbacks : Fresh(c) /\ callBackQueue' = Append(callBackQueue, c)
    /\ scheduled' = TRUE
    /\ entries' = IF NotScheduled THEN entries + 1 ELSE entries
    /\ UNCHANGED <<wpc, running, done, opc>>

\* Fault: the constructor never looks at what arrived meanwhile.
CtorFinishedDropsEarly ==
    /\ UnderConstruction
    /\ opc' = IF opc = "derivedCtor" THEN "ctor" ELSE "alive"
    /\ scheduled' = FALSE
    /\ UNCHANGED <<callBackQueue, entries, wpc, running, done>>

\* It hands over what arrived meanwhile, once per call.
CtorFinished ==
    /\ UnderConstruction
    /\ opc' = IF opc = "derivedCtor" THEN "ctor" ELSE "alive"
    /\ scheduled' = (callBackQueue # <<>>)
    /\ entries' = IF callBackQueue # <<>> THEN entries + 1 ELSE entries
    /\ UNCHANGED <<callBackQueue, wpc, running, done>>

-----------------------------------------------------------------------------

\* A dispatcher takes the entry and enters consume().
Enter(w) ==
    /\ wpc[w] = "outside"
    /\ entries > 0
    /\ entries' = entries - 1
    /\ wpc' = [wpc EXCEPT ![w] = "consume"]
    /\ UNCHANGED <<scheduled, callBackQueue, running, done, opc>>

Pop(w) ==
    /\ wpc[w] = "consume"
    /\ MutexFree
    /\ callBackQueue # <<>>
    /\ running' = [running EXCEPT ![w] = Head(callBackQueue)]
    /\ callBackQueue' = Tail(callBackQueue)
    /\ wpc' = [wpc EXCEPT ![w] = "callback"]
    /\ UNCHANGED <<scheduled, entries, done, opc>>

Return(w) ==
    /\ wpc[w] = "callback"
    /\ done' = done \cup {running[w]}
    /\ running' = [running EXCEPT ![w] = NoCallback]
    /\ wpc' = [wpc EXCEPT ![w] = "consume"]
    /\ UNCHANGED <<scheduled, callBackQueue, entries, opc>>

\* Fault: constDestEvent_ is not notified.
OwnerNotNotified == opc

\* constDestEvent_.notify_one()
OwnerNotified == IF opc = "dtorWait" THEN "dtorCheck" ELSE opc

Leave(w) ==
    /\ wpc[w] = "consume"
    /\ MutexFree
    /\ callBackQueue = <<>>
    /\ scheduled' = FALSE
    /\ opc' = OwnerNotified
    /\ wpc' = [wpc EXCEPT ![w] = "outside"]
    /\ UNCHANGED <<callBackQueue, entries, running, done>>

-----------------------------------------------------------------------------

\* ~ActorLifeCycle calls waitForReadyToDtor.
Destruct ==
    /\ opc = "alive"
    /\ opc' = "dtorCheck"
    /\ UNCHANGED <<scheduled, callBackQueue, entries, wpc, running, done>>

\* Fault: the destructor looks at the queue only.
QueueEmpty == callBackQueue = <<>>

ReadyToDtor == ~scheduled

WaitForReadyToDtor ==
    /\ opc = "dtorCheck"
    /\ opc' = IF ReadyToDtor THEN "derivedDtor" ELSE "dtorWait"
    /\ UNCHANGED <<scheduled, callBackQueue, entries, wpc, running, done>>

SpuriousWakeup ==
    /\ opc = "dtorWait"
    /\ opc' = "dtorCheck"
    /\ UNCHANGED <<scheduled, callBackQueue, entries, wpc, running, done>>

\* ctorDtorLock_ already owns the mutex: a second lock() throws.
DerivedDtor ==
    /\ opc = "derivedDtor"
    /\ opc' = IF "waitForReadyToDtor" \in DerivedCalls THEN "threw" ELSE "destroyed"
    /\ UNCHANGED <<scheduled, callBackQueue, entries, wpc, running, done>>

Terminated ==
    /\ opc \in {"destroyed", "threw"}
    /\ UNCHANGED vars

-----------------------------------------------------------------------------

Owner == CtorFinished \/ WaitForReadyToDtor \/ DerivedDtor

Worker(w) == Enter(w) \/ Pop(w) \/ Return(w) \/ Leave(w)

Next ==
    \/ Schedule
    \/ CtorFinished
    \/ \E w \in Workers : Enter(w)
    \/ \E w \in Workers : Pop(w)
    \/ \E w \in Workers : Return(w)
    \/ \E w \in Workers : Leave(w)
    \/ Destruct
    \/ WaitForReadyToDtor
    \/ SpuriousWakeup
    \/ DerivedDtor
    \/ Terminated

Spec == Init /\ [][Next]_vars

(***************************************************************************)
(* Constructors return, a queued entry is taken (Priority: AllDispatched), *)
(* callbacks return, and a thread that wants callBackMutex_ gets it.       *)
(* Nobody has to schedule a callback or destroy the actor.                 *)
(***************************************************************************)
Fairness ==
    /\ WF_vars(Owner)
    /\ WF_vars(\E w \in Workers : Enter(w))
    /\ \A w \in Workers : WF_vars(Pop(w) \/ Return(w) \/ Leave(w))

FairSpec == Spec /\ Fairness

-----------------------------------------------------------------------------

(* Every variable has its type; the priority never holds two entries.      *)
TypeOK ==
    /\ scheduled \in BOOLEAN
    /\ callBackQueue \in Seq(Callbacks)
    /\ entries \in {0, 1}
    /\ wpc \in [Workers -> {"outside", "consume", "callback"}]
    /\ running \in [Workers -> Callbacks \cup {NoCallback}]
    /\ done \in SUBSET Callbacks
    /\ opc \in OwnerPCs

Inside == {w \in Workers : wpc[w] # "outside"}

(* port.hpp:42 "The actor schedule function makes sure that the actor only *)
(* exists once in the dispatching queue of the priority": one entry, or    *)
(* one dispatcher inside consume(), never both and never two.              *)
OnceInPriority ==
    /\ entries <= 1
    /\ entries = 1 => Inside = {}
    /\ \A v, w \in Inside : v = w

(* A callback that was scheduled is never stranded: while one waits, the   *)
(* constructor is still to look at it, or the actor is in the priority's   *)
(* queue, or a dispatcher is inside consume() and will look again.         *)
NotStranded ==
    callBackQueue # <<>> => UnderConstruction \/ entries > 0 \/ Inside # {}

(* actor.hpp:50, waitForReadyToDtor makes "sure that the actor has         *)
(* finished processing messages and is ready to be destroyed": from then   *)
(* on no dispatcher is inside the actor, none is on its way to it, and     *)
(* nothing is left to process.                                             *)
DestroyedAlone ==
    ~MutexFree => Inside = {} /\ entries = 0 /\ callBackQueue = <<>>

(* Every scheduled callback is run to its end, those that arrive while the *)
(* constructor runs included.                                              *)
AllRun ==
    \A c \in Callbacks :
        (\E i \in DOMAIN callBackQueue : callBackQueue[i] = c) ~> (c \in done)

(* waitForReadyToDtor returns: the notification of the last dispatcher     *)
(* reaches the destructor or the destructor sees its effect.               *)
DestructorEnds == (opc \in {"dtorCheck", "dtorWait"}) ~> (opc = "destroyed")

-----------------------------------------------------------------------------
(* The promise to the port: an executor with one worker. *)

Self == "self"

\* The callback of the one worker that has one.
CurrentOf(r) == IF \E w \in Workers : r[w] # NoCallback
                THEN r[CHOOSE w \in Workers : r[w] # NoCallback]
                ELSE NoCallback

Phase == IF ~MutexFree THEN "closed" ELSE IF UnderConstruction THEN "new" ELSE "open"

Serial == INSTANCE Executor WITH
    Workers <- {Self}, Tasks <- Callbacks, NoTask <- NoCallback,
    phase <- Phase, queue <- callBackQueue,
    running <- [w \in {Self} |-> CurrentOf(running)], done <- done

(* Whatever dispatchers run them, the callbacks of an actor run one after  *)
(* the other, in the order they were scheduled, none of them before the    *)
(* constructor has finished or after the destructor's wait.                *)
ImplementsSerial == Serial!Spec

=============================================================================
