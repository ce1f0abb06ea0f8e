------------------------------ MODULE Priority ------------------------------
(***************************************************************************)
(* adst::ep::test_engine::core::Priority: a pool of dispatcher threads     *)
(* that run callbacks taken from one deque (rapi_core/src/priority.cpp).   *)
(*                                                                         *)
(* Every variable the code guards with stateChangeMutex_ (or startedMutex_ *)
(* for startCount_) is read and written in one atomic action per critical  *)
(* section.  A thread blocked in a condition variable and a thread that    *)
(* was notified and contends for the mutex again are different program     *)
(* counters, so a notification that reaches nobody is lost here as it is   *)
(* in the program, and a wait may also end spuriously.                     *)
(*                                                                         *)
(* The main thread is the only client: it may schedule, start, wait for    *)
(* idle, stop and destroy in any order, wrong orders included.  A wrong    *)
(* start, stop or schedule is an error, and the error callback never       *)
(* returns (error_handler.hpp); waitForIdle looks at no state, and called  *)
(* before start it blocks the only thread that could start the pool.       *)
(***************************************************************************)
EXTENDS Naturals, Sequences, FiniteSets

CONSTANTS
    Dispatchers,     \* dispatchers_, the threads of the pool
    Callbacks,       \* what may be scheduled; each of them at most once
    NoCallback       \* "the dispatcher is not inside a callback"

States == {"START", "RUNNING", "STOPPING", "STOPPED"}

ASSUME PriorityAssumption ==
    /\ IsFiniteSet(Dispatchers)
    /\ NoCallback \notin Callbacks

VARIABLES
    state,          \* state_
    actorQueue,     \* actorQueue_
    startCount,     \* startCount_
    sleepingCount,  \* sleepingCount_
    dpc,            \* where each dispatcher is in dispatcherLoop
    running,        \* the callback each dispatcher is inside of
    done,           \* the callbacks that have returned (history)
    mpc,            \* where the main thread is
    dtor,           \* the main thread is inside ~Priority
    late,           \* the main thread itself has scheduled after start (history)
    error           \* the code onErrorCallBack_ was given, 0 for none

vars == <<state, actorQueue, startCount, sleepingCount, dpc, running, done,
          mpc, dtor, late, error>>

(***************************************************************************)
(* Program counters.                                                       *)
(*   boot       wants stateChangeMutex_ to test state_ == RUNNING          *)
(*   startWait  blocked in startEvent_                                     *)
(*   count      wants startedMutex_ to decrement startCount_               *)
(*   notify     about to notify startedEvent_, no mutex held               *)
(*   enter      wants stateChangeMutex_, not counted in sleepingCount_     *)
(*   sleep      blocked in scheduleEvent_                                  *)
(*   woken      notified, wants stateChangeMutex_, still counted           *)
(*   run        inside the callback, no mutex held                         *)
(*   exited     the thread function has returned                           *)
(***************************************************************************)
DispatcherPCs == {"boot", "startWait", "count", "notify", "enter", "sleep",
                  "woken", "run", "exited"}

(***************************************************************************)
(*   client      between two calls; idled: waitForIdle has just returned   *)
(*   startNotify, stopNotify  state_ written, mutex released, not notified *)
(*   ...Check    wants the mutex to evaluate the predicate of a wait       *)
(*   ...Wait     blocked in the condition variable                         *)
(*   dtorStop    ~Priority has started the pool and relocks to stop it     *)
(*   join        ~Priority joins the threads                               *)
(***************************************************************************)
ClientPCs  == {"client", "idled"}
BlockedPCs == {"startNotify", "startCheck", "startWait", "idleCheck",
               "idleWait", "stopCheck", "stopWait", "stopNotify",
               "dtorStop", "join"}
MainPCs    == ClientPCs \cup BlockedPCs \cup {"destroyed"}

Init ==
    /\ state = "START"
    /\ actorQueue = <<>>
    /\ startCount = Cardinality(Dispatchers)
    /\ sleepingCount = 0
    /\ dpc = [d \in Dispatchers |-> "boot"]
    /\ running = [d \in Dispatchers |-> NoCallback]
    /\ done = {}
    /\ mpc = "client"
    /\ dtor = FALSE
    /\ late = FALSE
    /\ error = 0

-----------------------------------------------------------------------------
(* Condition variables. *)

\* Fault: the condition variable is not notified.
NotifyNobody(from, to) == dpc

\* Fault: notify_one instead of notify_all.
NotifyOne(from, to) ==
    IF \E d \in Dispatchers : dpc[d] = from
    THEN [dpc EXCEPT ![CHOOSE d \in Dispatchers : dpc[d] = from] = to]
    ELSE dpc

\* notify_all: every dispatcher blocked at `from' contends for the mutex.
NotifyAll(from, to) == [d \in Dispatchers |-> IF dpc[d] = from THEN to ELSE dpc[d]]

\* scheduleEvent_.notify_all()
NotifyScheduleEvent == NotifyAll("sleep", "woken")

\* startedEvent_ has one waiter at most, the main thread in start or stop.
NotifyStartedEvent ==
    mpc' = CASE mpc = "startWait" -> "startCheck"
             [] mpc = "stopWait"  -> "stopCheck"
             [] OTHER             -> mpc

\* Fault: off by one, the dispatcher about to sleep is not expected to count.
AllButOneAsleep == sleepingCount + 1 >= Cardinality(Dispatchers)

AllAsleep == sleepingCount = Cardinality(Dispatchers)

\* Fault: stop forgets that a dispatcher may still be inside a callback.
QueueIsEmpty == actorQueue = <<>>

\* The predicate stop waits for.
Quiet == actorQueue = <<>> /\ AllAsleep

Fresh(c) ==
    /\ c \notin done
    /\ \A i \in DOMAIN actorQueue : actorQueue[i] # c
    /\ \A d \in Dispatchers : running[d] # c

-----------------------------------------------------------------------------
(* schedule, called by the main thread or from inside a callback. *)

Enqueue(c) ==
    IF state = "STOPPED"
    THEN /\ error' = 3
         /\ UNCHANGED <<actorQueue, dpc>>
    ELSE /\ actorQueue' = Append(actorQueue, c)
         /\ dpc' = IF Len(actorQueue') = 1 THEN NotifyScheduleEvent ELSE dpc
         /\ UNCHANGED error


-----------------------------------------------------------------------------

At(d, pcs) == error = 0 /\ dpc[d] \in pcs
MainAt(pcs) == error = 0 /\ mpc \in pcs

(* The dispatcher threads. *)

DispatcherBoot(d) ==
    /\ At(d, {"boot"})
    /\ dpc' = [dpc EXCEPT ![d] = IF state = "RUNNING" THEN "count" ELSE "startWait"]
    /\ UNCHANGED <<state, actorQueue, startCount, sleepingCount, running, done,
                   mpc, dtor, late, error>>

DispatcherCount(d) ==
    /\ At(d, {"count"})
    /\ startCount' = startCount - 1
    /\ dpc' = [dpc EXCEPT ![d] = "notify"]
    /\ UNCHANGED <<state, actorQueue, sleepingCount, running, done, mpc, dtor, late, error>>

DispatcherNotify(d) ==
    /\ At(d, {"notify"})
    /\ NotifyStartedEvent
    /\ dpc' = [dpc EXCEPT ![d] = "enter"]
    /\ UNCHANGED <<state, actorQueue, startCount, sleepingCount, running, done,
                   dtor, late, error>>

\* Fault: a dispatcher that leaves scheduleEvent_ stays counted.
AwakeCountKept(d) == sleepingCount

\* sleepingCount_ once d holds the mutex and is past its wait.
AwakeCount(d) == IF dpc[d] = "woken" THEN sleepingCount - 1 ELSE sleepingCount

\* Fault: the front is called first and popped after that.
DispatchWithoutPop(d) ==
    /\ At(d, {"enter", "woken"})
    /\ actorQueue # <<>>
    /\ sleepingCount' = AwakeCount(d)
    /\ running' = [running EXCEPT ![d] = Head(actorQueue)]
    /\ dpc' = [dpc EXCEPT ![d] = "run"]
    /\ UNCHANGED <<state, actorQueue, startCount, done, mpc, dtor, late, error>>

Dispatch(d) ==
    /\ At(d, {"enter", "woken"})
    /\ actorQueue # <<>>
    /\ sleepingCount' = AwakeCount(d)
    /\ running' = [running EXCEPT ![d] = Head(actorQueue)]
    /\ actorQueue' = Tail(actorQueue)
    /\ dpc' = [dpc EXCEPT ![d] = "run"]
    /\ UNCHANGED <<state, startCount, done, mpc, dtor, late, error>>

FallAsleep(d) ==
    /\ At(d, {"enter"})
    /\ actorQueue = <<>>
    /\ state = "RUNNING"
    /\ sleepingCount' = sleepingCount + 1
    /\ dpc' = [dpc EXCEPT ![d] = "sleep"]
    /\ mpc' = IF mpc = "idleWait" /\ sleepingCount' = Cardinality(Dispatchers)
              THEN "idleCheck" ELSE mpc
    /\ UNCHANGED <<state, actorQueue, startCount, running, done, dtor, late, error>>

\* The wait's predicate is false: another dispatcher took the callback.
SleepOn(d) ==
    /\ At(d, {"woken"})
    /\ actorQueue = <<>>
    /\ state = "RUNNING"
    /\ dpc' = [dpc EXCEPT ![d] = "sleep"]
    /\ UNCHANGED <<state, actorQueue, startCount, sleepingCount, running, done,
                   mpc, dtor, late, error>>

Exit(d) ==
    /\ At(d, {"enter", "woken"})
    /\ actorQueue = <<>>
    /\ state # "RUNNING"
    /\ sleepingCount' = AwakeCount(d) + 1
    /\ dpc' = [dpc EXCEPT ![d] = "exited"]
    /\ NotifyStartedEvent
    /\ UNCHANGED <<state, actorQueue, startCount, running, done, dtor, late, error>>

\* The callback calls schedule.
CallbackSchedules(d) ==
    /\ At(d, {"run"})
    /\ \E c \in Callbacks : Fresh(c) /\ Enqueue(c)
    /\ UNCHANGED <<state, startCount, sleepingCount, running, done, mpc, dtor, late>>

CallbackReturns(d) ==
    /\ At(d, {"run"})
    /\ done' = done \cup {running[d]}
    /\ running' = [running EXCEPT ![d] = NoCallback]
    /\ dpc' = [dpc EXCEPT ![d] = "enter"]
    /\ UNCHANGED <<state, actorQueue, startCount, sleepingCount, mpc, dtor, late, error>>

-----------------------------------------------------------------------------
(* The main thread. *)

MainSchedules ==
    /\ MainAt(ClientPCs)
    /\ \E c \in Callbacks : Fresh(c) /\ Enqueue(c)
    /\ mpc' = "client"
    /\ late' = (late \/ state # "START")
    /\ UNCHANGED <<state, startCount, sleepingCount, running, done, dtor>>

\* start(lock), up to the release of stateChangeMutex_.
EnterStart ==
    IF state # "START"
    THEN /\ error' = 4
         /\ UNCHANGED <<state, mpc>>
    ELSE /\ state' = "RUNNING"
         /\ mpc' = "startNotify"
         /\ UNCHANGED error

Start ==
    /\ MainAt(ClientPCs)
    /\ EnterStart
    /\ UNCHANGED <<actorQueue, startCount, sleepingCount, dpc, running, done, dtor, late>>

StartNotify ==
    /\ MainAt({"startNotify"})
    /\ dpc' = NotifyAll("startWait", "boot")
    /\ mpc' = "startCheck"
    /\ UNCHANGED <<state, actorQueue, startCount, sleepingCount, running, done,
                   dtor, late, error>>

\* Fault: start returns while one dispatcher has not reported.
AllButOneReported == startCount <= 1

\* The predicate start waits for.
AllReported == startCount = 0

StartCheck ==
    /\ MainAt({"startCheck"})
    /\ mpc' = IF ~AllReported THEN "startWait" ELSE IF dtor THEN "dtorStop" ELSE "client"
    /\ UNCHANGED <<state, actorQueue, startCount, sleepingCount, dpc, running,
                   done, dtor, late, error>>

\* In any state: before start no dispatcher is asleep, and none will be.
WaitForIdle ==
    /\ MainAt(ClientPCs)
    /\ mpc' = IF Quiet THEN "idled" ELSE "idleCheck"
    /\ UNCHANGED <<state, actorQueue, startCount, sleepingCount, dpc, running,
                   done, dtor, late, error>>

\* The predicate of the wait does not look at actorQueue_.
IdleCheck ==
    /\ MainAt({"idleCheck"})
    /\ mpc' = IF AllAsleep THEN "idled" ELSE "idleWait"
    /\ UNCHANGED <<state, actorQueue, startCount, sleepingCount, dpc, running,
                   done, dtor, late, error>>

\* stop(lock), up to its wait or to the release of stateChangeMutex_.
EnterStop ==
    IF state # "RUNNING"
    THEN /\ error' = 2
         /\ UNCHANGED <<state, mpc>>
    ELSE /\ state' = IF Quiet THEN "STOPPED" ELSE "STOPPING"
         /\ mpc' = IF Quiet THEN "stopNotify" ELSE "stopWait"
         /\ UNCHANGED error

Stop ==
    /\ MainAt(ClientPCs)
    /\ EnterStop
    /\ UNCHANGED <<actorQueue, startCount, sleepingCount, dpc, running, done, dtor, late>>

StopCheck ==
    /\ MainAt({"stopCheck"})
    /\ state' = IF Quiet THEN "STOPPED" ELSE state
    /\ mpc' = IF Quiet THEN "stopNotify" ELSE "stopWait"
    /\ UNCHANGED <<actorQueue, startCount, sleepingCount, dpc, running, done,
                   dtor, late, error>>

StopNotify ==
    /\ MainAt({"stopNotify"})
    /\ dpc' = NotifyScheduleEvent
    /\ mpc' = IF dtor THEN "join" ELSE "client"
    /\ UNCHANGED <<state, actorQueue, startCount, sleepingCount, running, done,
                   dtor, late, error>>

\* ~Priority.  Its STOPPING branch needs a stop on another thread: no client
\* has one.
Destroy ==
    /\ MainAt(ClientPCs)
    /\ dtor' = TRUE
    /\ \/ state = "START" /\ EnterStart
       \/ state = "RUNNING" /\ EnterStop
       \/ state = "STOPPED" /\ mpc' = "join" /\ UNCHANGED <<state, error>>
    /\ UNCHANGED <<actorQueue, startCount, sleepingCount, dpc, running, done, late>>

DestroyStop ==
    /\ MainAt({"dtorStop"})
    /\ EnterStop
    /\ UNCHANGED <<actorQueue, startCount, sleepingCount, dpc, running, done, dtor, late>>

Join ==
    /\ MainAt({"join"})
    /\ \A d \in Dispatchers : dpc[d] = "exited"
    /\ mpc' = "destroyed"
    /\ UNCHANGED <<state, actorQueue, startCount, sleepingCount, dpc, running,
                   done, dtor, late, error>>

-----------------------------------------------------------------------------

\* A condition variable may wake a waiter that nobody notified.
SpuriousWakeup ==
    /\ error = 0
    /\ \/ /\ \E d \in Dispatchers :
                \/ dpc[d] = "sleep" /\ dpc' = [dpc EXCEPT ![d] = "woken"]
                \/ dpc[d] = "startWait" /\ dpc' = [dpc EXCEPT ![d] = "boot"]
          /\ UNCHANGED mpc
       \/ /\ \/ mpc = "idleWait" /\ mpc' = "idleCheck"
             \/ mpc \in {"startWait", "stopWait"} /\ NotifyStartedEvent
          /\ UNCHANGED dpc
    /\ UNCHANGED <<state, actorQueue, startCount, sleepingCount, running, done,
                   dtor, late, error>>

\* The process is over: an error was raised or the priority is destroyed.
Terminated ==
    /\ error # 0 \/ mpc = "destroyed"
    /\ UNCHANGED vars

\* What a dispatcher does on its own account; a callback need not schedule.
DispatcherStep(d) ==
    \/ DispatcherBoot(d)
    \/ DispatcherCount(d)
    \/ DispatcherNotify(d)
    \/ Dispatch(d)
    \/ FallAsleep(d)
    \/ SleepOn(d)
    \/ Exit(d)
    \/ CallbackReturns(d)

\* The inside of a call the main thread has made.
CallStep ==
    \/ StartNotify
    \/ StartCheck
    \/ IdleCheck
    \/ StopCheck
    \/ StopNotify
    \/ DestroyStop
    \/ Join

\* The calls the main thread may make.
Call ==
    \/ MainSchedules
    \/ Start
    \/ WaitForIdle
    \/ Stop
    \/ Destroy

Next ==
    \/ \E d \in Dispatchers : DispatcherStep(d) \/ CallbackSchedules(d)
    \/ CallStep
    \/ Call
    \/ SpuriousWakeup
    \/ Terminated

Spec == Init /\ [][Next]_vars

(***************************************************************************)
(* A runnable thread runs, a thread that wants a mutex gets it (critical   *)
(* sections are short and none waits inside), and callbacks return.  The   *)
(* client is not obliged to call anything.                                 *)
(***************************************************************************)
Fairness ==
    /\ \A d \in Dispatchers : WF_vars(DispatcherStep(d))
    /\ WF_vars(CallStep)

FairSpec == Spec /\ Fairness

-----------------------------------------------------------------------------

(* Every variable has its type; in particular the counters stay in range.  *)
TypeOK ==
    /\ state \in States
    /\ actorQueue \in Seq(Callbacks)
    /\ startCount \in 0..Cardinality(Dispatchers)
    /\ sleepingCount \in 0..Cardinality(Dispatchers)
    /\ dpc \in [Dispatchers -> DispatcherPCs]
    /\ running \in [Dispatchers -> Callbacks \cup {NoCallback}]
    /\ done \in SUBSET Callbacks
    /\ mpc \in MainPCs
    /\ dtor \in BOOLEAN
    /\ late \in BOOLEAN
    /\ error \in {0, 2, 3, 4}

Resting == {d \in Dispatchers : dpc[d] \in {"sleep", "woken", "exited"}}

(* sleepingCount_ is the number of dispatchers that are blocked, notified  *)
(* but not yet awake, or gone.  stop and waitForIdle decide on it alone.   *)
SleepAccounting == sleepingCount = Cardinality(Resting)

Unreported == {d \in Dispatchers : dpc[d] \in {"boot", "startWait", "count"}}

(* startCount_ is the number of dispatchers that have not yet reported in. *)
StartAccounting == startCount = Cardinality(Unreported)

(* priority.hpp:41, start "Blocks until all dispatcher are up and running": *)
(* after it returned, and in every later phase, no dispatcher is still on  *)
(* its way to the loop, so stop cannot overtake one.                       *)
StartedMeansUp ==
    state # "START" /\ mpc \notin {"startNotify", "startCheck", "startWait"}
        => Unreported = {}

(* A dispatcher is never left blocked in scheduleEvent_ while a callback   *)
(* waits: schedule notifies only when the queue leaves empty, and that is  *)
(* enough.                                                                 *)
NoLostWakeup == (\E d \in Dispatchers : dpc[d] = "sleep") => actorQueue = <<>>

Quiescent ==
    /\ actorQueue = <<>>
    /\ \A d \in Dispatchers : running[d] = NoCallback

(* priority.hpp:46 "Blocks until all callbacks are dispatched": once state *)
(* is STOPPED no callback is queued and none is running, for ever.         *)
StoppedIsQuiescent == state = "STOPPED" => Quiescent

(* priority.hpp:58, waitForIdle "Blocks calling thread until all           *)
(* dispatcher thread in idle state, eg no callback to dispatch": when it   *)
(* has returned there is nothing left to dispatch.  Core relies on it and  *)
(* schedules from the main thread before start only (core.cpp:11); for any *)
(* other client it is false: the predicate does not look at the queue.      *)
IdleIsQuiescent == mpc = "idled" /\ ~late => Quiescent

(* No callback is lost, run twice or run by two dispatchers: it is in one  *)
(* place of the queue, or inside one dispatcher, or done.                  *)
ExactlyOnce ==
    /\ \A i, j \in DOMAIN actorQueue : actorQueue[i] = actorQueue[j] => i = j
    /\ \A d \in Dispatchers :
          /\ running[d] \notin done
          /\ \A i \in DOMAIN actorQueue : running[d] # actorQueue[i]
          /\ \A e \in Dispatchers :
                running[d] = running[e] /\ running[d] # NoCallback => d = e
    /\ \A i \in DOMAIN actorQueue : actorQueue[i] \notin done

(* A scheduled callback is eventually run to its end, once the pool was    *)
(* started and whatever the client does next, stop and destroy included.   *)
AllDispatched ==
    \A c \in Callbacks :
        (state # "START" /\ \E i \in DOMAIN actorQueue : actorQueue[i] = c)
            ~> (c \in done \/ error # 0)

(* start, stop and ~Priority, called in any state, and waitForIdle, called *)
(* at any time after start, return: the main thread does not wait for a    *)
(* notification that nobody will send.  It does in a waitForIdle called    *)
(* before start, the one call that blocks in START, and which nobody makes *)
(* in the repository.                                                      *)
CallsReturn ==
    (mpc \in BlockedPCs /\ state # "START")
        ~> (mpc \in ClientPCs \cup {"destroyed"} \/ error # 0)

-----------------------------------------------------------------------------
(* The promise to the actors, of which this is an implementation. *)

Phase == CASE state = "START"    -> "new"
           [] state = "RUNNING"  -> "open"
           [] state = "STOPPING" -> "draining"
           [] state = "STOPPED"  -> "closed"

Executor == INSTANCE Executor WITH
    Workers <- Dispatchers, Tasks <- Callbacks, NoTask <- NoCallback,
    phase <- Phase, queue <- actorQueue, running <- running, done <- done

(* The pool is an executor: first in first out, each callback once, no     *)
(* work before start, closed only when every callback has returned.        *)
ImplementsExecutor == Executor!Spec

=============================================================================
