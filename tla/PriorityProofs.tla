--------------------------- MODULE PriorityProofs ---------------------------
(***************************************************************************)
(* Theorems about Priority, for every finite set of dispatchers and every  *)
(* set of callbacks.                                                       *)
(***************************************************************************)
EXTENDS Priority, FiniteSetTheorems, TLAPS

(***************************************************************************)
(* The two cardinalities change by one thread at a time.                   *)
(***************************************************************************)

\* Any set of dispatchers is finite and no larger than the pool.
LEMMA SubsetOfDispatchers ==
    ASSUME NEW S \in SUBSET Dispatchers
    PROVE  /\ IsFiniteSet(S)
           /\ Cardinality(S) \in Nat
           /\ Cardinality(Dispatchers) \in Nat
           /\ Cardinality(S) <= Cardinality(Dispatchers)
           /\ Cardinality(S) = Cardinality(Dispatchers) => S = Dispatchers
           /\ Cardinality(S) = 0 <=> S = {}
<1>1. IsFiniteSet(Dispatchers) /\ IsFiniteSet(S)
    BY PriorityAssumption, FS_Subset
<1>2. Cardinality(S) \in Nat /\ Cardinality(Dispatchers) \in Nat
    BY <1>1, FS_CardinalityType
<1>3. /\ Cardinality(S) <= Cardinality(Dispatchers)
      /\ Cardinality(S) = Cardinality(Dispatchers) => S = Dispatchers
    BY <1>1, FS_Subset
<1>4. Cardinality(S) = 0 <=> S = {}
    BY <1>1, FS_EmptySet
<1> QED
    BY <1>1, <1>2, <1>3, <1>4

\* A thread that joins a set of dispatchers makes it larger by one.
LEMMA OneMore ==
    ASSUME NEW S \in SUBSET Dispatchers, NEW d \in Dispatchers, d \notin S
    PROVE  Cardinality(S \cup {d}) = Cardinality(S) + 1
BY SubsetOfDispatchers, FS_AddElement

\* A thread that leaves a set of dispatchers makes it smaller by one.
LEMMA OneLess ==
    ASSUME NEW S \in SUBSET Dispatchers, NEW d \in S
    PROVE  Cardinality(S \ {d}) = Cardinality(S) - 1
BY SubsetOfDispatchers, FS_RemoveElement

-----------------------------------------------------------------------------
(***************************************************************************)
(* The inductive invariant.  Neither counter is in range, and stop may not *)
(* trust sleepingCount_, unless the counters count the right threads; and  *)
(* which threads those are depends on where the main thread is.            *)
(***************************************************************************)

\* The phases of the pool and the places of the threads go together.
Control ==
    /\ state = "START" =>
          /\ mpc \in ClientPCs \cup {"idleCheck", "idleWait"}
          /\ \A d \in Dispatchers : dpc[d] \in {"boot", "startWait"}
    /\ mpc \in {"stopWait", "stopCheck"} => state = "STOPPING"
    /\ mpc \in {"startNotify", "startCheck", "startWait", "dtorStop"} => state = "RUNNING"
    /\ mpc \in {"stopNotify", "join", "destroyed"} => state = "STOPPED"
    /\ \A d \in Dispatchers : running[d] # NoCallback <=> dpc[d] = "run"

\* A closed pool has an empty queue and no thread outside its resting places.
Closed == state = "STOPPED" => actorQueue = <<>> /\ Resting = Dispatchers

IInv ==
    /\ TypeOK
    /\ SleepAccounting
    /\ StartAccounting
    /\ Control
    /\ StartedMeansUp
    /\ NoLostWakeup
    /\ Closed

LEMMA InitIInv == Init => IInv
<1> SUFFICES ASSUME Init PROVE IInv
    OBVIOUS
<1>1. Resting = {} /\ Unreported = Dispatchers
    BY DEF Init, Resting, Unreported
<1>2. Cardinality(Dispatchers) \in Nat /\ Cardinality({}) = 0
    BY SubsetOfDispatchers
<1>3. TypeOK
  <2>1. actorQueue \in Seq(Callbacks) /\ state \in States
      BY DEF Init, States
  <2>2. dpc \in [Dispatchers -> DispatcherPCs] /\ running \in [Dispatchers -> Callbacks \cup {NoCallback}]
      BY DEF Init, DispatcherPCs
  <2>3. startCount \in 0..Cardinality(Dispatchers) /\ sleepingCount \in 0..Cardinality(Dispatchers)
      BY <1>2 DEF Init
  <2>4. done \in SUBSET Callbacks /\ mpc \in MainPCs /\ dtor \in BOOLEAN /\ late \in BOOLEAN /\ error \in {0, 2, 3, 4}
      BY DEF Init, MainPCs, ClientPCs
  <2> QED
      BY <2>1, <2>2, <2>3, <2>4 DEF TypeOK
<1>4. SleepAccounting /\ StartAccounting
    BY <1>1, <1>2 DEF Init, SleepAccounting, StartAccounting
<1>5. Control /\ StartedMeansUp /\ NoLostWakeup /\ Closed
    BY DEF Init, Control, ClientPCs, StartedMeansUp, NoLostWakeup, Closed
<1> QED
    BY <1>3, <1>4, <1>5 DEF IInv

-----------------------------------------------------------------------------
(***************************************************************************)
(* Every step keeps the invariant.  In each case the sets Resting and      *)
(* Unreported come first: the accounting and the range of the counters     *)
(* follow from them.                                                       *)
(***************************************************************************)

\* The counters are in range wherever they count the right threads.
LEMMA CountersInRange ==
    ASSUME SleepAccounting', StartAccounting'
    PROVE  /\ sleepingCount' \in 0..Cardinality(Dispatchers)
           /\ startCount' \in 0..Cardinality(Dispatchers)
<1>1. Resting' \in SUBSET Dispatchers /\ Unreported' \in SUBSET Dispatchers
    BY DEF Resting, Unreported
<1>2. /\ Cardinality(Resting') \in 0..Cardinality(Dispatchers)
      /\ Cardinality(Unreported') \in 0..Cardinality(Dispatchers)
    BY <1>1, SubsetOfDispatchers
<1> QED
    BY <1>2 DEF SleepAccounting, StartAccounting

\* A dispatcher on its way from its first lock to the loop.
LEMMA BootStep ==
    ASSUME IInv, NEW d \in Dispatchers,
           DispatcherBoot(d) \/ DispatcherCount(d) \/ DispatcherNotify(d)
    PROVE  IInv'
<1> USE DEF IInv, At
<1>1. CASE DispatcherBoot(d)
  <2>1. Resting' = Resting /\ Unreported' = Unreported
      BY <1>1 DEF DispatcherBoot, Resting, Unreported, TypeOK
  <2>2. SleepAccounting' /\ StartAccounting'
      BY <1>1, <2>1 DEF DispatcherBoot, SleepAccounting, StartAccounting
  <2>3. TypeOK'
      BY <1>1 DEF DispatcherBoot, TypeOK, DispatcherPCs
  <2>4. Control' /\ StartedMeansUp' /\ NoLostWakeup' /\ Closed'
      BY <1>1, <2>1 DEF DispatcherBoot, TypeOK, Control, StartedMeansUp, NoLostWakeup, Closed
  <2> QED
      BY <2>2, <2>3, <2>4
<1>2. CASE DispatcherCount(d)
  <2>1. d \in Unreported /\ Unreported' = Unreported \ {d} /\ Resting' = Resting
      BY <1>2 DEF DispatcherCount, Resting, Unreported, TypeOK
  <2>2. SleepAccounting' /\ StartAccounting'
      BY <1>2, <2>1, OneLess DEF DispatcherCount, SleepAccounting, StartAccounting, Unreported
  <2>3. TypeOK'
      BY <1>2, <2>2, CountersInRange DEF DispatcherCount, TypeOK, DispatcherPCs
  <2>4. Control' /\ StartedMeansUp' /\ NoLostWakeup' /\ Closed'
      BY <1>2, <2>1 DEF DispatcherCount, TypeOK, Control, StartedMeansUp, NoLostWakeup, Closed
  <2> QED
      BY <2>2, <2>3, <2>4
<1>3. CASE DispatcherNotify(d)
  <2>1. Resting' = Resting /\ Unreported' = Unreported
      BY <1>3 DEF DispatcherNotify, Resting, Unreported, TypeOK
  <2>2. SleepAccounting' /\ StartAccounting'
      BY <1>3, <2>1 DEF DispatcherNotify, SleepAccounting, StartAccounting
  <2>3. mpc' \in MainPCs
      BY <1>3 DEF DispatcherNotify, NotifyStartedEvent, TypeOK, MainPCs, ClientPCs, BlockedPCs
  <2>4. TypeOK'
      BY <1>3, <2>3 DEF DispatcherNotify, TypeOK, DispatcherPCs
  <2>5. Control' /\ StartedMeansUp' /\ NoLostWakeup' /\ Closed'
      BY <1>3, <2>1 DEF DispatcherNotify, NotifyStartedEvent, TypeOK, Control, ClientPCs,
                        StartedMeansUp, NoLostWakeup, Closed
  <2> QED
      BY <2>2, <2>4, <2>5
<1> QED
    BY <1>1, <1>2, <1>3

\* A dispatcher in the loop of dispatcherLoop.
LEMMA LoopStep ==
    ASSUME IInv, NEW d \in Dispatchers,
           Dispatch(d) \/ FallAsleep(d) \/ SleepOn(d) \/ Exit(d)
    PROVE  IInv'
<1> USE DEF IInv, At
<1>1. CASE Dispatch(d)
  <2>1. Unreported' = Unreported
      BY <1>1 DEF Dispatch, Unreported, TypeOK
  <2>2. StartAccounting' /\ StartedMeansUp'
      BY <1>1, <2>1 DEF Dispatch, StartAccounting, StartedMeansUp
  <2>3. SleepAccounting'
    <3>1. CASE dpc[d] = "woken"
      <4>1. d \in Resting /\ Resting' = Resting \ {d}
          BY <1>1, <3>1 DEF Dispatch, Resting, TypeOK
      <4> QED
          BY <1>1, <3>1, <4>1, OneLess DEF Dispatch, AwakeCount, SleepAccounting, Resting
    <3>2. CASE dpc[d] = "enter"
      <4>1. Resting' = Resting
          BY <1>1, <3>2 DEF Dispatch, Resting, TypeOK
      <4> QED
          BY <1>1, <3>2, <4>1 DEF Dispatch, AwakeCount, SleepAccounting
    <3> QED
        BY <1>1, <3>1, <3>2 DEF Dispatch
  <2>4. actorQueue' \in Seq(Callbacks) /\ Head(actorQueue) \in Callbacks
      BY <1>1 DEF Dispatch, TypeOK
  <2>5. TypeOK'
      BY <1>1, <2>2, <2>3, <2>4, CountersInRange DEF Dispatch, TypeOK, DispatcherPCs
  <2>6. Control'
      BY <1>1, <2>4, PriorityAssumption DEF Dispatch, TypeOK, Control
  <2>7. NoLostWakeup' /\ Closed'
      BY <1>1 DEF Dispatch, TypeOK, NoLostWakeup, Closed
  <2> QED
      BY <2>2, <2>3, <2>5, <2>6, <2>7
<1>2. CASE FallAsleep(d)
  <2>1. Unreported' = Unreported /\ d \notin Resting /\ Resting' = Resting \cup {d}
      BY <1>2 DEF FallAsleep, Resting, Unreported, TypeOK
  <2>2. mpc' \in MainPCs
      BY <1>2 DEF FallAsleep, TypeOK, MainPCs, BlockedPCs
  <2>3. StartAccounting' /\ SleepAccounting'
      BY <1>2, <2>1, OneMore DEF FallAsleep, StartAccounting, SleepAccounting, Resting
  <2>4. TypeOK'
      BY <1>2, <2>2, <2>3, CountersInRange DEF FallAsleep, TypeOK, DispatcherPCs
  <2>5. Control' /\ StartedMeansUp' /\ NoLostWakeup' /\ Closed'
      BY <1>2, <2>1 DEF FallAsleep, TypeOK, Control, StartedMeansUp, NoLostWakeup, Closed, ClientPCs
  <2> QED
      BY <2>3, <2>4, <2>5
<1>3. CASE SleepOn(d)
  <2>1. Unreported' = Unreported /\ Resting' = Resting
      BY <1>3 DEF SleepOn, Resting, Unreported, TypeOK
  <2>2. StartAccounting' /\ SleepAccounting'
      BY <1>3, <2>1 DEF SleepOn, StartAccounting, SleepAccounting
  <2>3. TypeOK'
      BY <1>3 DEF SleepOn, TypeOK, DispatcherPCs
  <2>4. Control' /\ StartedMeansUp' /\ NoLostWakeup' /\ Closed'
      BY <1>3, <2>1 DEF SleepOn, TypeOK, Control, StartedMeansUp, NoLostWakeup, Closed
  <2> QED
      BY <2>2, <2>3, <2>4
<1>4. CASE Exit(d)
  <2>1. Unreported' = Unreported /\ Resting' = Resting \cup {d}
      BY <1>4 DEF Exit, Resting, Unreported, TypeOK
  <2>2. StartAccounting'
      BY <1>4, <2>1 DEF Exit, StartAccounting
  <2>3. SleepAccounting'
    <3>1. CASE dpc[d] = "woken"
      <4>1. Resting' = Resting
          BY <2>1, <3>1 DEF Resting
      <4> QED
          BY <1>4, <3>1, <4>1 DEF Exit, AwakeCount, SleepAccounting, TypeOK
    <3>2. CASE dpc[d] = "enter"
      <4>1. d \notin Resting
          BY <3>2 DEF Resting
      <4> QED
          BY <1>4, <2>1, <3>2, <4>1, OneMore DEF Exit, AwakeCount, SleepAccounting, Resting
    <3> QED
        BY <1>4, <3>1, <3>2 DEF Exit
  <2>4. mpc' \in MainPCs
      BY <1>4 DEF Exit, NotifyStartedEvent, TypeOK, MainPCs, BlockedPCs
  <2>5. TypeOK'
      BY <1>4, <2>2, <2>3, <2>4, CountersInRange DEF Exit, TypeOK, DispatcherPCs
  <2>6. Control' /\ StartedMeansUp'
      BY <1>4, <2>1 DEF Exit, NotifyStartedEvent, TypeOK, Control, StartedMeansUp, ClientPCs
  <2>7. NoLostWakeup' /\ Closed'
      BY <1>4, <2>1 DEF Exit, TypeOK, NoLostWakeup, Closed
  <2> QED
      BY <2>2, <2>3, <2>5, <2>6, <2>7
<1> QED
    BY <1>1, <1>2, <1>3, <1>4

\* schedule disturbs the queue and the sleepers, never who is counted.
LEMMA EnqueueStep ==
    ASSUME IInv, NEW c \in Callbacks, Enqueue(c), UNCHANGED <<state, running>>
    PROVE  /\ Resting' = Resting
           /\ Unreported' = Unreported
           /\ actorQueue' \in Seq(Callbacks)
           /\ dpc' \in [Dispatchers -> DispatcherPCs]
           /\ error' \in {0, 2, 3, 4}
           /\ \A d \in Dispatchers : dpc'[d] # dpc[d] => dpc[d] = "sleep" /\ dpc'[d] = "woken"
           /\ NoLostWakeup'
           /\ Closed'
<1> USE DEF IInv
<1>1. CASE state = "STOPPED"
    BY <1>1 DEF Enqueue, TypeOK, Resting, Unreported, NoLostWakeup, Closed
<1>2. CASE state # "STOPPED"
  <2>1. actorQueue' = Append(actorQueue, c) /\ actorQueue' \in Seq(Callbacks) /\ UNCHANGED error
      BY <1>2 DEF Enqueue, TypeOK
  <2>2. CASE actorQueue = <<>>
    <3>1. dpc' = NotifyAll("sleep", "woken")
        BY <1>2, <2>1, <2>2 DEF Enqueue, NotifyScheduleEvent
    <3>2. dpc' \in [Dispatchers -> DispatcherPCs] /\ Resting' = Resting /\ Unreported' = Unreported
        BY <3>1 DEF NotifyAll, TypeOK, DispatcherPCs, Resting, Unreported
    <3>3. \A d \in Dispatchers :
              /\ dpc'[d] # "sleep"
              /\ dpc'[d] # dpc[d] => dpc[d] = "sleep" /\ dpc'[d] = "woken"
        BY <3>1 DEF NotifyAll, TypeOK
    <3> QED
        BY <1>2, <2>1, <3>2, <3>3 DEF NoLostWakeup, Closed, TypeOK
  <2>3. CASE actorQueue # <<>>
    <3>1. Len(actorQueue') # 1
        BY <2>1, <2>3 DEF TypeOK
    <3>2. UNCHANGED dpc
        BY <1>2, <3>1 DEF Enqueue
    <3> QED
        BY <1>2, <2>1, <2>3, <3>2 DEF NoLostWakeup, Closed, TypeOK, Resting, Unreported
  <2> QED
      BY <2>2, <2>3
<1> QED
    BY <1>1, <1>2

\* A callback on a dispatcher, and the main thread that schedules.
LEMMA ScheduleStep ==
    ASSUME IInv,
           MainSchedules \/ \E d \in Dispatchers : CallbackSchedules(d)
    PROVE  IInv'
<1> USE DEF IInv
<1>1. PICK c \in Callbacks : Enqueue(c)
    BY DEF MainSchedules, CallbackSchedules
<1>2. /\ UNCHANGED <<state, startCount, sleepingCount, running, done, dtor>>
      /\ late' = late \/ late' = (late \/ state # "START")
      /\ mpc' = mpc \/ (mpc \in ClientPCs /\ mpc' = "client")
    BY DEF MainSchedules, CallbackSchedules, MainAt
<1>3. /\ Resting' = Resting
      /\ Unreported' = Unreported
      /\ actorQueue' \in Seq(Callbacks)
      /\ dpc' \in [Dispatchers -> DispatcherPCs]
      /\ error' \in {0, 2, 3, 4}
      /\ \A d \in Dispatchers : dpc'[d] # dpc[d] => dpc[d] = "sleep" /\ dpc'[d] = "woken"
      /\ NoLostWakeup'
      /\ Closed'
    BY <1>1, <1>2, EnqueueStep
<1>4. SleepAccounting' /\ StartAccounting'
    BY <1>2, <1>3 DEF SleepAccounting, StartAccounting
<1>5. TypeOK'
    BY <1>2, <1>3 DEF TypeOK, MainPCs, ClientPCs
<1>6. Control'
    BY <1>2, <1>3 DEF Control, ClientPCs
<1>7. StartedMeansUp'
    BY <1>2, <1>3 DEF StartedMeansUp, ClientPCs
<1> QED
    BY <1>3, <1>4, <1>5, <1>6, <1>7

\* The callback returns to the loop.
LEMMA ReturnStep ==
    ASSUME IInv, NEW d \in Dispatchers, CallbackReturns(d)
    PROVE  IInv'
<1> USE DEF IInv, At, CallbackReturns
<1>1. Resting' = Resting /\ Unreported' = Unreported
    BY DEF Resting, Unreported, TypeOK
<1>2. SleepAccounting' /\ StartAccounting'
    BY <1>1 DEF SleepAccounting, StartAccounting
<1>3. running[d] \in Callbacks
    BY DEF TypeOK, Control
<1>4. TypeOK'
    BY <1>3 DEF TypeOK, DispatcherPCs
<1>5. Control' /\ StartedMeansUp' /\ NoLostWakeup' /\ Closed'
    BY <1>1 DEF TypeOK, Control, StartedMeansUp, NoLostWakeup, Closed
<1> QED
    BY <1>2, <1>4, <1>5

\* What lets stop decide on the counter: all asleep means all resting.
LEMMA QuietMeansResting ==
    ASSUME SleepAccounting, AllAsleep
    PROVE  Resting = Dispatchers
<1>1. Resting \in SUBSET Dispatchers
    BY DEF Resting
<1> QED
    BY <1>1, SubsetOfDispatchers DEF SleepAccounting, AllAsleep

\* stop(lock) either ends the program, closes a quiet pool or waits.
LEMMA EnterStopStep ==
    ASSUME IInv, EnterStop,
           UNCHANGED <<actorQueue, startCount, sleepingCount, dpc, running, done>>,
           dtor' \in BOOLEAN, UNCHANGED late, mpc \notin {"startNotify", "startCheck", "startWait"}
    PROVE  IInv'
<1> USE DEF IInv
<1>1. Resting' = Resting /\ Unreported' = Unreported
    BY DEF Resting, Unreported
<1>2. SleepAccounting' /\ StartAccounting' /\ NoLostWakeup'
    BY <1>1 DEF SleepAccounting, StartAccounting, NoLostWakeup
<1>3. TypeOK'
    BY DEF EnterStop, TypeOK, States, MainPCs, BlockedPCs
<1>4. Closed'
    BY <1>1, QuietMeansResting DEF EnterStop, Quiet, Closed
<1>5. Control' /\ StartedMeansUp'
    BY <1>1 DEF EnterStop, TypeOK, Control, StartedMeansUp, ClientPCs
<1> QED
    BY <1>2, <1>3, <1>4, <1>5

\* start(lock) either ends the program or opens the pool.
LEMMA EnterStartStep ==
    ASSUME IInv, EnterStart,
           UNCHANGED <<actorQueue, startCount, sleepingCount, dpc, running, done>>,
           dtor' \in BOOLEAN, UNCHANGED late, mpc \in ClientPCs
    PROVE  IInv'
<1> USE DEF IInv
<1>1. Resting' = Resting /\ Unreported' = Unreported
    BY DEF Resting, Unreported
<1>2. SleepAccounting' /\ StartAccounting' /\ NoLostWakeup'
    BY <1>1 DEF SleepAccounting, StartAccounting, NoLostWakeup
<1>3. TypeOK'
    BY DEF EnterStart, TypeOK, States, MainPCs, BlockedPCs
<1>4. Closed'
    BY <1>1 DEF EnterStart, Closed
<1>5. Control' /\ StartedMeansUp'
    BY <1>1 DEF EnterStart, TypeOK, Control, StartedMeansUp, ClientPCs
<1> QED
    BY <1>2, <1>3, <1>4, <1>5

\* The main thread calls start, stop, waitForIdle or the destructor.
LEMMA CallIInv ==
    ASSUME IInv, Start \/ WaitForIdle \/ Stop \/ Destroy
    PROVE  IInv'
<1> USE DEF MainAt
<1>1. CASE Start
    BY <1>1, EnterStartStep DEF Start, IInv, TypeOK
<1>2. CASE Stop
    BY <1>2, EnterStopStep DEF Stop, IInv, TypeOK, ClientPCs
<1>3. CASE WaitForIdle
  <2> USE <1>3 DEF WaitForIdle, IInv
  <2>1. Resting' = Resting /\ Unreported' = Unreported
      BY DEF Resting, Unreported
  <2>2. SleepAccounting' /\ StartAccounting' /\ NoLostWakeup' /\ Closed'
      BY <2>1 DEF SleepAccounting, StartAccounting, NoLostWakeup, Closed
  <2>3. TypeOK'
      BY DEF TypeOK, MainPCs, ClientPCs, BlockedPCs
  <2>4. Control' /\ StartedMeansUp'
      BY <2>1 DEF Control, StartedMeansUp, ClientPCs
  <2> QED
      BY <2>2, <2>3, <2>4
<1>4. CASE Destroy
  <2>1. CASE state = "STOPPED"
    <3> USE <1>4, <2>1 DEF Destroy, IInv
    <3>1. Resting' = Resting /\ Unreported' = Unreported /\ mpc' = "join" /\ UNCHANGED <<state, error>>
        BY DEF Resting, Unreported
    <3>2. SleepAccounting' /\ StartAccounting' /\ NoLostWakeup' /\ Closed'
        BY <3>1 DEF SleepAccounting, StartAccounting, NoLostWakeup, Closed
    <3>3. TypeOK'
        BY <3>1 DEF TypeOK, MainPCs, BlockedPCs
    <3>4. Control' /\ StartedMeansUp'
        BY <3>1 DEF Control, StartedMeansUp, ClientPCs
    <3> QED
        BY <3>2, <3>3, <3>4
  <2>2. CASE state # "STOPPED"
      BY <1>4, <2>2, EnterStartStep, EnterStopStep DEF Destroy, ClientPCs
  <2> QED
      BY <2>1, <2>2
<1> QED
    BY <1>1, <1>2, <1>3, <1>4

\* The main thread goes on inside a call.
LEMMA CallStepIInv ==
    ASSUME IInv, CallStep
    PROVE  IInv'
<1> USE DEF MainAt
<1>1. CASE StartNotify
  <2> USE <1>1 DEF StartNotify, IInv
  <2>1. Resting' = Resting /\ Unreported' = Unreported
      BY DEF NotifyAll, Resting, Unreported, TypeOK
  <2>2. SleepAccounting' /\ StartAccounting' /\ Closed'
      BY <2>1 DEF SleepAccounting, StartAccounting, Closed
  <2>3. TypeOK'
      BY DEF NotifyAll, TypeOK, MainPCs, BlockedPCs, DispatcherPCs
  <2>4. Control' /\ StartedMeansUp' /\ NoLostWakeup'
      BY <2>1 DEF NotifyAll, TypeOK, Control, StartedMeansUp, ClientPCs, NoLostWakeup
  <2> QED
      BY <2>2, <2>3, <2>4
<1>2. CASE StartCheck
  <2> USE <1>2 DEF StartCheck, IInv, AllReported
  <2>1. Resting' = Resting /\ Unreported' = Unreported
      BY DEF Resting, Unreported
  <2>2. SleepAccounting' /\ StartAccounting' /\ NoLostWakeup' /\ Closed'
      BY <2>1 DEF SleepAccounting, StartAccounting, NoLostWakeup, Closed
  <2>3. TypeOK'
      BY DEF TypeOK, MainPCs, ClientPCs, BlockedPCs
  <2>4. startCount = 0 => Unreported = {}
    <3>1. Unreported \in SUBSET Dispatchers
        BY DEF Unreported
    <3> QED
        BY <3>1, SubsetOfDispatchers DEF StartAccounting
  <2>5. state = "RUNNING" /\ StartedMeansUp'
      BY <2>1, <2>4 DEF Control, StartedMeansUp, ClientPCs
  <2>6. Control'
      BY <2>5 DEF Control, ClientPCs
  <2> QED
      BY <2>2, <2>3, <2>5, <2>6
<1>3. CASE IdleCheck
  <2> USE <1>3 DEF IdleCheck, IInv
  <2>1. Resting' = Resting /\ Unreported' = Unreported
      BY DEF Resting, Unreported
  <2>2. SleepAccounting' /\ StartAccounting' /\ NoLostWakeup' /\ Closed'
      BY <2>1 DEF SleepAccounting, StartAccounting, NoLostWakeup, Closed
  <2>3. TypeOK'
      BY DEF TypeOK, MainPCs, ClientPCs, BlockedPCs
  <2>4. Control' /\ StartedMeansUp'
      BY <2>1 DEF Control, StartedMeansUp, ClientPCs
  <2> QED
      BY <2>2, <2>3, <2>4
<1>4. CASE StopCheck
  <2> USE <1>4 DEF StopCheck, IInv
  <2>1. Resting' = Resting /\ Unreported' = Unreported
      BY DEF Resting, Unreported
  <2>2. SleepAccounting' /\ StartAccounting' /\ NoLostWakeup'
      BY <2>1 DEF SleepAccounting, StartAccounting, NoLostWakeup
  <2>3. TypeOK'
      BY DEF TypeOK, States, MainPCs, BlockedPCs
  <2>4. Closed'
      BY <2>1, QuietMeansResting DEF Quiet, Closed
  <2>5. Control' /\ StartedMeansUp'
      BY <2>1 DEF Control, StartedMeansUp, ClientPCs
  <2> QED
      BY <2>2, <2>3, <2>4, <2>5
<1>5. CASE StopNotify
  <2> USE <1>5 DEF StopNotify, NotifyScheduleEvent, IInv
  <2>1. Resting' = Resting /\ Unreported' = Unreported
      BY DEF NotifyAll, Resting, Unreported, TypeOK
  <2>2. SleepAccounting' /\ StartAccounting' /\ Closed'
      BY <2>1 DEF SleepAccounting, StartAccounting, Closed
  <2>3. TypeOK'
      BY DEF NotifyAll, TypeOK, MainPCs, ClientPCs, BlockedPCs, DispatcherPCs
  <2>4. Control' /\ StartedMeansUp' /\ NoLostWakeup'
      BY <2>1 DEF NotifyAll, TypeOK, Control, StartedMeansUp, ClientPCs, NoLostWakeup
  <2> QED
      BY <2>2, <2>3, <2>4
<1>6. CASE DestroyStop
    BY <1>6, EnterStopStep DEF DestroyStop, IInv, TypeOK
<1>7. CASE Join
  <2> USE <1>7 DEF Join, IInv
  <2>1. Resting' = Resting /\ Unreported' = Unreported
      BY DEF Resting, Unreported
  <2>2. SleepAccounting' /\ StartAccounting' /\ NoLostWakeup' /\ Closed'
      BY <2>1 DEF SleepAccounting, StartAccounting, NoLostWakeup, Closed
  <2>3. TypeOK'
      BY DEF TypeOK, MainPCs
  <2>4. Control' /\ StartedMeansUp'
      BY <2>1 DEF Control, StartedMeansUp, ClientPCs
  <2> QED
      BY <2>2, <2>3, <2>4
<1> QED
    BY <1>1, <1>2, <1>3, <1>4, <1>5, <1>6, <1>7 DEF CallStep

\* A wait that ends without a notification.
LEMMA SpuriousStep ==
    ASSUME IInv, SpuriousWakeup
    PROVE  IInv'
<1> USE DEF SpuriousWakeup, IInv
<1>1. Resting' = Resting /\ Unreported' = Unreported
    BY DEF Resting, Unreported, TypeOK
<1>2. SleepAccounting' /\ StartAccounting' /\ Closed'
    BY <1>1 DEF SleepAccounting, StartAccounting, Closed
<1>3. /\ dpc' \in [Dispatchers -> DispatcherPCs]
      /\ \A d \in Dispatchers :
            dpc'[d] # dpc[d] => <<dpc[d], dpc'[d]>> \in {<<"sleep", "woken">>, <<"startWait", "boot">>}
    BY DEF TypeOK, DispatcherPCs
<1>4. \/ mpc' = mpc
      \/ mpc = "idleWait" /\ mpc' = "idleCheck"
      \/ mpc = "startWait" /\ mpc' = "startCheck"
      \/ mpc = "stopWait" /\ mpc' = "stopCheck"
    BY DEF NotifyStartedEvent
<1>5. TypeOK'
    BY <1>3, <1>4 DEF TypeOK, MainPCs, BlockedPCs
<1>6. Control' /\ StartedMeansUp' /\ NoLostWakeup'
    BY <1>1, <1>3, <1>4 DEF TypeOK, Control, StartedMeansUp, NoLostWakeup, ClientPCs
<1> QED
    BY <1>2, <1>5, <1>6

-----------------------------------------------------------------------------

LEMMA NextIInv ==
    ASSUME IInv, [Next]_vars
    PROVE  IInv'
<1>1. ASSUME NEW d \in Dispatchers, DispatcherStep(d)
      PROVE  IInv'
    BY <1>1, BootStep, LoopStep, ReturnStep DEF DispatcherStep
<1>2. CASE MainSchedules \/ \E d \in Dispatchers : CallbackSchedules(d)
    BY <1>2, ScheduleStep
<1>3. CASE CallStep
    BY <1>3, CallStepIInv
<1>4. CASE Start \/ WaitForIdle \/ Stop \/ Destroy
    BY <1>4, CallIInv
<1>5. CASE SpuriousWakeup
    BY <1>5, SpuriousStep
<1>6. CASE UNCHANGED vars
    BY <1>6 DEF vars, IInv, TypeOK, SleepAccounting, StartAccounting, Control, StartedMeansUp,
                NoLostWakeup, Closed, Resting, Unreported
<1> QED
    BY <1>1, <1>2, <1>3, <1>4, <1>5, <1>6 DEF Next, Call, Terminated

(* The variables keep their types: neither counter leaves its range.       *)
THEOREM Typing == Spec => []TypeOK
<1>1. IInv => TypeOK
    BY DEF IInv
<1> QED
    BY <1>1, InitIInv, NextIInv, PTL DEF Spec

(* sleepingCount_ counts exactly the dispatchers at rest, whatever the     *)
(* order in which they are notified, wake and exit.                        *)
THEOREM Sleeping == Spec => []SleepAccounting
<1>1. IInv => SleepAccounting
    BY DEF IInv
<1> QED
    BY <1>1, InitIInv, NextIInv, PTL DEF Spec

(* schedule's single notification, given when the queue leaves empty, is   *)
(* enough: no dispatcher sleeps through a queued callback.                 *)
THEOREM Wakeup == Spec => []NoLostWakeup
<1>1. IInv => NoLostWakeup
    BY DEF IInv
<1> QED
    BY <1>1, InitIInv, NextIInv, PTL DEF Spec

(* start returns only when every dispatcher is up.                         *)
THEOREM Started == Spec => []StartedMeansUp
<1>1. IInv => StartedMeansUp
    BY DEF IInv
<1> QED
    BY <1>1, InitIInv, NextIInv, PTL DEF Spec

(* A stopped pool has dispatched everything and runs nothing, for ever.    *)
THEOREM Stopped == Spec => []StoppedIsQuiescent
<1>1. IInv => StoppedIsQuiescent
    BY DEF IInv, Closed, Control, StoppedIsQuiescent, Quiescent, Resting
<1> QED
    BY <1>1, InitIInv, NextIInv, PTL DEF Spec

(* startCount_ counts exactly the dispatchers that have not reported in,   *)
(* whoever notifies whom.                                                  *)
THEOREM Starting == Spec => []StartAccounting
<1>1. IInv => StartAccounting
    BY DEF IInv
<1> QED
    BY <1>1, InitIInv, NextIInv, PTL DEF Spec

-----------------------------------------------------------------------------
(***************************************************************************)
(* waitForIdle.  Its predicate counts sleepers and does not look at the    *)
(* queue.  For a client that schedules before start only that is enough:   *)
(* a dispatcher goes to rest with the queue empty, and once all of them    *)
(* rest nobody is left to schedule.                                        *)
(***************************************************************************)

\* Nothing is queued while every dispatcher of a started pool rests.
RestIsIdle == ~late /\ state # "START" /\ Resting = Dispatchers => actorQueue = <<>>

\* waitForIdle returned to a pool at rest, and the pool stays so.
IdledAtRest == mpc = "idled" => state # "START" /\ (~late => Resting = Dispatchers)

Idle == RestIsIdle /\ IdledAtRest

LEMMA NextIdle ==
    ASSUME Dispatchers # {}, IInv, Idle, [Next]_vars
    PROVE  Idle'
<1> USE DEF IInv, Idle
<1>1. ASSUME NEW d \in Dispatchers,
             DispatcherBoot(d) \/ DispatcherCount(d) \/ DispatcherNotify(d)
      PROVE  Idle'
  <2>1. d \notin Resting /\ d \notin Resting' /\ state' = state /\ late' = late
      BY <1>1 DEF DispatcherBoot, DispatcherCount, DispatcherNotify, At, Resting, TypeOK
  <2>2. mpc' = "idled" => mpc = "idled"
      BY <1>1 DEF DispatcherBoot, DispatcherCount, DispatcherNotify, NotifyStartedEvent
  <2> QED
      BY <2>1, <2>2 DEF RestIsIdle, IdledAtRest
<1>2. ASSUME NEW d \in Dispatchers, Dispatch(d) \/ CallbackReturns(d)
      PROVE  Idle'
  <2>1. d \notin Resting' /\ UNCHANGED <<state, late, mpc>>
      BY <1>2 DEF Dispatch, CallbackReturns, At, Resting, TypeOK
  <2>2. ~late => ~(Resting = Dispatchers /\ mpc = "idled")
      BY <1>2 DEF Dispatch, CallbackReturns, At, Resting, RestIsIdle, IdledAtRest
  <2> QED
      BY <2>1, <2>2 DEF RestIsIdle, IdledAtRest
<1>3. ASSUME NEW d \in Dispatchers, FallAsleep(d) \/ SleepOn(d) \/ Exit(d)
      PROVE  Idle'
  <2>1. Resting' = Resting \cup {d} /\ actorQueue' = <<>> /\ UNCHANGED <<state, late>>
      BY <1>3 DEF FallAsleep, SleepOn, Exit, At, Resting, TypeOK
  <2>2. mpc' = "idled" => mpc = "idled"
      BY <1>3 DEF FallAsleep, SleepOn, Exit, NotifyStartedEvent
  <2> QED
      BY <2>1, <2>2 DEF RestIsIdle, IdledAtRest, Resting
<1>4. ASSUME NEW d \in Dispatchers, CallbackSchedules(d)
      PROVE  Idle'
  <2>1. Resting' = Resting /\ d \notin Resting /\ UNCHANGED <<state, late, mpc>>
      BY <1>4, EnqueueStep DEF CallbackSchedules, At, Resting
  <2> QED
      BY <2>1 DEF RestIsIdle, IdledAtRest
<1>5. ASSUME MainSchedules
      PROVE  Idle'
    BY <1>5 DEF MainSchedules, RestIsIdle, IdledAtRest
<1>6. ASSUME EnterStart, UNCHANGED <<actorQueue, dpc, late>>
      PROVE  Idle'
  <2>1. state = "START" => Resting # Dispatchers
      BY DEF Control, Resting
  <2> QED
      BY <1>6, <2>1 DEF EnterStart, Resting, RestIsIdle, IdledAtRest
<1>7. ASSUME EnterStop, UNCHANGED <<actorQueue, dpc, late>>
      PROVE  Idle'
    BY <1>7 DEF EnterStop, Resting, RestIsIdle, IdledAtRest
<1>8. CASE Start \/ Stop \/ Destroy \/ DestroyStop
    BY <1>6, <1>7, <1>8 DEF Start, Stop, Destroy, DestroyStop, Resting, RestIsIdle, IdledAtRest
<1>9. ASSUME WaitForIdle \/ IdleCheck
      PROVE  Idle'
  <2>1. mpc' = "idled" => Resting = Dispatchers
      BY <1>9, QuietMeansResting DEF WaitForIdle, IdleCheck, Quiet
  <2>2. state = "START" => Resting # Dispatchers
      BY DEF Control, Resting
  <2> QED
      BY <1>9, <2>1, <2>2 DEF WaitForIdle, IdleCheck, Resting, RestIsIdle, IdledAtRest
<1>10. ASSUME StartNotify \/ StartCheck \/ StopCheck \/ StopNotify \/ Join \/ SpuriousWakeup
       PROVE  Idle'
  <2>1. Resting' = Resting /\ UNCHANGED <<actorQueue, late>>
      BY <1>10 DEF StartNotify, StartCheck, StopCheck, StopNotify, Join, SpuriousWakeup,
                   NotifyScheduleEvent, NotifyAll, Resting, TypeOK
  <2>2. (mpc' = "idled" => mpc = "idled") /\ (state' = "START" <=> state = "START")
      BY <1>10 DEF StartNotify, StartCheck, StopCheck, StopNotify, Join, SpuriousWakeup,
                   NotifyStartedEvent, MainAt, Control
  <2> QED
      BY <2>1, <2>2 DEF RestIsIdle, IdledAtRest
<1>11. CASE UNCHANGED vars
    BY <1>11 DEF vars, Resting, RestIsIdle, IdledAtRest
<1> QED
    BY <1>1, <1>2, <1>3, <1>4, <1>5, <1>8, <1>9, <1>10, <1>11
       DEF Next, DispatcherStep, CallStep, Call, Terminated

(* When waitForIdle has returned to a client that schedules before start   *)
(* only, as Core does, nothing is queued and nothing runs.  The pool has   *)
(* at least one thread (priority.cpp starts thread_pool_size of them).     *)
THEOREM Idling == ASSUME Dispatchers # {} PROVE Spec => []IdleIsQuiescent
<1>1. Init => Idle
    BY DEF Init, Idle, RestIsIdle, IdledAtRest
<1>2. IInv /\ Idle => IdleIsQuiescent
    BY DEF IInv, Control, Idle, RestIsIdle, IdledAtRest, IdleIsQuiescent, Quiescent, Resting
<1> QED
    BY <1>1, <1>2, InitIInv, NextIInv, NextIdle, PTL DEF Spec

-----------------------------------------------------------------------------
(***************************************************************************)
(* No callback is lost or run twice.                                       *)
(***************************************************************************)

\* Handing the front of the queue to a dispatcher keeps every callback once.
LEMMA DispatchOnce ==
    ASSUME IInv, ExactlyOnce, NEW d \in Dispatchers, Dispatch(d)
    PROVE  ExactlyOnce'
<1> USE DEF IInv, Dispatch, At
<1>1. /\ actorQueue \in Seq(Callbacks) /\ actorQueue # <<>>
      /\ Len(actorQueue) \in Nat /\ 1 \in DOMAIN actorQueue
      /\ actorQueue' = Tail(actorQueue)
      /\ DOMAIN actorQueue' = 1..(Len(actorQueue) - 1)
      /\ \A i \in DOMAIN actorQueue' : i + 1 \in DOMAIN actorQueue /\ actorQueue'[i] = actorQueue[i + 1]
    BY DEF TypeOK
<1>2. /\ running' = [running EXCEPT ![d] = actorQueue[1]]
      /\ running \in [Dispatchers -> Callbacks \cup {NoCallback}]
      /\ actorQueue[1] \in Callbacks
    BY <1>1 DEF TypeOK
<1>3. \A i, j \in DOMAIN actorQueue' : actorQueue'[i] = actorQueue'[j] => i = j
    BY <1>1 DEF ExactlyOnce
<1>4. \A e \in Dispatchers : running'[e] \notin done'
    BY <1>1, <1>2 DEF ExactlyOnce
<1>5. \A e \in Dispatchers : \A i \in DOMAIN actorQueue' : running'[e] # actorQueue'[i]
  <2>1. \A i \in DOMAIN actorQueue' : actorQueue'[i] # actorQueue[1]
      BY <1>1 DEF ExactlyOnce
  <2> QED
      BY <1>1, <1>2, <2>1 DEF ExactlyOnce
<1>6. \A e, f \in Dispatchers : running'[e] = running'[f] /\ running'[e] # NoCallback => e = f
    BY <1>1, <1>2 DEF ExactlyOnce
<1>7. \A i \in DOMAIN actorQueue' : actorQueue'[i] \notin done'
    BY <1>1 DEF ExactlyOnce
<1> QED
    BY <1>3, <1>4, <1>5, <1>6, <1>7 DEF ExactlyOnce

\* So does scheduling a new callback.
LEMMA EnqueueOnce ==
    ASSUME IInv, ExactlyOnce, NEW c \in Callbacks, Fresh(c), Enqueue(c), UNCHANGED <<running, done>>
    PROVE  ExactlyOnce'
<1>1. CASE state = "STOPPED"
    BY <1>1 DEF Enqueue, ExactlyOnce
<1>2. CASE state # "STOPPED"
  <2>1. /\ actorQueue \in Seq(Callbacks) /\ Len(actorQueue) \in Nat
        /\ DOMAIN actorQueue = 1..Len(actorQueue)
        /\ actorQueue' = Append(actorQueue, c)
      BY <1>2 DEF Enqueue, IInv, TypeOK
  <2>2. /\ DOMAIN actorQueue' = DOMAIN actorQueue \cup {Len(actorQueue) + 1}
        /\ Len(actorQueue) + 1 \notin DOMAIN actorQueue
        /\ actorQueue'[Len(actorQueue) + 1] = c
        /\ \A i \in DOMAIN actorQueue : actorQueue'[i] = actorQueue[i]
      BY <2>1
  <2>3. \A i \in DOMAIN actorQueue : actorQueue[i] # c
      BY DEF Fresh
  <2>4. \A i, j \in DOMAIN actorQueue' : actorQueue'[i] = actorQueue'[j] => i = j
      BY <2>2, <2>3 DEF ExactlyOnce
  <2>5. \A i \in DOMAIN actorQueue' : actorQueue'[i] \notin done'
      BY <2>2 DEF Fresh, ExactlyOnce
  <2>6. \A d \in Dispatchers : \A i \in DOMAIN actorQueue' : running'[d] # actorQueue'[i]
      BY <2>2 DEF Fresh, ExactlyOnce
  <2> QED
      BY <2>4, <2>5, <2>6 DEF ExactlyOnce
<1> QED
    BY <1>1, <1>2

LEMMA NextOnce ==
    ASSUME IInv, ExactlyOnce, [Next]_vars
    PROVE  ExactlyOnce'
<1>1. CASE \E d \in Dispatchers : Dispatch(d)
    BY <1>1, DispatchOnce
<1>2. CASE MainSchedules \/ \E d \in Dispatchers : CallbackSchedules(d)
    BY <1>2, EnqueueOnce DEF MainSchedules, CallbackSchedules
<1>3. ASSUME NEW d \in Dispatchers, CallbackReturns(d)
      PROVE  ExactlyOnce'
  <2>1. /\ done' = done \cup {running[d]} /\ UNCHANGED actorQueue
        /\ running' = [running EXCEPT ![d] = NoCallback]
        /\ running \in [Dispatchers -> Callbacks \cup {NoCallback}]
        /\ running[d] # NoCallback
        /\ NoCallback \notin done'
        /\ actorQueue \in Seq(Callbacks)
        /\ \A i \in DOMAIN actorQueue : actorQueue[i] \in Callbacks
      BY <1>3, PriorityAssumption DEF CallbackReturns, At, IInv, TypeOK, Control
  <2>2. \A e \in Dispatchers : running'[e] \notin done'
      BY <2>1 DEF ExactlyOnce
  <2>3. \A e \in Dispatchers : \A i \in DOMAIN actorQueue' : running'[e] # actorQueue'[i]
      BY <2>1, PriorityAssumption DEF ExactlyOnce
  <2>4. \A e, f \in Dispatchers : running'[e] = running'[f] /\ running'[e] # NoCallback => e = f
      BY <2>1 DEF ExactlyOnce
  <2>5. \A i \in DOMAIN actorQueue' : actorQueue'[i] \notin done'
      BY <2>1 DEF ExactlyOnce
  <2> QED
      BY <2>1, <2>2, <2>3, <2>4, <2>5 DEF ExactlyOnce
<1>4. CASE UNCHANGED <<actorQueue, running, done>>
    BY <1>4 DEF ExactlyOnce
<1>5. ASSUME NEW d \in Dispatchers,
             \/ DispatcherBoot(d) \/ DispatcherCount(d) \/ DispatcherNotify(d)
             \/ FallAsleep(d) \/ SleepOn(d) \/ Exit(d)
      PROVE  UNCHANGED <<actorQueue, running, done>>
    BY <1>5 DEF DispatcherBoot, DispatcherCount, DispatcherNotify, FallAsleep, SleepOn, Exit
<1>6. ASSUME CallStep \/ Start \/ WaitForIdle \/ Stop \/ Destroy \/ SpuriousWakeup
             \/ UNCHANGED vars
      PROVE  UNCHANGED <<actorQueue, running, done>>
    BY <1>6 DEF CallStep, StartNotify, StartCheck, IdleCheck, StopCheck, StopNotify, DestroyStop,
                Join, Start, WaitForIdle, Stop, Destroy, SpuriousWakeup, vars
<1> QED
    BY <1>1, <1>2, <1>3, <1>4, <1>5, <1>6 DEF Next, Call, DispatcherStep, Terminated

(* A scheduled callback is in one place only: queued once, or inside one   *)
(* dispatcher, or done.                                                    *)
THEOREM Once == Spec => []ExactlyOnce
<1>1. Init => ExactlyOnce
    BY DEF Init, ExactlyOnce
<1> QED
    BY <1>1, InitIInv, NextIInv, NextOnce, PTL DEF Spec

-----------------------------------------------------------------------------
(***************************************************************************)
(* The pool implements the abstract executor.  Only three kinds of steps   *)
(* are visible: a callback enters the queue, a dispatcher takes or ends    *)
(* one, and the phase changes; the rest are stutters of the executor.      *)
(***************************************************************************)

\* What the executor sees does not change: a stutter.
LEMMA Stutter ==
    ASSUME UNCHANGED <<state, actorQueue, running, done>>
    PROVE  UNCHANGED Executor!vars
BY DEF Executor!vars, Phase

\* The four names of the phase.
LEMMA PhaseNames ==
    /\ state = "START" => Phase = "new"
    /\ state = "RUNNING" => Phase = "open"
    /\ state = "STOPPING" => Phase = "draining"
    /\ state = "STOPPED" => Phase = "closed"
    /\ state' = "START" => Phase' = "new"
    /\ state' = "RUNNING" => Phase' = "open"
    /\ state' = "STOPPING" => Phase' = "draining"
    /\ state' = "STOPPED" => Phase' = "closed"
BY DEF Phase

\* A pool that stop finds quiet runs no callback.
LEMMA QuietMeansNoneRunning ==
    ASSUME IInv, Quiet
    PROVE  actorQueue = <<>> /\ \A d \in Dispatchers : running[d] = NoCallback
<1>1. Resting = Dispatchers
    BY QuietMeansResting DEF IInv, Quiet
<1> QED
    BY <1>1 DEF IInv, Control, Resting, Quiet

LEMMA StepSimulation ==
    ASSUME IInv, [Next]_vars
    PROVE  [Executor!Next]_(Executor!vars)
<1>1. ASSUME NEW d \in Dispatchers, Dispatch(d)
      PROVE  Executor!Begin(d)
  <2>1. state \in {"RUNNING", "STOPPING"} /\ running[d] = NoCallback
      BY <1>1 DEF Dispatch, At, IInv, TypeOK, Control, Closed, States
  <2> QED
      BY <1>1, <2>1, PhaseNames DEF Dispatch, Executor!Begin
<1>2. ASSUME NEW d \in Dispatchers, CallbackReturns(d)
      PROVE  Executor!Finish(d)
    BY <1>2, PhaseNames DEF CallbackReturns, At, Executor!Finish, IInv, Control, Phase
<1>3. ASSUME NEW c \in Callbacks, Fresh(c), Enqueue(c), UNCHANGED <<state, running, done>>
      PROVE  Executor!Submit(c) \/ UNCHANGED Executor!vars
  <2>1. CASE state = "STOPPED"
      BY <1>3, <2>1, Stutter DEF Enqueue
  <2>2. CASE state # "STOPPED"
    <3>1. Phase # "closed" /\ UNCHANGED Phase
        BY <1>3, <2>2, PhaseNames DEF IInv, TypeOK, States, Phase
    <3>2. Executor!New(c)
        BY <1>3 DEF Fresh, Executor!New
    <3> QED
        BY <1>3, <2>2, <3>1, <3>2 DEF Enqueue, Executor!Submit
  <2> QED
      BY <2>1, <2>2
<1>4. ASSUME EnterStart, UNCHANGED <<actorQueue, running, done>>
      PROVE  Executor!Open \/ UNCHANGED Executor!vars
    BY <1>4, PhaseNames, Stutter DEF EnterStart, Executor!Open
<1>5. ASSUME EnterStop, UNCHANGED <<actorQueue, running, done>>
      PROVE  Executor!Drain \/ Executor!Close \/ UNCHANGED Executor!vars
    BY <1>5, PhaseNames, Stutter, QuietMeansNoneRunning DEF EnterStop, Executor!Drain, Executor!Close
<1>6. ASSUME StopCheck
      PROVE  Executor!Close \/ UNCHANGED Executor!vars
    BY <1>6, PhaseNames, Stutter, QuietMeansNoneRunning
       DEF StopCheck, MainAt, Executor!Close, IInv, Control
<1>7. ASSUME MainSchedules \/ \E d \in Dispatchers : CallbackSchedules(d)
      PROVE  [Executor!Next]_(Executor!vars)
    BY <1>3, <1>7 DEF MainSchedules, CallbackSchedules, Executor!Next
<1>8. ASSUME NEW d \in Dispatchers,
             \/ DispatcherBoot(d) \/ DispatcherCount(d) \/ DispatcherNotify(d)
             \/ FallAsleep(d) \/ SleepOn(d) \/ Exit(d)
      PROVE  UNCHANGED Executor!vars
    BY <1>8, Stutter DEF DispatcherBoot, DispatcherCount, DispatcherNotify, FallAsleep, SleepOn, Exit
<1>9. ASSUME \/ StartNotify \/ StartCheck \/ IdleCheck \/ StopNotify \/ Join
             \/ WaitForIdle \/ SpuriousWakeup \/ UNCHANGED vars
      PROVE  UNCHANGED Executor!vars
    BY <1>9, Stutter DEF StartNotify, StartCheck, IdleCheck, StopNotify, Join, WaitForIdle,
                         SpuriousWakeup, vars
<1>10. ASSUME Start \/ Stop \/ Destroy \/ DestroyStop
       PROVE  [Executor!Next]_(Executor!vars)
  <2>1. CASE UNCHANGED <<state, actorQueue, running, done>>
      BY <2>1, Stutter
  <2>2. CASE EnterStart \/ EnterStop
      BY <1>4, <1>5, <1>10, <2>2 DEF Start, Stop, Destroy, DestroyStop, Executor!Next
  <2> QED
      BY <1>10, <2>1, <2>2 DEF Start, Stop, Destroy, DestroyStop
<1> QED
    BY <1>1, <1>2, <1>6, <1>7, <1>8, <1>9, <1>10
       DEF Next, DispatcherStep, CallStep, Call, Terminated, Executor!Next

(* Priority implements Executor, with any number of threads and callbacks. *)
THEOREM Implementation == Spec => ImplementsExecutor
<1>1. Init => Executor!Init
    BY PhaseNames DEF Init, Executor!Init
<1> QED
    BY <1>1, InitIInv, NextIInv, StepSimulation, PTL DEF Spec, ImplementsExecutor, Executor!Spec

=============================================================================
