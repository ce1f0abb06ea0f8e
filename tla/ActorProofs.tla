---------------------------- MODULE ActorProofs ----------------------------
(***************************************************************************)
(* Theorems about Actor, for any set of dispatchers and of callbacks, when *)
(* the derived class leaves ctorFinished to ActorLifeCycle.                *)
(***************************************************************************)
EXTENDS Actor, TLAPS

(***************************************************************************)
(* The inductive invariant: scheduled_ is true exactly while somebody will *)
(* still look at the queue, and that is one party only: the constructor,   *)
(* or the entry in the priority's queue, or the dispatcher inside consume. *)
(***************************************************************************)

\* scheduled_ stands for the one party that is going to look at the queue.
Attended ==
    /\ opc # "derivedCtor"
    /\ scheduled <=> UnderConstruction \/ entries = 1 \/ Inside # {}
    /\ UnderConstruction => entries = 0 /\ Inside = {}
    /\ ~scheduled => callBackQueue = <<>>
    /\ ~MutexFree => ~scheduled

\* A worker has a callback exactly while it is in one.
InCallback == \A w \in Workers : running[w] # NoCallback <=> wpc[w] = "callback"

IInv ==
    /\ TypeOK
    /\ OnceInPriority
    /\ Attended
    /\ InCallback

\* Only its owner's constructor calls ctorFinished.
Single == "ctorFinished" \notin DerivedCalls

LEMMA InitIInv ==
    ASSUME Single, Init
    PROVE  IInv
<1>1. Inside = {}
    BY DEF Init, Inside
<1>2. TypeOK
    BY DEF Init, Single, TypeOK, OwnerPCs
<1> QED
    BY <1>1, <1>2 DEF Init, Single, IInv, OnceInPriority, Attended, InCallback, UnderConstruction, MutexFree

-----------------------------------------------------------------------------

\* The port and the constructor: the only steps that add an entry.
LEMMA EntryStep ==
    ASSUME IInv, Schedule \/ CtorFinished
    PROVE  IInv'
<1> USE DEF IInv
<1>1. Inside' = Inside
    BY DEF Schedule, CtorFinished, Inside
<1>2. CASE Schedule
  <2>1. callBackQueue' \in Seq(Callbacks)
      BY <1>2 DEF Schedule, TypeOK
  <2>2. TypeOK'
      BY <1>2, <2>1 DEF Schedule, NotScheduled, TypeOK, Attended
  <2>3. OnceInPriority' /\ InCallback'
      BY <1>1, <1>2 DEF Schedule, NotScheduled, TypeOK, OnceInPriority, Attended, InCallback
  <2>4. Attended'
    <3>1. entries = 1 \/ UnderConstruction \/ Inside # {} \/ entries' = 1
        BY <1>2 DEF Schedule, NotScheduled, TypeOK, Attended
    <3>2. entries' = entries \/ (~scheduled /\ entries' = 1)
        BY <1>2 DEF Schedule, NotScheduled, TypeOK, Attended
    <3>3. scheduled' /\ MutexFree' /\ opc' = opc
        BY <1>2 DEF Schedule, MutexFree
    <3> QED
        BY <1>1, <3>1, <3>2, <3>3 DEF Attended, UnderConstruction
  <2> QED
      BY <2>2, <2>3, <2>4
<1>3. CASE CtorFinished
  <2>1. entries = 0 /\ Inside = {} /\ opc' = "alive"
      BY <1>3 DEF CtorFinished, Attended, UnderConstruction
  <2>2. TypeOK'
      BY <1>3, <2>1 DEF CtorFinished, TypeOK, OwnerPCs
  <2>3. OnceInPriority' /\ InCallback'
      BY <1>1, <1>3, <2>1 DEF CtorFinished, OnceInPriority, InCallback
  <2>4. Attended'
    <3>1. ~UnderConstruction' /\ MutexFree' /\ Inside' = {} /\ UNCHANGED callBackQueue
        BY <1>1, <1>3, <2>1 DEF CtorFinished, UnderConstruction, MutexFree
    <3>2. CASE callBackQueue = <<>>
      <4>1. ~scheduled' /\ entries' = 0
          BY <1>3, <2>1, <3>2 DEF CtorFinished
      <4> QED
          BY <2>1, <3>1, <3>2, <4>1 DEF Attended
    <3>3. CASE callBackQueue # <<>>
      <4>1. entries' = 1
          BY <1>3, <2>1, <3>3 DEF CtorFinished
      <4>2. scheduled'
          BY <1>3, <3>3, Zenon DEF CtorFinished
      <4> QED
          BY <2>1, <3>1, <4>1, <4>2 DEF Attended
    <3> QED
        BY <3>2, <3>3
  <2> QED
      BY <2>2, <2>3, <2>4
<1> QED
    BY <1>2, <1>3

\* A dispatcher enters, runs callbacks and leaves.
LEMMA WorkerStep ==
    ASSUME IInv, NEW w \in Workers, Worker(w)
    PROVE  IInv'
<1> USE DEF IInv
<1>1. CASE Enter(w)
  <2>1. Inside = {} /\ entries = 1 /\ entries' = 0 /\ Inside' = {w}
      BY <1>1 DEF Enter, TypeOK, OnceInPriority, Inside
  <2>2. TypeOK' /\ InCallback'
      BY <1>1, <2>1 DEF Enter, TypeOK, InCallback
  <2>3. OnceInPriority' /\ Attended'
      BY <1>1, <2>1 DEF Enter, OnceInPriority, Attended, UnderConstruction, MutexFree
  <2> QED
      BY <2>2, <2>3
<1>2. CASE Pop(w)
  <2>1. Inside' = Inside /\ w \in Inside
      BY <1>2 DEF Pop, TypeOK, Inside
  <2>2. callBackQueue' \in Seq(Callbacks) /\ Head(callBackQueue) \in Callbacks
      BY <1>2 DEF Pop, TypeOK
  <2>3. TypeOK' /\ InCallback'
      BY <1>2, <2>2, ActorAssumption DEF Pop, TypeOK, InCallback
  <2>4. OnceInPriority' /\ Attended'
      BY <1>2, <2>1 DEF Pop, OnceInPriority, Attended, UnderConstruction, MutexFree
  <2> QED
      BY <2>3, <2>4
<1>3. CASE Return(w)
  <2>1. Inside' = Inside
      BY <1>3 DEF Return, TypeOK, Inside
  <2>2. running[w] \in Callbacks
      BY <1>3 DEF Return, TypeOK, InCallback
  <2>3. TypeOK' /\ InCallback'
      BY <1>3, <2>2 DEF Return, TypeOK, InCallback
  <2>4. OnceInPriority' /\ Attended'
      BY <1>3, <2>1 DEF Return, OnceInPriority, Attended, UnderConstruction, MutexFree
  <2> QED
      BY <2>3, <2>4
<1>4. CASE Leave(w)
  <2>1. w \in Inside
      BY <1>4 DEF Leave, Inside
  <2>2. Inside' = {} /\ entries = 0 /\ entries' = 0
    <3>1. \A v \in Workers : wpc'[v] = "outside"
        BY <1>4, <2>1 DEF Leave, TypeOK, OnceInPriority, Inside
    <3> QED
        BY <1>4, <2>1, <3>1 DEF Leave, TypeOK, OnceInPriority, Inside
  <2>3. ~UnderConstruction
      BY <2>1 DEF Attended
  <2>4. TypeOK' /\ InCallback'
      BY <1>4 DEF Leave, OwnerNotified, TypeOK, OwnerPCs, InCallback
  <2>5. OnceInPriority' /\ Attended'
      BY <1>4, <2>2, <2>3 DEF Leave, OwnerNotified, OnceInPriority, Attended, UnderConstruction, MutexFree
  <2> QED
      BY <2>4, <2>5
<1> QED
    BY <1>1, <1>2, <1>3, <1>4 DEF Worker

\* The destructor.
LEMMA DestructorStep ==
    ASSUME IInv, Destruct \/ WaitForReadyToDtor \/ SpuriousWakeup \/ DerivedDtor
    PROVE  IInv'
<1> USE DEF IInv, Destruct, WaitForReadyToDtor, ReadyToDtor, SpuriousWakeup, DerivedDtor
<1>1. Inside' = Inside /\ UNCHANGED <<scheduled, callBackQueue, entries, wpc, running, done>>
    BY DEF Inside
<1>2. TypeOK' /\ InCallback'
    BY DEF TypeOK, OwnerPCs, InCallback
<1>3. OnceInPriority' /\ Attended'
    BY <1>1 DEF OnceInPriority, Attended, UnderConstruction, MutexFree
<1> QED
    BY <1>2, <1>3

LEMMA NextIInv ==
    ASSUME IInv, [Next]_vars
    PROVE  IInv'
<1>1. CASE UNCHANGED vars
    BY <1>1 DEF vars, IInv, TypeOK, OnceInPriority, Attended, InCallback, Inside,
                UnderConstruction, MutexFree
<1> QED
    BY <1>1, EntryStep, WorkerStep, DestructorStep DEF Next, Worker, Terminated

(* The variables of the actor and of its dispatchers keep their types.     *)
THEOREM Typing ==
    ASSUME Single
    PROVE  Spec => []TypeOK
<1>1. Init => IInv
    BY InitIInv
<1>2. IInv => TypeOK
    BY DEF IInv
<1> QED
    BY <1>1, <1>2, NextIInv, PTL DEF Spec

(* The actor is in the priority's queue once at most, and never while a    *)
(* dispatcher is inside it: two dispatchers never run one actor.           *)
THEOREM MutualExclusion ==
    ASSUME Single
    PROVE  Spec => []OnceInPriority
<1>1. Init => IInv
    BY InitIInv
<1>2. IInv => OnceInPriority
    BY DEF IInv
<1> QED
    BY <1>1, <1>2, NextIInv, PTL DEF Spec

(* No scheduled callback is left without somebody who will look at it.     *)
THEOREM Attendance ==
    ASSUME Single
    PROVE  Spec => []NotStranded
<1>1. Init => IInv
    BY InitIInv
<1>2. IInv => NotStranded
    BY DEF IInv, TypeOK, Attended, NotStranded
<1> QED
    BY <1>1, <1>2, NextIInv, PTL DEF Spec

(* Past waitForReadyToDtor no dispatcher is in the actor or on its way.    *)
THEOREM Destruction ==
    ASSUME Single
    PROVE  Spec => []DestroyedAlone
<1>1. Init => IInv
    BY InitIInv
<1>2. IInv => DestroyedAlone
    BY DEF IInv, TypeOK, Attended, DestroyedAlone
<1> QED
    BY <1>1, <1>2, NextIInv, PTL DEF Spec

-----------------------------------------------------------------------------
(***************************************************************************)
(* An actor is an executor with one worker.                                *)
(***************************************************************************)

\* With one worker in a callback at most, CurrentOf is that callback.
LEMMA CurrentIs ==
    ASSUME NEW r, NEW w \in Workers, r[w] # NoCallback,
           \A v \in Workers : r[v] # NoCallback => v = w
    PROVE  CurrentOf(r) = r[w]
BY DEF CurrentOf

LEMMA CurrentNone ==
    ASSUME NEW r, \A v \in Workers : r[v] = NoCallback
    PROVE  CurrentOf(r) = NoCallback
BY DEF CurrentOf

\* What a worker that holds the actor knows of the others.
LEMMA OthersIdle ==
    ASSUME IInv, NEW w \in Inside
    PROVE  \A v \in Workers : running[v] # NoCallback => v = w
BY DEF IInv, OnceInPriority, InCallback, Inside

LEMMA StepSimulation ==
    ASSUME Single, IInv, [Next]_vars
    PROVE  [Serial!Next]_(Serial!vars)
<1>1. CASE Schedule
  <2>1. PICK c \in Callbacks : Fresh(c) /\ callBackQueue' = Append(callBackQueue, c)
      BY <1>1 DEF Schedule
  <2>2. CurrentOf(running) # c
      BY <2>1, ActorAssumption DEF Fresh, CurrentOf
  <2>3. Phase # "closed" /\ Phase' = Phase
      BY <1>1 DEF Schedule, Phase, MutexFree, UnderConstruction
  <2>4. Serial!Submit(c)
      BY <1>1, <2>1, <2>2, <2>3 DEF Schedule, Fresh, Serial!Submit, Serial!New
  <2> QED
      BY <2>4 DEF Serial!Next
<1>2. CASE CtorFinished
  <2>1. Phase = "new" /\ Phase' = "open"
      BY <1>2 DEF CtorFinished, IInv, Attended, Phase, MutexFree, UnderConstruction
  <2> QED
      BY <1>2, <2>1 DEF CtorFinished, Serial!Next, Serial!Open
<1>3. ASSUME NEW w \in Workers, Enter(w) \/ Leave(w)
      PROVE  UNCHANGED Serial!vars
  <2>1. Phase' = Phase
      BY <1>3 DEF Enter, Leave, OwnerNotified, Phase, MutexFree, UnderConstruction
  <2> QED
      BY <1>3, <2>1 DEF Enter, Leave, Serial!vars
<1>4. ASSUME NEW w \in Workers, Pop(w)
      PROVE  Serial!Begin(Self)
  <2>1. w \in Inside /\ running[w] = NoCallback /\ wpc[w] = "consume"
      BY <1>4 DEF Pop, Inside, IInv, InCallback
  <2>2. CurrentOf(running) = NoCallback
      BY <2>1, OthersIdle, CurrentNone
  <2>3. Head(callBackQueue) \in Callbacks /\ running \in [Workers -> Callbacks \cup {NoCallback}]
      BY <1>4 DEF Pop, IInv, TypeOK
  <2>4. CurrentOf(running') = Head(callBackQueue)
    <3>1. running'[w] = Head(callBackQueue) /\ running'[w] # NoCallback
        BY <1>4, <2>3, ActorAssumption DEF Pop
    <3>2. \A v \in Workers : running'[v] # NoCallback => v = w
        BY <1>4, <2>1, <2>3, OthersIdle DEF Pop
    <3> QED
        BY <3>1, <3>2, CurrentIs
  <2>5. Phase = "open" /\ Phase' = "open"
      BY <1>4, <2>1 DEF Pop, IInv, Attended, Phase, MutexFree, UnderConstruction
  <2> QED
      BY <1>4, <2>2, <2>4, <2>5 DEF Pop, Serial!Begin, Self
<1>5. ASSUME NEW w \in Workers, Return(w)
      PROVE  Serial!Finish(Self)
  <2>1. w \in Inside /\ running[w] # NoCallback
      BY <1>5 DEF Return, Inside, IInv, InCallback
  <2>2. CurrentOf(running) = running[w]
      BY <2>1, OthersIdle, CurrentIs
  <2>3. \A v \in Workers : running'[v] = NoCallback
      BY <1>5, <2>1, OthersIdle DEF Return, IInv, TypeOK
  <2>4. CurrentOf(running') = NoCallback
      BY <2>3, CurrentNone
  <2>5. Phase' = Phase
      BY <1>5 DEF Return, Phase, MutexFree, UnderConstruction
  <2> QED
      BY <1>5, <2>1, <2>2, <2>4, <2>5 DEF Return, Serial!Finish, Self
<1>6. CASE WaitForReadyToDtor /\ ReadyToDtor
  <2>1. callBackQueue = <<>> /\ Inside = {}
      BY <1>6 DEF ReadyToDtor, IInv, Attended
  <2>2. CurrentOf(running) = NoCallback
      BY <2>1, CurrentNone DEF IInv, InCallback, Inside
  <2>3. Phase = "open" /\ Phase' = "closed"
      BY <1>6 DEF WaitForReadyToDtor, Phase, MutexFree, UnderConstruction
  <2> QED
      BY <1>6, <2>1, <2>2, <2>3 DEF WaitForReadyToDtor, Serial!Next, Serial!Close, Self
<1>7. CASE \/ Destruct
           \/ WaitForReadyToDtor /\ ~ReadyToDtor
           \/ SpuriousWakeup
           \/ DerivedDtor
           \/ UNCHANGED vars
  <2>1. Phase' = Phase
      BY <1>7 DEF Destruct, WaitForReadyToDtor, SpuriousWakeup, DerivedDtor, vars,
                  Phase, MutexFree, UnderConstruction
  <2> QED
      BY <1>7, <2>1 DEF Destruct, WaitForReadyToDtor, SpuriousWakeup, DerivedDtor, vars, Serial!vars
<1>8. ASSUME NEW w \in Workers, Enter(w) \/ Pop(w) \/ Return(w) \/ Leave(w)
      PROVE  [Serial!Next]_(Serial!vars)
    BY <1>3, <1>4, <1>5, <1>8 DEF Serial!Next
<1> QED
    BY <1>1, <1>2, <1>6, <1>7, <1>8 DEF Next, Terminated

(* Whatever dispatchers take part, an actor implements Executor with a     *)
(* single worker: its callbacks never overlap and keep their order.        *)
THEOREM Implementation ==
    ASSUME Single
    PROVE  Spec => ImplementsSerial
<1>1. Init => IInv
    BY InitIInv
<1>2. Init => Serial!Init
  <2>1. Init => CurrentOf(running) = NoCallback /\ Phase = "new"
      BY CurrentNone DEF Init, Phase, MutexFree, UnderConstruction
  <2> QED
      BY <2>1 DEF Init, Serial!Init
<1>3. IInv /\ [Next]_vars => [Serial!Next]_(Serial!vars)
    BY StepSimulation
<1> QED
    BY <1>1, <1>2, <1>3, NextIInv, PTL DEF Spec, ImplementsSerial, Serial!Spec

=============================================================================
